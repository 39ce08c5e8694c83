---------------------------- MODULE BlockMining ----------------------------
(***************************************************************************)
(* ant/job_miner.go: the goroutine of the miner job.  It lets siad mine,   *)
(* switches the miner off when the chain has grown, sleeps half a block    *)
(* interval and switches it on again.                                      *)
(*                                                                         *)
(* The chain also grows by blocks that other miners of the farm find.      *)
(* The check that the wallet's balance increases only logs (a WalletGet    *)
(* that fails makes it start over) and is left out.  Module AntJobs runs  *)
(* the goroutine.                                                          *)
(***************************************************************************)
EXTENDS Naturals

CONSTANT MaxFailures      \* bound: API calls that fail

VARIABLES
    pc,        \* where the goroutine is
    others,    \* are there other miners
    fresh,     \* is the height of siad's chain greater than lastBH
    minerOn,   \* is siad mining
    stopped,   \* StopChan is closed
    failures   \* API calls that failed so far

vars == <<pc, others, fresh, minerOn, stopped, failures>>

TypeOK ==
    /\ pc \in {"begin", "first", "frequency", "wait", "height", "stop", "pause", "start", "done"}
    /\ others \in BOOLEAN /\ fresh \in BOOLEAN /\ minerOn \in BOOLEAN /\ stopped \in BOOLEAN
    /\ failures \in 0 .. MaxFailures
    /\ pc \in {"pause", "start"} => ~minerOn

(* The job is started (begin), or the ant has none (done). *)
Init ==
    /\ pc \in {"begin", "done"}
    /\ others \in BOOLEAN /\ fresh \in BOOLEAN /\ stopped \in BOOLEAN
    /\ minerOn = FALSE
    /\ failures = 0

Goto(label) == pc' = label /\ UNCHANGED <<others, stopped>>
Fails == failures < MaxFailures /\ failures' = failures + 1 /\ UNCHANGED <<minerOn, fresh>>
SwitchOn  == minerOn' = TRUE  /\ UNCHANGED <<fresh, failures>>
SwitchOff == minerOn' = FALSE /\ UNCHANGED <<fresh, failures>>

(* TG.Add. *)
Begin ==
    /\ pc = "begin"
    /\ Goto(IF stopped THEN "done" ELSE "first")
    /\ UNCHANGED <<minerOn, fresh, failures>>

(* The first MinerStartGet and the ConsensusGet for the block frequency;   *)
(* an error ends the job.                                                  *)
FirstStart ==
    /\ pc = "first"
    /\ \/ Goto("frequency") /\ SwitchOn
       \/ Goto("done") /\ Fails

GetFrequency ==
    /\ pc = "frequency"
    /\ \/ Goto("wait") /\ UNCHANGED <<minerOn, fresh, failures>>
       \/ Goto("done") /\ Fails

(* Mutants: the miner is not started after the pause; break leaves the     *)
(* select, not the loop.                                                   *)
TimeOutToWait ==
    /\ pc \in {"wait", "pause"}
    /\ Goto(IF pc = "wait" THEN "height" ELSE "wait")
    /\ UNCHANGED <<minerOn, fresh, failures>>

SeeStopAndBreak ==
    /\ pc \in {"wait", "pause"} /\ stopped
    /\ Goto(IF pc = "wait" THEN "height" ELSE "start")
    /\ UNCHANGED <<minerOn, fresh, failures>>

(* The timers and the stop channel. *)
TimeOut ==
    /\ pc \in {"wait", "pause"}
    /\ Goto(IF pc = "wait" THEN "height" ELSE "start")
    /\ UNCHANGED <<minerOn, fresh, failures>>

SeeStop ==
    /\ pc \in {"wait", "pause"} /\ stopped
    /\ Goto("done")
    /\ UNCHANGED <<minerOn, fresh, failures>>

(* A new height is remembered before the miner is switched. *)
ReadHeight ==
    /\ pc = "height"
    /\ \/ /\ Goto(IF fresh THEN "stop" ELSE "wait")
          /\ fresh' = FALSE
          /\ UNCHANGED <<minerOn, failures>>
       \/ Goto("wait") /\ Fails

(* Mutant: the error is not followed by continue. *)
StopMinerOrNot ==
    /\ pc = "stop"
    /\ Goto("pause")
    /\ SwitchOff \/ Fails

(* MinerStopGet and MinerStartGet; after an error the loop starts over. *)
StopMiner ==
    /\ pc = "stop"
    /\ \/ Goto("pause") /\ SwitchOff
       \/ Goto("wait") /\ Fails

StartMiner ==
    /\ pc = "start"
    /\ Goto("wait")
    /\ SwitchOn \/ Fails

(* A block: of this siad, or of another miner. *)
OwnBlock ==
    /\ minerOn
    /\ fresh' = TRUE
    /\ UNCHANGED <<pc, others, minerOn, stopped, failures>>

OtherBlock ==
    /\ others
    /\ fresh' = TRUE
    /\ UNCHANGED <<pc, others, minerOn, stopped, failures>>

JobStep == \/ Begin \/ FirstStart \/ GetFrequency \/ TimeOut \/ SeeStop
           \/ ReadHeight \/ StopMiner \/ StartMiner
Next == JobStep \/ OwnBlock \/ OtherBlock
=============================================================================
