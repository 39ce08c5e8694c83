------------------------- MODULE BalanceMaintainer -------------------------
(***************************************************************************)
(* ant/job_balancemaintainer.go: the goroutine that switches the miner of  *)
(* its ant's siad on while the wallet holds no more than the desired       *)
(* balance, and off when it holds more.                                    *)
(*                                                                         *)
(* The goroutine acts on its own flag minerRunning, which it sets before   *)
(* it calls siad.  Module AntJobs runs it.                                 *)
(***************************************************************************)
EXTENDS Naturals

CONSTANTS
    Desired,          \* desiredBalance, in block rewards
    MaxBalance,       \* bound: the confirmed balance
    MaxFailures       \* bound: API calls that fail

VARIABLES
    pc,            \* where the goroutine is
    minerRunning,  \* its flag
    sawEnough,     \* haveDesiredBalance, as last computed
    minerOn,       \* is siad mining
    balance,       \* the confirmed balance
    stopped,       \* StopChan is closed
    failures       \* API calls that failed so far

siadVars == <<minerOn, balance>>
vars == <<pc, minerRunning, sawEnough, minerOn, balance, stopped, failures>>

HaveDesired == balance > Desired

TypeOK ==
    /\ pc \in {"begin", "first", "balance", "decide", "start", "stop", "sleep", "done"}
    /\ minerRunning \in BOOLEAN /\ sawEnough \in BOOLEAN
    /\ minerOn \in BOOLEAN /\ balance \in 0 .. MaxBalance /\ stopped \in BOOLEAN
    /\ failures \in 0 .. MaxFailures
    /\ pc \in {"start", "stop"} => minerRunning = (pc = "start")

(* The job is started (begin), or the ant has no desired currency (done). *)
Init ==
    /\ pc \in {"begin", "done"}
    /\ minerRunning = FALSE /\ sawEnough = FALSE
    /\ minerOn = FALSE /\ balance \in 0 .. MaxBalance /\ stopped \in BOOLEAN
    /\ failures = 0

Fails == failures < MaxFailures /\ failures' = failures + 1 /\ UNCHANGED siadVars

(* TG.Add. *)
Begin ==
    /\ pc = "begin"
    /\ IF stopped THEN pc' = "done" /\ UNCHANGED minerRunning
                  ELSE pc' = "first" /\ minerRunning' = TRUE
    /\ UNCHANGED <<sawEnough, siadVars, stopped, failures>>

(* The first MinerStartGet; an error ends the job. *)
FirstStart ==
    /\ pc = "first"
    /\ \/ pc' = "balance" /\ minerOn' = TRUE /\ UNCHANGED <<balance, failures>>
       \/ pc' = "done" /\ Fails
    /\ UNCHANGED <<minerRunning, sawEnough, stopped>>

(* WalletGet; an error leads to a pause and another try. *)
GetBalance ==
    /\ pc = "balance"
    /\ \/ /\ sawEnough' = HaveDesired
          /\ pc' = "decide"
          /\ UNCHANGED <<siadVars, failures>>
       \/ pc' = "sleep" /\ Fails /\ UNCHANGED sawEnough
    /\ UNCHANGED <<minerRunning, stopped>>

(* Mutant: the miner is not stopped. *)
DecideToStart ==
    /\ pc = "decide"
    /\ IF ~minerRunning /\ ~sawEnough
       THEN minerRunning' = TRUE /\ pc' = "start"
       ELSE pc' = "sleep" /\ UNCHANGED minerRunning
    /\ UNCHANGED <<sawEnough, siadVars, stopped, failures>>

(* The flag, not siad, says whether there is something to do. *)
Decide ==
    /\ pc = "decide"
    /\ IF minerRunning = sawEnough
       THEN /\ minerRunning' = ~sawEnough
            /\ pc' = IF sawEnough THEN "stop" ELSE "start"
       ELSE pc' = "sleep" /\ UNCHANGED minerRunning
    /\ UNCHANGED <<sawEnough, siadVars, stopped, failures>>

(* MinerStartGet and MinerStopGet; an error leads to a pause. *)
Switch ==
    /\ pc \in {"start", "stop"}
    /\ pc' = "sleep"
    /\ \/ minerOn' = (pc = "start") /\ UNCHANGED <<balance, failures>>
       \/ Fails
    /\ UNCHANGED <<minerRunning, sawEnough, stopped>>

(* The pauses: StopChan or the timer. *)
SleepOver ==
    /\ pc = "sleep"
    /\ pc' = "balance"
    /\ UNCHANGED <<minerRunning, sawEnough, siadVars, stopped, failures>>

SeeStop ==
    /\ pc = "sleep" /\ stopped
    /\ pc' = "done"
    /\ UNCHANGED <<minerRunning, sawEnough, siadVars, stopped, failures>>

(* The environment: mined coins mature, coins are spent. *)
CoinsMature ==
    /\ minerOn /\ balance < MaxBalance /\ balance' = balance + 1
    /\ UNCHANGED <<pc, minerRunning, sawEnough, minerOn, stopped, failures>>
Spend ==
    /\ \E b \in 0 .. balance - 1 : balance' = b
    /\ UNCHANGED <<pc, minerRunning, sawEnough, minerOn, stopped, failures>>

JobStep == Begin \/ FirstStart \/ GetBalance \/ Decide \/ Switch \/ SleepOver \/ SeeStop
Next == JobStep \/ CoinsMature \/ Spend
=============================================================================
