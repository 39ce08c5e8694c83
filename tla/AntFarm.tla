------------------------------ MODULE AntFarm ------------------------------
(***************************************************************************)
(* The antfarm: New starts the ants one after the other, starts the jobs   *)
(* that need other ants, connects the ants, listens, and, if WaitForSync   *)
(* is set, waits for the ASIC hardfork height and for the ants to agree on *)
(* the chain; Close closes all ants at once (antfarm/antfarm.go,           *)
(* antfarm/ant.go).                                                        *)
(*                                                                         *)
(* antsSyncWG holds back every job but the mining ones while New runs.     *)
(* Its Done is deferred first, so it runs last, after the Close of a New   *)
(* that fails: Close must stop jobs that still wait for it.                *)
(*                                                                         *)
(* An ant is seen as its siad process, the thread group of its job runner  *)
(* and the goroutines of its jobs; module Ant has the detail.              *)
(***************************************************************************)
EXTENDS Naturals

CONSTANTS
    NumAnts,         \* length of config.AntConfigs
    Configs,         \* job names per ant: the configurations considered
    SyncModes,       \* the values of config.WaitForSync considered
    HardforkHeight   \* types.ASICHardforkHeight, scaled down

Ants     == 1 .. NumAnts
JobNames == {"miner", "gateway", "bigspender", "littlesupplier", "unknown"}

ASSUME NumAntsAssumption == NumAnts \in Nat \ {0}
ASSUME ConfigsAssumption == Configs \subseteq [Ants -> SUBSET JobNames]
ASSUME SyncAssumption == SyncModes \subseteq BOOLEAN
ASSUME HeightAssumption == HardforkHeight \in Nat

(* Goroutines of an ant.  "bigspender2" is the one startJobs starts.       *)
Threads   == {"miner", "gateway", "bigspender", "bigspender2"}
Mining    == {"miner"}
Startable == Threads \ {"bigspender2"}     \* that ant.New starts

VARIABLES
    jobs, waitForSync,   \* the farm's configuration
    pc,        \* where New or Close of the farm is
    started,   \* length of the slice ants in startAnts
    siad,      \* siad[i]: does siad of ant i run
    gate,      \* thread group of ant i: "none", "open", "stopped"
    thread,    \* state of the goroutines of ant i
    closing,   \* where ant i's Close is
    failing,   \* farm.Close runs in the deferred function of New
    wg,        \* counter of antsSyncWG
    height,    \* block height, up to HardforkHeight
    agreed     \* waitForAntsToSync saw one consensus group

antVars == <<siad, gate, thread, closing>>
config == <<jobs, waitForSync>>
vars == <<jobs, waitForSync, pc, started, siad, gate, thread, closing, failing, wg, height, agreed>>

Active == {"waiting", "running"}

TypeOK ==
    /\ jobs \in [Ants -> SUBSET JobNames] /\ waitForSync \in BOOLEAN
    /\ pc \in {"start", "names", "startAnts", "netAddress", "closeStarted", "startJobs",
               "connect", "waitHeight", "waitSync", "farmClose",
               "up", "failed", "closed", "panic"}
    /\ started \in 0 .. NumAnts
    /\ siad \in [Ants -> BOOLEAN]
    /\ gate \in [Ants -> {"none", "open", "stopped"}]
    /\ thread \in [Ants -> [Threads -> {"none", "spawned", "waiting", "running", "done"}]]
    /\ closing \in [Ants -> {"no", "stop", "wait", "siad", "done"}]
    /\ failing \in BOOLEAN
    /\ wg \in 0 .. 1
    /\ height \in 0 .. HardforkHeight
    /\ agreed \in BOOLEAN

Init ==
    /\ jobs \in Configs /\ waitForSync \in SyncModes
    /\ pc = "start"
    /\ started = 0
    /\ siad = [i \in Ants |-> FALSE]
    /\ gate = [i \in Ants |-> "none"]
    /\ thread = [i \in Ants |-> [t \in Threads |-> "none"]]
    /\ closing = [i \in Ants |-> "no"]
    /\ failing = FALSE
    /\ wg = 0
    /\ height = 0
    /\ agreed = FALSE

Goto(label) == pc' = label /\ UNCHANGED <<started, failing, wg, height, agreed, config>>

(* Mutants: New forgets Done; New calls Done without having called Add. *)
ReturnWithoutDone(label) == pc' = label /\ UNCHANGED <<wg, started, failing, height, agreed, config>>
ReturnAlwaysDone(label) == pc' = label /\ wg' = wg - 1 /\ UNCHANGED <<started, failing, height, agreed, config>>

(* New returns; its first deferred call is antsSyncWG.Done. *)
ReturnFrom(label) == pc' = label /\ wg' = 0 /\ UNCHANGED <<started, failing, height, agreed, config>>
-----------------------------------------------------------------------------
(* New, up to the start of the ants.                                       *)

DataDirFails == pc = "start" /\ ReturnFrom("failed") /\ UNCHANGED antVars

(* Mutant: Add is forgotten. *)
NoSyncGroup ==
    /\ pc = "start"
    /\ pc' = "names"
    /\ UNCHANGED <<started, failing, wg, height, agreed, config, antVars>>

AddSyncGroup ==
    /\ pc = "start"
    /\ pc' = "names"
    /\ wg' = IF waitForSync THEN 1 ELSE 0
    /\ UNCHANGED <<started, failing, height, agreed, config, antVars>>

NamesClash  == pc = "names" /\ ReturnFrom("failed") /\ UNCHANGED antVars
NamesUnique == pc = "names" /\ Goto("startAnts") /\ UNCHANGED antVars
-----------------------------------------------------------------------------
(* startAnts.                                                              *)

i0 == started + 1     \* the ant that startAnts creates now

(* ant.New starts siad and every job of the ant. *)
AntStarts ==
    /\ pc = "startAnts" /\ started < NumAnts
    /\ jobs[i0] \subseteq Startable
    /\ siad' = [siad EXCEPT ![i0] = TRUE]
    /\ gate' = [gate EXCEPT ![i0] = "open"]
    /\ thread' = [thread EXCEPT ![i0] =
                    [t \in Threads |-> IF t \in jobs[i0] THEN "spawned" ELSE "none"]]
    /\ started' = i0
    /\ pc' = "netAddress"
    /\ UNCHANGED <<closing, failing, wg, height, agreed, config>>

(* parseConfig fails, or ant.New before it starts jobs: nothing is left of *)
(* this ant.                                                               *)
AntFails ==
    /\ pc = "startAnts" /\ started < NumAnts
    /\ Goto("closeStarted")
    /\ UNCHANGED antVars

(* StartJob does not know a job: ant.New stops siad and returns no ant,    *)
(* the jobs listed before that one stay on an open runner.                 *)
AntJobFails ==
    /\ pc = "startAnts" /\ started < NumAnts
    /\ "unknown" \in jobs[i0] /\ "littlesupplier" \notin jobs[i0]
    /\ gate' = [gate EXCEPT ![i0] = "open"]
    /\ \E before \in SUBSET (jobs[i0] \cap Startable) :
         thread' = [thread EXCEPT ![i0] =
                      [t \in Threads |-> IF t \in before THEN "spawned" ELSE "none"]]
    /\ Goto("closeStarted")
    /\ UNCHANGED <<siad, closing>>

(* StartJob indexes its empty args for "littlesupplier": a Go panic ends   *)
(* the farm's process and its goroutines; the siad processes stay.         *)
AntPanics ==
    /\ pc = "startAnts" /\ started < NumAnts
    /\ "littlesupplier" \in jobs[i0]
    /\ thread' = [i \in Ants |-> [t \in Threads |-> "done"]]
    /\ Goto("panic")
    /\ UNCHANGED <<siad, gate, closing>>

(* HostModifySettingPost and RenterPost on the new ant. *)
NetAddressSet   == pc = "netAddress" /\ Goto("startAnts") /\ UNCHANGED antVars
NetAddressFails == pc = "netAddress" /\ Goto("closeStarted") /\ UNCHANGED antVars

AllAntsStarted == pc = "startAnts" /\ started = NumAnts /\ Goto("startJobs") /\ UNCHANGED antVars

(* The deferred function closes the started ants one after the other. *)
CloseStarted ==
    /\ pc = "closeStarted"
    /\ \E i \in 1 .. started :
         /\ closing[i] = "no"
         /\ \A j \in 1 .. i - 1 : closing[j] = "done"
         /\ closing' = [closing EXCEPT ![i] = "stop"]
    /\ UNCHANGED <<pc, started, siad, gate, thread, failing, wg, height, agreed, config>>

StartedClosed ==
    /\ pc = "closeStarted"
    /\ \A i \in 1 .. started : closing[i] = "done"
    /\ ReturnFrom("failed")
    /\ UNCHANGED antVars
-----------------------------------------------------------------------------
(* The rest of New.                                                        *)

Spenders == {i \in Ants : "bigspender" \in jobs[i]}

(* startJobs fails to get a wallet address: New returns, closing nothing. *)
StartJobsFails == pc = "startJobs" /\ Spenders # {} /\ ReturnFrom("failed") /\ UNCHANGED antVars

(* startJobs starts bigspender, which ant.New started already. *)
StartJobs ==
    /\ pc = "startJobs"
    /\ thread' = [i \in Ants |-> [t \in Threads |->
                    IF t = "bigspender2" /\ i \in Spenders THEN "spawned" ELSE thread[i][t]]]
    /\ Goto("connect")
    /\ UNCHANGED <<siad, gate, closing>>

(* ConnectAnts, ConnectExternalAntfarm and Listen. *)
Connected == pc = "connect" /\ waitForSync /\ Goto("waitHeight") /\ UNCHANGED antVars

(* Mutant: the error that the deferred function sees is nil. *)
NewFailsUnseen ==
    /\ pc \in {"connect", "waitHeight", "waitSync"}
    /\ ReturnFrom("failed")
    /\ UNCHANGED antVars

(* Each failure after farm.Ants is set runs the deferred farm.Close. *)
NewFails ==
    /\ pc \in {"connect", "waitHeight", "waitSync"}
    /\ pc' = "farmClose" /\ failing' = TRUE
    /\ closing' = [i \in Ants |-> "stop"]
    /\ UNCHANGED <<started, siad, gate, thread, wg, height, agreed, config>>

HardforkReached == pc = "waitHeight" /\ height >= HardforkHeight /\ Goto("waitSync") /\ UNCHANGED antVars

(* waitForAntsToSync found one consensus group: New returns the farm. *)
AntsAgree ==
    /\ pc = "waitSync"
    /\ agreed' = TRUE
    /\ pc' = "up" /\ wg' = 0
    /\ UNCHANGED <<started, failing, height, config, antVars>>

ReturnUnsynced == pc = "connect" /\ ~waitForSync /\ ReturnFrom("up") /\ UNCHANGED antVars
-----------------------------------------------------------------------------
(* Close of the farm, and of one ant.                                      *)

Close ==
    /\ pc = "up"
    /\ pc' = "farmClose"
    /\ closing' = [i \in Ants |-> "stop"]
    /\ UNCHANGED <<started, siad, gate, thread, failing, wg, height, agreed, config>>

FarmClosed ==
    /\ pc = "farmClose"
    /\ \A i \in Ants : closing[i] = "done"
    /\ ReturnFrom(IF failing THEN "failed" ELSE "closed")
    /\ UNCHANGED antVars

farmVars == <<pc, started, failing, wg, height, agreed, config>>

AntStop(i) ==
    /\ closing[i] = "stop"
    /\ gate' = [gate EXCEPT ![i] = "stopped"]
    /\ closing' = [closing EXCEPT ![i] = "wait"]
    /\ UNCHANGED <<farmVars, siad, thread>>

AntJobsEnded(i) ==
    /\ closing[i] = "wait"
    /\ \A t \in Threads : thread[i][t] \notin Active
    /\ closing' = [closing EXCEPT ![i] = "siad"]
    /\ UNCHANGED <<farmVars, siad, gate, thread>>

AntSiadStops(i) ==
    /\ closing[i] = "siad"
    /\ siad' = [siad EXCEPT ![i] = FALSE]
    /\ closing' = [closing EXCEPT ![i] = "done"]
    /\ UNCHANGED <<farmVars, gate, thread>>

AntCloseStep(i) == AntStop(i) \/ AntJobsEnded(i) \/ AntSiadStops(i)
-----------------------------------------------------------------------------
(* The goroutines of the jobs.                                             *)

ThreadMoves(i, t, to) ==
    /\ thread' = [thread EXCEPT ![i][t] = to]
    /\ UNCHANGED <<farmVars, siad, gate, closing>>

AddThread(i, t) ==
    /\ thread[i][t] = "spawned"
    /\ ThreadMoves(i, t, IF gate[i] = "stopped" THEN "done"
                         ELSE IF t \in Mining THEN "running" ELSE "waiting")

(* waitForAntsSync: antsSyncWG.Wait returned. *)
Released(i, t) == thread[i][t] = "waiting" /\ wg = 0 /\ ThreadMoves(i, t, "running")

(* Mutant: only the sync ends the wait. *)
WaitForSyncOnly(i, t) ==
    thread[i][t] = "waiting" /\ gate[i] = "stopped" /\ wg = 0 /\ ThreadMoves(i, t, "done")

(* waitForAntsSync: the stop channel. *)
StopWaiting(i, t) == thread[i][t] = "waiting" /\ gate[i] = "stopped" /\ ThreadMoves(i, t, "done")

EndThread(i, t) == thread[i][t] = "running" /\ ThreadMoves(i, t, "done")
EndStopped(i, t) == gate[i] = "stopped" /\ EndThread(i, t)

(* A miner that runs on a running siad mines a block. *)
Mine ==
    /\ \E i \in Ants : siad[i] /\ thread[i]["miner"] = "running"
    /\ height < HardforkHeight
    /\ height' = height + 1
    /\ UNCHANGED <<pc, started, failing, wg, agreed, config, antVars>>
-----------------------------------------------------------------------------
NewStep ==
    \/ DataDirFails \/ AddSyncGroup \/ NamesClash \/ NamesUnique
    \/ AntStarts \/ AntFails \/ AntJobFails \/ AntPanics
    \/ NetAddressSet \/ NetAddressFails \/ AllAntsStarted
    \/ CloseStarted \/ StartedClosed
    \/ StartJobsFails \/ StartJobs \/ Connected \/ NewFails
    \/ HardforkReached \/ AntsAgree \/ ReturnUnsynced \/ FarmClosed

ThreadStep(i, t) == AddThread(i, t) \/ Released(i, t) \/ StopWaiting(i, t) \/ EndThread(i, t)

Next ==
    \/ NewStep \/ Close \/ Mine
    \/ \E i \in Ants : AntCloseStep(i) \/ \E t \in Threads : ThreadStep(i, t)

Spec == Init /\ [][Next]_vars

(* New goes on (all its waits have timeouts); goroutines are scheduled; a  *)
(* job ends after the stop signal, as in module Ant.                       *)
Fairness ==
    /\ WF_vars(NewStep)
    /\ \A i \in Ants : /\ WF_vars(AntCloseStep(i))
                       /\ \A t \in Threads :
                            /\ WF_vars(AddThread(i, t))
                            /\ WF_vars(Released(i, t) \/ StopWaiting(i, t))
                            /\ WF_vars(EndStopped(i, t))

FairSpec == Spec /\ Fairness
-----------------------------------------------------------------------------
(* Properties.                                                             *)

(* antsSyncWG "is a waitgroup to wait for ASIC hardfork height and for all *)
(* ants to be in sync.  Then all non-mining ant jobs start"                *)
(* (antfarm.go:65): no path of New lets such a job begin early, although   *)
(* each of them ends with antsSyncWG.Done.                                 *)
JobsAreInSync ==
    waitForSync =>
        \A i \in Ants, t \in Threads \ Mining :
            thread[i][t] = "running" => height >= HardforkHeight /\ agreed

(* When New has returned an error, or Close has returned, nothing of the   *)
(* farm runs: no siad, no job, and no runner on which a goroutine that is  *)
(* not scheduled yet could still begin its job ("if an error occurs, all   *)
(* the ants that have been started are closed", antfarm/ant.go:107).       *)
AllIsClosed ==
    pc \in {"failed", "closed"} =>
        \A i \in Ants : /\ ~siad[i]
                        /\ gate[i] # "open"
                        /\ \A t \in Threads : thread[i][t] \notin Active

(* What keeps them from holding in general: a startJobs that failed, after *)
(* which New returns without closing anything (antfarm.go:127), and a      *)
(* configured job that ant.New does not know, after which it leaves the    *)
(* goroutines that it has started (ant.go:332).  On every other path of    *)
(* New and Close both hold.                                                *)
StartJobsFailed ==
    /\ pc = "failed" /\ started = NumAnts
    /\ \A i \in Ants : closing[i] = "no"
    /\ \E i \in Spenders : thread[i]["bigspender2"] = "none"
JobsAreKnown    == \A i \in Ants : "unknown" \notin jobs[i]
SyncBeforeJobs    == JobsAreKnown /\ ~StartJobsFailed => JobsAreInSync
NothingLeftBehind == JobsAreKnown /\ ~StartJobsFailed => AllIsClosed

(* Why these hold.  An ant's Close stops its runner, then sees its jobs    *)
(* ended, then stops siad; nothing begins on it meanwhile.  An ant that    *)
(* was not started has nothing.  New and Close return only after the ants  *)
(* that were started are closed, but for the startJobs that failed.  The   *)
(* wait group is held from Add until the ants agree, or until nobody waits *)
(* any more.  IInv is inductive.                                           *)
CloseInOrder ==
    \A i \in Ants :
        /\ closing[i] \in {"wait", "siad", "done"} => gate[i] = "stopped"
        /\ closing[i] \in {"siad", "done"} => \A t \in Threads : thread[i][t] \notin Active
        /\ closing[i] = "done" => ~siad[i]
ClosingIsLate ==
    \A i \in Ants : closing[i] # "no" =>
        i <= started /\ pc \in {"closeStarted", "farmClose", "failed", "closed"}
UnstartedIsBare ==
    \A i \in Ants : i > started =>
        /\ ~siad[i]
        /\ JobsAreKnown => gate[i] = "none" /\ \A t \in Threads : thread[i][t] \in {"none", "done"}
StartedInOrder ==
    /\ pc \in {"start", "names"} => started = 0
    /\ pc \in {"startJobs", "connect", "waitHeight", "waitSync", "up", "farmClose", "closed"} =>
          started = NumAnts
    /\ pc \in {"start", "names", "startAnts", "netAddress", "startJobs"} =>
          \A i \in Ants : thread[i]["bigspender2"] = "none"
ReturnedIsClosed ==
    /\ pc = "failed" => StartJobsFailed \/ \A i \in 1 .. started : closing[i] = "done"
    /\ pc = "closed" => \A i \in Ants : closing[i] = "done"
SyncIsHeld ==
    /\ waitForSync /\ wg = 0 => pc \in {"start", "failed"} \/ agreed
    /\ agreed \/ pc = "waitSync" => height >= HardforkHeight
    /\ waitForSync /\ pc \in {"up", "farmClose", "closed"} => agreed \/ (failing /\ pc = "farmClose")
IInv == /\ TypeOK /\ SyncBeforeJobs
        /\ CloseInOrder /\ ClosingIsLate /\ UnstartedIsBare /\ StartedInOrder
        /\ ReturnedIsClosed /\ SyncIsHeld

(* Every ant's job runner is a StopGate, as in module Ant: while New and   *)
(* Close of the farm go through their ants and jobs are started from two   *)
(* sides, a runner opens once, lets nobody in once it is told to stop, and *)
(* its Stop returns when the last job has ended.  Only the panic ends all  *)
(* goroutines at once.                                                     *)
GateOf(i) == IF gate[i] = "none" THEN "new"
             ELSE IF gate[i] = "open" THEN "open"
             ELSE IF closing[i] \in {"siad", "done"} THEN "drained" ELSE "shut"
InsideOf(i) == {t \in Threads : thread[i][t] \in Active}

Runner(i) == INSTANCE StopGate WITH Members <- Threads, gate <- GateOf(i), inside <- InsideOf(i)

EveryAntIsAStopGate ==
    /\ \A i \in Ants : Runner(i)!Init
    /\ [][\A i \in Ants : pc' = "panic" \/ [Runner(i)!Next]_(Runner(i)!vars)]_vars

(* What IInv needs for this: startAnts finds the runner that it opens new, *)
(* a started ant's runner is open until its Close stops it, and a runner   *)
(* that is not open yet has no goroutine.                                  *)
GatesInOrder ==
    \A i \in Ants :
        /\ pc \in {"start", "names", "startAnts", "netAddress"} /\ i > started =>
              gate[i] = "none" /\ \A t \in Threads : thread[i][t] = "none"
        /\ i <= started /\ closing[i] \in {"no", "stop"} => gate[i] = "open"
        /\ gate[i] = "none" => \A t \in Threads : thread[i][t] \in {"none", "done"}

(* New returns, and a farm that begins to close is closed.  The Close of a *)
(* New that fails waits for jobs that wait for the Done that New calls     *)
(* only after Close (antfarm.go:101, :305).                                *)
NewAndCloseReturn ==
    /\ <>(pc \in {"up", "failed", "closed", "panic"})
    /\ pc = "farmClose" ~> pc \in {"failed", "closed"}

(* No job waits for the sync for ever. *)
NoJobWaitsForever ==
    \A i \in Ants, t \in Threads : thread[i][t] = "waiting" ~> thread[i][t] # "waiting"
=============================================================================
