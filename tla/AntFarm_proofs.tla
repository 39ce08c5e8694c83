--------------------------- MODULE AntFarm_proofs ---------------------------
(***************************************************************************)
(* Proofs about AntFarm, for any number of ants, any job lists and any     *)
(* hardfork height: jobs begin in sync, and a New that fails, or a Close,  *)
(* leaves nothing behind, but for the startJobs that failed and the jobs   *)
(* that ant.New does not know.  The job runner of every ant is a StopGate. *)
(***************************************************************************)
EXTENDS AntFarm, TLAPS

USE DEF Ants

LEMMA TypeStep == ASSUME IInv, [Next]_vars PROVE TypeOK'
<1> USE NumAntsAssumption, HeightAssumption DEF IInv
<1>1. CASE UNCHANGED vars
  BY <1>1 DEF vars, TypeOK
<1>2. CASE \/ DataDirFails \/ AddSyncGroup \/ NamesClash \/ NamesUnique
           \/ AntFails \/ NetAddressSet \/ NetAddressFails \/ AllAntsStarted
           \/ StartedClosed \/ StartJobsFails \/ Connected
           \/ HardforkReached \/ AntsAgree \/ ReturnUnsynced \/ FarmClosed
  <2>1. UNCHANGED <<antVars, config, started, failing, height>>
    BY <1>2 DEF DataDirFails, AddSyncGroup, NamesClash, NamesUnique, AntFails, NetAddressSet,
       NetAddressFails, AllAntsStarted, StartedClosed, StartJobsFails, Connected,
       HardforkReached, AntsAgree, ReturnUnsynced, FarmClosed, Goto, ReturnFrom, config, antVars
  <2>2. /\ pc' \in {"start", "names", "startAnts", "netAddress", "closeStarted", "startJobs",
                    "connect", "waitHeight", "waitSync", "farmClose", "up", "failed", "closed"}
        /\ wg' \in {wg, 0, 1} /\ (agreed' = agreed \/ agreed' = TRUE)
    BY <1>2 DEF DataDirFails, AddSyncGroup, NamesClash, NamesUnique, AntFails, NetAddressSet,
       NetAddressFails, AllAntsStarted, StartedClosed, StartJobsFails, Connected,
       HardforkReached, AntsAgree, ReturnUnsynced, FarmClosed, Goto, ReturnFrom
  <2>3. wg' \in 0 .. 1 /\ agreed' \in BOOLEAN
    <3>1. wg' \in 0 .. 1
      BY <2>2 DEF TypeOK
    <3>2. agreed' \in BOOLEAN
      <4>1. agreed \in BOOLEAN
        BY DEF TypeOK
      <4> QED BY <2>2, <4>1
    <3> QED BY <3>1, <3>2
  <2> QED BY <2>1, <2>2, <2>3 DEF TypeOK, config, antVars
<1>3. CASE AntStarts
  <2>1. started + 1 \in 0 .. NumAnts
    BY <1>3 DEF AntStarts, TypeOK
  <2> QED BY <1>3, <2>1 DEF AntStarts, i0, TypeOK, config
<1>4. CASE AntJobFails \/ AntPanics \/ StartJobs
  <2>1. UNCHANGED <<siad, closing, started, failing, wg, height, agreed, config>>
    BY <1>4 DEF AntJobFails, AntPanics, StartJobs, Goto
  <2>2. pc' \in {"closeStarted", "panic", "connect"}
    BY <1>4 DEF AntJobFails, AntPanics, StartJobs, Goto
  <2>3. gate' \in [Ants -> {"none", "open", "stopped"}]
    BY <1>4 DEF AntJobFails, AntPanics, StartJobs, TypeOK
  <2>4. thread' \in [Ants -> [Threads -> {"none", "spawned", "waiting", "running", "done"}]]
    <3>1. CASE AntJobFails
      <4>1. PICK before \in SUBSET (jobs[i0] \cap Startable) :
              thread' = [thread EXCEPT ![i0] =
                           [t \in Threads |-> IF t \in before THEN "spawned" ELSE "none"]]
        BY <3>1 DEF AntJobFails
      <4> QED BY <4>1 DEF TypeOK
    <3>2. CASE AntPanics
      BY <3>2 DEF AntPanics
    <3>3. CASE StartJobs
      BY <3>3 DEF StartJobs, TypeOK
    <3> QED BY <1>4, <3>1, <3>2, <3>3
  <2> QED BY <2>1, <2>2, <2>3, <2>4 DEF TypeOK, config
<1>5. CASE CloseStarted \/ NewFails \/ Close \/ Mine
  <2>1. CASE CloseStarted
    BY <2>1 DEF CloseStarted, TypeOK, config
  <2>2. CASE NewFails \/ Close
    BY <2>2 DEF NewFails, Close, TypeOK, config
  <2>3. CASE Mine
    BY <2>3 DEF Mine, TypeOK, config, antVars
  <2> QED BY <1>5, <2>1, <2>2, <2>3
<1>6. ASSUME NEW i \in Ants, AntCloseStep(i) PROVE TypeOK'
  BY <1>6 DEF AntCloseStep, AntStop, AntJobsEnded, AntSiadStops, TypeOK, farmVars, config
<1>7. ASSUME NEW i \in Ants, NEW t \in Threads, ThreadStep(i, t) PROVE TypeOK'
  <2>1. PICK to \in {"running", "waiting", "done"} : ThreadMoves(i, t, to)
    BY <1>7 DEF ThreadStep, AddThread, Released, StopWaiting, EndThread
  <2>2. thread' = [thread EXCEPT ![i] = [thread[i] EXCEPT ![t] = to]]
    BY <2>1 DEF ThreadMoves
  <2>3. thread' \in [Ants -> [Threads -> {"none", "spawned", "waiting", "running", "done"}]]
    BY <2>2 DEF TypeOK
  <2> QED BY <2>1, <2>3 DEF ThreadMoves, TypeOK, farmVars, config
<1> QED BY <1>1, <1>2, <1>3, <1>4, <1>5, <1>6, <1>7 DEF Next, NewStep

(* Steps of New and Close that leave the ants alone.                       *)
LEMMA FarmOnlyStep ==
  ASSUME IInv, TypeOK', UNCHANGED <<antVars, config, started, height>>,
         pc # "failed", agreed => agreed',
         ClosingIsLate', StartedInOrder', ReturnedIsClosed', SyncIsHeld'
  PROVE  IInv'
<1> USE DEF IInv
<1>1. UNCHANGED <<siad, gate, thread, closing, jobs, waitForSync, started, height>>
  BY DEF antVars, config
<1>2. CloseInOrder' /\ UnstartedIsBare'
  BY <1>1 DEF CloseInOrder, UnstartedIsBare, JobsAreKnown
<1>3. SyncBeforeJobs'
  BY <1>1 DEF SyncBeforeJobs, JobsAreInSync, JobsAreKnown, StartJobsFailed
<1> QED BY <1>2, <1>3

(* What the returns of New and Close find.                                 *)
LEMMA FarmStep ==
  ASSUME IInv, TypeOK',
         \/ DataDirFails \/ AddSyncGroup \/ NamesClash \/ NamesUnique
         \/ AntFails \/ NetAddressSet \/ NetAddressFails \/ AllAntsStarted
         \/ StartedClosed \/ StartJobsFails \/ Connected
         \/ HardforkReached \/ AntsAgree \/ ReturnUnsynced \/ FarmClosed
  PROVE  IInv'
<1> USE DEF IInv
<1>1. UNCHANGED <<siad, gate, thread, closing, jobs, waitForSync, started, failing, height>>
  BY DEF DataDirFails, AddSyncGroup, NamesClash, NamesUnique, AntFails, NetAddressSet,
     NetAddressFails, AllAntsStarted, StartedClosed, StartJobsFails, Connected,
     HardforkReached, AntsAgree, ReturnUnsynced, FarmClosed, Goto, ReturnFrom, config, antVars
<1>2. pc # "failed" /\ (agreed => agreed')
  BY DEF DataDirFails, AddSyncGroup, NamesClash, NamesUnique, AntFails, NetAddressSet,
     NetAddressFails, AllAntsStarted, StartedClosed, StartJobsFails, Connected,
     HardforkReached, AntsAgree, ReturnUnsynced, FarmClosed, Goto, ReturnFrom
<1>3. ClosingIsLate'
  <2>1. pc \in {"closeStarted", "farmClose"} => pc' \in {"closeStarted", "farmClose", "failed", "closed"}
    BY DEF DataDirFails, AddSyncGroup, NamesClash, NamesUnique, AntFails, NetAddressSet,
       NetAddressFails, AllAntsStarted, StartedClosed, StartJobsFails, Connected,
       HardforkReached, AntsAgree, ReturnUnsynced, FarmClosed, Goto, ReturnFrom
  <2>2. pc # "closed"
    BY DEF DataDirFails, AddSyncGroup, NamesClash, NamesUnique, AntFails, NetAddressSet,
       NetAddressFails, AllAntsStarted, StartedClosed, StartJobsFails, Connected,
       HardforkReached, AntsAgree, ReturnUnsynced, FarmClosed
  <2> QED BY <1>1, <1>2, <2>1, <2>2 DEF ClosingIsLate
<1>4. StartedInOrder'
  BY <1>1 DEF DataDirFails, AddSyncGroup, NamesClash, NamesUnique, AntFails, NetAddressSet,
     NetAddressFails, AllAntsStarted, StartedClosed, StartJobsFails, Connected,
     HardforkReached, AntsAgree, ReturnUnsynced, FarmClosed, Goto, ReturnFrom, StartedInOrder
<1>5. ReturnedIsClosed'
  <2>1. CASE DataDirFails \/ NamesClash
    <3>1. pc' = "failed" /\ started = 0
      BY <2>1 DEF DataDirFails, NamesClash, ReturnFrom, StartedInOrder
    <3> QED BY <1>1, <3>1 DEF ReturnedIsClosed
  <2>2. CASE StartedClosed
    BY <1>1, <2>2 DEF StartedClosed, ReturnFrom, ReturnedIsClosed
  <2>3. CASE FarmClosed
    <3>1. \A i \in Ants : closing'[i] = "done"
      BY <1>1, <2>3 DEF FarmClosed
    <3>2. 1 .. started' \subseteq Ants
      BY <1>1, NumAntsAssumption DEF TypeOK
    <3> QED BY <3>1, <3>2 DEF ReturnedIsClosed
  <2>4. CASE StartJobsFails
    <3>1. pc = "startJobs" /\ Spenders # {} /\ pc' = "failed"
      BY <2>4 DEF StartJobsFails, ReturnFrom
    <3>2. /\ started = NumAnts /\ \A i \in Ants : closing[i] = "no"
          /\ \A i \in Ants : thread[i]["bigspender2"] = "none"
      BY <3>1 DEF StartedInOrder, ClosingIsLate
    <3>3. Spenders' = Spenders
      BY <1>1 DEF Spenders
    <3>4. \E i \in Spenders' : thread'[i]["bigspender2"] = "none"
      BY <1>1, <3>1, <3>2, <3>3 DEF Spenders
    <3>5. StartJobsFailed'
      BY <1>1, <3>1, <3>2, <3>4 DEF StartJobsFailed
    <3> QED BY <3>1, <3>5 DEF ReturnedIsClosed
  <2>5. CASE \/ AddSyncGroup \/ NamesUnique \/ AntFails \/ NetAddressSet \/ NetAddressFails
             \/ AllAntsStarted \/ Connected \/ HardforkReached \/ AntsAgree \/ ReturnUnsynced
    <3>1. pc' \notin {"failed", "closed"}
      BY <2>5 DEF AddSyncGroup, NamesUnique, AntFails, NetAddressSet, NetAddressFails,
         AllAntsStarted, Connected, HardforkReached, AntsAgree, ReturnUnsynced, Goto, ReturnFrom
    <3> QED BY <3>1 DEF ReturnedIsClosed
  <2> QED BY <2>1, <2>2, <2>3, <2>4, <2>5
<1>6. SyncIsHeld'
  <2>1. CASE AddSyncGroup
    BY <1>1, <2>1 DEF AddSyncGroup, SyncIsHeld
  <2>2. CASE DataDirFails \/ NamesClash \/ StartedClosed \/ StartJobsFails
    BY <1>1, <2>2 DEF DataDirFails, NamesClash, StartedClosed, StartJobsFails, ReturnFrom, SyncIsHeld
  <2>3. CASE \/ NamesUnique \/ AntFails \/ NetAddressSet \/ NetAddressFails \/ AllAntsStarted
             \/ Connected \/ HardforkReached
    BY <1>1, <2>3 DEF NamesUnique, AntFails, NetAddressSet, NetAddressFails, AllAntsStarted,
       Connected, HardforkReached, Goto, SyncIsHeld
  <2>4. CASE AntsAgree
    BY <1>1, <2>4 DEF AntsAgree, SyncIsHeld
  <2>5. CASE ReturnUnsynced
    BY <1>1, <2>5 DEF ReturnUnsynced, ReturnFrom, SyncIsHeld
  <2>6. CASE FarmClosed
    BY <1>1, <2>6 DEF FarmClosed, ReturnFrom, SyncIsHeld, TypeOK
  <2> QED BY <2>1, <2>2, <2>3, <2>4, <2>5, <2>6
<1>7. UNCHANGED <<antVars, config, started, height>>
  BY <1>1 DEF antVars, config
<1> QED BY <1>2, <1>3, <1>4, <1>5, <1>6, <1>7, FarmOnlyStep

(* StartJobsFailed is for ever: nothing but goroutines moves after it.     *)
LEMMA FailedJobsStay == ASSUME IInv, StartJobsFailed, [Next]_vars PROVE StartJobsFailed'
<1> USE DEF IInv
<1>1. /\ pc = "failed" /\ started = NumAnts /\ \A i \in Ants : closing[i] = "no"
      /\ \E i \in Spenders : thread[i]["bigspender2"] = "none"
  BY DEF StartJobsFailed
<1>2. CASE UNCHANGED vars \/ Mine
  <2>1. UNCHANGED <<pc, started, closing, thread, jobs>>
    BY <1>2 DEF vars, Mine, antVars, config
  <2> QED BY <1>1, <2>1 DEF StartJobsFailed, Spenders
<1>3. ~NewStep /\ ~Close
  BY <1>1 DEF NewStep, DataDirFails, AddSyncGroup, NamesClash, NamesUnique, AntStarts, AntFails,
     AntJobFails, AntPanics, NetAddressSet, NetAddressFails, AllAntsStarted, CloseStarted,
     StartedClosed, StartJobsFails, StartJobs, Connected, NewFails, HardforkReached, AntsAgree,
     ReturnUnsynced, FarmClosed, Close
<1>4. \A i \in Ants : ~AntCloseStep(i)
  BY <1>1 DEF AntCloseStep, AntStop, AntJobsEnded, AntSiadStops
<1>5. ASSUME NEW i \in Ants, NEW t \in Threads, ThreadStep(i, t) PROVE StartJobsFailed'
  <2>1. PICK to : thread[i][t] # "none" /\ ThreadMoves(i, t, to)
    BY <1>5 DEF ThreadStep, AddThread, Released, StopWaiting, EndThread
  <2>2. PICK j \in Spenders : thread[j]["bigspender2"] = "none"
    BY <1>1
  <2>3. j \in Ants /\ "bigspender2" \in Threads
    BY DEF Spenders, Threads
  <2>4. thread'[j]["bigspender2"] = "none"
    BY <2>1, <2>2, <2>3 DEF ThreadMoves, TypeOK
  <2>5. UNCHANGED <<pc, started, closing, jobs>>
    BY <2>1 DEF ThreadMoves, farmVars, config
  <2> QED BY <1>1, <2>4, <2>5 DEF StartJobsFailed, Spenders
<1> QED BY <1>2, <1>3, <1>4, <1>5 DEF Next

(* The start of an ant, and of the second bigspender.                      *)
LEMMA StartStep ==
  ASSUME IInv, TypeOK', AntStarts \/ AntJobFails \/ AntPanics \/ StartJobs
  PROVE  IInv'
<1> USE DEF IInv
<1>1. /\ UNCHANGED <<closing, wg, height, agreed, failing, jobs, waitForSync>>
      /\ pc \in {"startAnts", "startJobs"} /\ pc' \in {"netAddress", "closeStarted", "panic", "connect"}
  BY DEF AntStarts, AntJobFails, AntPanics, StartJobs, Goto, config
<1>2. \A i \in Ants : closing[i] = "no"
  BY <1>1 DEF ClosingIsLate
<1>3. CloseInOrder' /\ ClosingIsLate' /\ ReturnedIsClosed'
  BY <1>1, <1>2 DEF CloseInOrder, ClosingIsLate, ReturnedIsClosed
<1>4. SyncIsHeld'
  BY <1>1 DEF SyncIsHeld
<1>5. \A i \in Ants, t \in Threads : thread'[i][t] = "running" => thread[i][t] = "running"
  <2>1. CASE AntStarts
    BY <2>1 DEF AntStarts, TypeOK
  <2>2. CASE AntJobFails
    <3>1. PICK before \in SUBSET (jobs[i0] \cap Startable) :
            thread' = [thread EXCEPT ![i0] =
                         [t \in Threads |-> IF t \in before THEN "spawned" ELSE "none"]]
      BY <2>2 DEF AntJobFails
    <3> QED BY <3>1 DEF TypeOK
  <2>3. CASE AntPanics
    BY <2>3 DEF AntPanics
  <2>4. CASE StartJobs
    BY <2>4 DEF StartJobs
  <2> QED BY <2>1, <2>2, <2>3, <2>4
<1>6. SyncBeforeJobs'
  <2>1. ~StartJobsFailed
    BY <1>1 DEF StartJobsFailed
  <2> QED BY <1>1, <1>5, <2>1 DEF SyncBeforeJobs, JobsAreInSync, JobsAreKnown
<1>7. UnstartedIsBare' /\ StartedInOrder'
  <2>1. CASE AntStarts
    <3>1. /\ siad' = [siad EXCEPT ![started + 1] = TRUE]
          /\ gate' = [gate EXCEPT ![started + 1] = "open"]
          /\ thread' = [thread EXCEPT ![started + 1] =
                          [t \in Threads |-> IF t \in jobs[started + 1] THEN "spawned" ELSE "none"]]
          /\ started' = started + 1 /\ pc' = "netAddress" /\ pc = "startAnts"
          /\ jobs[started + 1] \subseteq Startable
      BY <2>1 DEF AntStarts, i0
    <3>2. \A i \in Ants : i # started + 1 =>
            siad'[i] = siad[i] /\ gate'[i] = gate[i] /\ thread'[i] = thread[i]
      BY <3>1 DEF TypeOK
    <3>3. UnstartedIsBare'
      BY <1>1, <3>1, <3>2 DEF UnstartedIsBare, JobsAreKnown, TypeOK
    <3>4. \A i \in Ants : thread'[i]["bigspender2"] = "none"
      BY <3>1, <3>2 DEF StartedInOrder, Threads, Startable, TypeOK
    <3> QED BY <3>1, <3>3, <3>4 DEF StartedInOrder
  <2>2. CASE AntJobFails
    <3>1. started + 1 \in Ants /\ "unknown" \in jobs[started + 1] /\ pc' = "closeStarted"
          /\ UNCHANGED <<siad, started>>
      BY <2>2 DEF AntJobFails, i0, Goto, TypeOK
    <3>2. ~JobsAreKnown /\ ~JobsAreKnown'
      BY <1>1, <3>1 DEF JobsAreKnown
    <3> QED BY <3>1, <3>2 DEF UnstartedIsBare, StartedInOrder
  <2>3. CASE AntPanics
    <3>1. /\ pc' = "panic" /\ UNCHANGED <<siad, gate, started>>
          /\ \A i \in Ants, t \in Threads : thread'[i][t] = "done"
      BY <2>3 DEF AntPanics, Goto
    <3> QED BY <1>1, <3>1 DEF UnstartedIsBare, StartedInOrder, JobsAreKnown
  <2>4. CASE StartJobs
    <3>1. pc = "startJobs" /\ pc' = "connect" /\ UNCHANGED <<siad, gate, started>>
      BY <2>4 DEF StartJobs, Goto
    <3>2. started = NumAnts
      BY <3>1 DEF StartedInOrder
    <3> QED BY <3>1, <3>2, NumAntsAssumption DEF UnstartedIsBare, StartedInOrder
  <2> QED BY <2>1, <2>2, <2>3, <2>4
<1> QED BY <1>3, <1>4, <1>6, <1>7

(* The steps of Close of the farm and of the deferred functions of New.    *)
LEMMA CloseStep ==
  ASSUME IInv, TypeOK', CloseStarted \/ NewFails \/ Close
  PROVE  IInv'
<1> USE DEF IInv
<1>1. UNCHANGED <<started, siad, gate, thread, wg, height, agreed, jobs, waitForSync>>
  BY DEF CloseStarted, NewFails, Close, config
<1>2. UnstartedIsBare' /\ JobsAreKnown' = JobsAreKnown
  BY <1>1 DEF UnstartedIsBare, JobsAreKnown
<1>3. pc \notin {"failed", "closed"}
  BY DEF CloseStarted, NewFails, Close
<1>4. SyncBeforeJobs'
  BY <1>1, <1>3 DEF SyncBeforeJobs, JobsAreInSync, StartJobsFailed, JobsAreKnown
<1>5. CASE CloseStarted
  <2>1. PICK i \in 1 .. started : closing[i] = "no" /\ closing' = [closing EXCEPT ![i] = "stop"]
    BY <1>5 DEF CloseStarted
  <2>2. pc' = "closeStarted" /\ pc = "closeStarted" /\ failing' = failing
    BY <1>5 DEF CloseStarted
  <2>3. CloseInOrder'
    BY <1>1, <2>1 DEF CloseInOrder, TypeOK
  <2>4. ClosingIsLate'
    <3>1. \A j \in Ants : closing'[j] # "no" => j <= started
      BY <2>1 DEF ClosingIsLate, TypeOK
    <3> QED BY <1>1, <2>2, <3>1 DEF ClosingIsLate
  <2>5. StartedInOrder' /\ ReturnedIsClosed' /\ SyncIsHeld'
    BY <1>1, <2>2 DEF StartedInOrder, ReturnedIsClosed, SyncIsHeld
  <2> QED BY <1>2, <1>4, <2>3, <2>4, <2>5
<1>6. CASE NewFails \/ Close
  <2>1. /\ pc' = "farmClose" /\ pc \in {"connect", "waitHeight", "waitSync", "up"}
        /\ closing' = [i \in Ants |-> "stop"]
        /\ pc # "up" => failing'
    BY <1>6 DEF NewFails, Close
  <2>2. CloseInOrder' /\ ClosingIsLate' /\ ReturnedIsClosed'
    <3>1. started' = NumAnts
      BY <1>1, <2>1 DEF StartedInOrder
    <3> QED BY <2>1, <3>1 DEF CloseInOrder, ClosingIsLate, ReturnedIsClosed
  <2>3. StartedInOrder'
    BY <1>1, <2>1 DEF StartedInOrder
  <2>4. SyncIsHeld'
    BY <1>1, <2>1 DEF SyncIsHeld
  <2> QED BY <1>2, <1>4, <2>2, <2>3, <2>4
<1> QED BY <1>5, <1>6

(* The steps of one ant's Close.                                           *)
LEMMA AntCloseKeeps ==
  ASSUME IInv, TypeOK', NEW i \in Ants, AntCloseStep(i)
  PROVE  IInv'
<1> USE DEF IInv
<1>1. UNCHANGED <<pc, started, failing, wg, height, agreed, jobs, waitForSync, thread>>
  BY DEF AntCloseStep, AntStop, AntJobsEnded, AntSiadStops, farmVars, config
<1>2. /\ closing[i] \in {"stop", "wait", "siad"}
      /\ closing'[i] \in {"wait", "siad", "done"}
      /\ \A j \in Ants \ {i} : closing'[j] = closing[j] /\ gate'[j] = gate[j] /\ siad'[j] = siad[j]
      /\ siad'[i] => siad[i]
      /\ gate'[i] = "stopped"
      /\ closing'[i] \in {"siad", "done"} => \A t \in Threads : thread[i][t] \notin Active
      /\ closing'[i] = "done" => ~siad'[i]
  <2>1. CASE AntStop(i)
    BY <2>1 DEF AntStop, TypeOK
  <2>2. CASE AntJobsEnded(i)
    BY <2>2 DEF AntJobsEnded, TypeOK, CloseInOrder
  <2>3. CASE AntSiadStops(i)
    BY <2>3 DEF AntSiadStops, TypeOK, CloseInOrder
  <2> QED BY <2>1, <2>2, <2>3 DEF AntCloseStep
<1>3. CloseInOrder' /\ ClosingIsLate'
  BY <1>1, <1>2 DEF CloseInOrder, ClosingIsLate
<1>4. pc \notin {"failed", "closed"} /\ i <= started
  BY <1>2 DEF ReturnedIsClosed, ClosingIsLate, StartJobsFailed
<1>5. UnstartedIsBare'
  <2> SUFFICES ASSUME NEW j \in Ants, j > started
               PROVE  /\ ~siad'[j]
                      /\ JobsAreKnown => gate'[j] = "none" /\ \A t \in Threads : thread[j][t] \in {"none", "done"}
    BY <1>1 DEF UnstartedIsBare, JobsAreKnown
  <2>1. j # i
    BY <1>4 DEF TypeOK
  <2> QED BY <2>1, <1>2 DEF UnstartedIsBare
<1>6. StartedInOrder' /\ ReturnedIsClosed' /\ SyncIsHeld'
  BY <1>1, <1>4 DEF StartedInOrder, ReturnedIsClosed, SyncIsHeld
<1>7. SyncBeforeJobs'
  BY <1>1, <1>4 DEF SyncBeforeJobs, JobsAreInSync, StartJobsFailed, JobsAreKnown
<1> QED BY <1>3, <1>5, <1>6, <1>7

(* While the group is held, no goroutine gets past it; when it is not,     *)
(* the ants agree, or nobody waits.                                        *)
LEMMA ReleasedInSync ==
  ASSUME IInv, JobsAreKnown, ~StartJobsFailed, waitForSync,
         NEW i \in Ants, NEW t \in Threads, Released(i, t)
  PROVE  agreed /\ height >= HardforkHeight
<1> USE DEF IInv
<1>1. thread[i][t] = "waiting" /\ wg = 0
  BY DEF Released
<1>2. i <= started
  BY <1>1 DEF UnstartedIsBare, TypeOK
<1>3. pc # "start"
  BY <1>2 DEF StartedInOrder
<1>4. pc # "failed"
  <2>1. started \in 0 .. NumAnts /\ i \in 1 .. started
    BY <1>2, NumAntsAssumption DEF TypeOK
  <2>2. pc = "failed" => closing[i] = "done"
    BY <2>1 DEF ReturnedIsClosed
  <2> QED BY <1>1, <2>2 DEF CloseInOrder, Active
<1> QED BY <1>1, <1>3, <1>4 DEF SyncIsHeld

(* A goroutine moves: on a stopped runner only to its end.                 *)
LEMMA ThreadKeeps ==
  ASSUME IInv, TypeOK', StartJobsFailed => StartJobsFailed',
         NEW i \in Ants, NEW t \in Threads, ThreadStep(i, t)
  PROVE  IInv'
<1> USE DEF IInv
<1>1. PICK to \in {"running", "waiting", "done"} :
        /\ thread[i][t] \in {"spawned", "waiting", "running"}
        /\ ThreadMoves(i, t, to)
        /\ gate[i] = "stopped" /\ thread[i][t] = "spawned" => to = "done"
        /\ to = "running" => t \in Mining \/ Released(i, t)
  BY DEF ThreadStep, AddThread, Released, StopWaiting, EndThread
<1>2. /\ UNCHANGED <<pc, started, failing, wg, height, agreed, jobs, waitForSync, siad, gate, closing>>
      /\ thread' = [thread EXCEPT ![i] = [thread[i] EXCEPT ![t] = to]]
  BY <1>1 DEF ThreadMoves, farmVars, config
<1>3. /\ thread'[i][t] = to
      /\ \A j \in Ants, u \in Threads : j # i \/ u # t => thread'[j][u] = thread[j][u]
  BY <1>2 DEF TypeOK
<1>4. CloseInOrder'
  <2> SUFFICES ASSUME closing[i] \in {"siad", "done"} PROVE to = "done"
    BY <1>2, <1>3 DEF CloseInOrder, Active
  <2>1. gate[i] = "stopped" /\ thread[i][t] \notin Active
    BY DEF CloseInOrder
  <2> QED BY <2>1, <1>1 DEF Active
<1>5. ClosingIsLate' /\ SyncIsHeld'
  BY <1>2 DEF ClosingIsLate, SyncIsHeld
<1>6. UnstartedIsBare'
  <2>1. ~JobsAreKnown \/ i <= started
    BY <1>1 DEF UnstartedIsBare, TypeOK
  <2> QED BY <1>2, <1>3, <2>1 DEF UnstartedIsBare, JobsAreKnown, TypeOK
<1>7. StartedInOrder'
  BY <1>1, <1>2, <1>3 DEF StartedInOrder, Threads
<1>8. ReturnedIsClosed'
  BY <1>2 DEF ReturnedIsClosed
<1>9. SyncBeforeJobs'
  <2> SUFFICES ASSUME JobsAreKnown, ~StartJobsFailed, waitForSync,
                      NEW j \in Ants, NEW u \in Threads \ Mining, thread'[j][u] = "running"
               PROVE  height >= HardforkHeight /\ agreed
    BY <1>2 DEF SyncBeforeJobs, JobsAreInSync, JobsAreKnown
  <2>1. CASE j # i \/ u # t
    BY <1>3, <2>1 DEF SyncBeforeJobs, JobsAreInSync
  <2>2. CASE j = i /\ u = t
    BY <1>1, <1>3, <2>2, ReleasedInSync
  <2> QED BY <2>1, <2>2
<1> QED BY <1>4, <1>5, <1>6, <1>7, <1>8, <1>9

LEMMA InvStep == ASSUME IInv, [Next]_vars PROVE IInv'
<1>0. TypeOK' /\ (StartJobsFailed => StartJobsFailed')
  BY TypeStep, FailedJobsStay
<1>1. CASE UNCHANGED vars \/ Mine
  <2>1. /\ UNCHANGED <<jobs, waitForSync, pc, started, siad, gate, thread, closing, failing, wg, agreed>>
        /\ height' \in Nat /\ height \in Nat /\ height' >= height
    BY <1>1 DEF vars, Mine, config, antVars, IInv, TypeOK
  <2>2. CloseInOrder' /\ ClosingIsLate' /\ UnstartedIsBare' /\ StartedInOrder'
    BY <2>1 DEF IInv, CloseInOrder, ClosingIsLate, UnstartedIsBare, StartedInOrder, JobsAreKnown
  <2>3. StartJobsFailed' = StartJobsFailed
    BY <2>1 DEF StartJobsFailed, Spenders
  <2>4. ReturnedIsClosed'
    BY <2>1, <2>3 DEF IInv, ReturnedIsClosed
  <2>5. SyncIsHeld'
    BY <2>1, HeightAssumption DEF IInv, SyncIsHeld
  <2>6. SyncBeforeJobs'
    BY <2>1, <2>3, HeightAssumption DEF IInv, SyncBeforeJobs, JobsAreInSync, JobsAreKnown
  <2> QED BY <1>0, <2>2, <2>4, <2>5, <2>6 DEF IInv
<1>2. CASE \/ DataDirFails \/ AddSyncGroup \/ NamesClash \/ NamesUnique
           \/ AntFails \/ NetAddressSet \/ NetAddressFails \/ AllAntsStarted
           \/ StartedClosed \/ StartJobsFails \/ Connected
           \/ HardforkReached \/ AntsAgree \/ ReturnUnsynced \/ FarmClosed
  BY <1>0, <1>2, FarmStep
<1>3. CASE AntStarts \/ AntJobFails \/ AntPanics \/ StartJobs
  BY <1>0, <1>3, StartStep
<1>4. CASE CloseStarted \/ NewFails \/ Close
  BY <1>0, <1>4, CloseStep
<1>5. ASSUME NEW i \in Ants, AntCloseStep(i) PROVE IInv'
  BY <1>0, <1>5, AntCloseKeeps
<1>6. ASSUME NEW i \in Ants, NEW t \in Threads, ThreadStep(i, t) PROVE IInv'
  BY <1>0, <1>6, ThreadKeeps
<1> QED BY <1>1, <1>2, <1>3, <1>4, <1>5, <1>6 DEF Next, NewStep

(* IInv holds in every reachable state. *)
THEOREM Invariant == Spec => []IInv
<1>1. Init => IInv
  <2> SUFFICES ASSUME Init PROVE IInv
    OBVIOUS
  <2>1. TypeOK
    <3>1. jobs \in [Ants -> SUBSET JobNames] /\ waitForSync \in BOOLEAN
      BY ConfigsAssumption, SyncAssumption DEF Init
    <3>2. /\ started \in 0 .. NumAnts /\ height \in 0 .. HardforkHeight /\ wg \in 0 .. 1
          /\ pc = "start" /\ failing = FALSE /\ agreed = FALSE
      BY NumAntsAssumption, HeightAssumption DEF Init
    <3>3. /\ siad \in [Ants -> BOOLEAN] /\ gate \in [Ants -> {"none", "open", "stopped"}]
          /\ closing \in [Ants -> {"no", "stop", "wait", "siad", "done"}]
          /\ thread \in [Ants -> [Threads -> {"none", "spawned", "waiting", "running", "done"}]]
      BY DEF Init
    <3> QED BY <3>1, <3>2, <3>3 DEF TypeOK
  <2>2. /\ pc = "start" /\ started = 0 /\ ~agreed
        /\ \A i \in Ants : /\ closing[i] = "no" /\ gate[i] = "none" /\ ~siad[i]
                           /\ \A t \in Threads : thread[i][t] = "none"
    BY DEF Init
  <2>3. SyncBeforeJobs /\ CloseInOrder /\ ClosingIsLate
    BY <2>2 DEF SyncBeforeJobs, JobsAreInSync, CloseInOrder, ClosingIsLate
  <2>4. UnstartedIsBare /\ StartedInOrder /\ ReturnedIsClosed /\ SyncIsHeld
    BY <2>2 DEF UnstartedIsBare, StartedInOrder, ReturnedIsClosed, SyncIsHeld, Threads
  <2> QED BY <2>1, <2>3, <2>4 DEF IInv
<1>2. IInv /\ [Next]_vars => IInv'
  BY InvStep
<1> QED BY <1>1, <1>2, PTL DEF Spec

(* Every variable keeps its type. *)
THEOREM TypeCorrect == Spec => []TypeOK
<1>1. IInv => TypeOK
  BY DEF IInv
<1> QED BY <1>1, Invariant, PTL

(* No job but the miners' begins before the hardfork height is reached and *)
(* the ants agree, on every path of New and Close but the failed startJobs. *)
THEOREM JobsWaitForSync == Spec => []SyncBeforeJobs
<1>1. IInv => SyncBeforeJobs
  BY DEF IInv
<1> QED BY <1>1, Invariant, PTL

(* After a New that failed and after Close, no siad runs, no job runs and  *)
(* none can begin, but after the failed startJobs.                         *)
THEOREM NothingLeft == Spec => []NothingLeftBehind
<1>1. IInv => NothingLeftBehind
  <2> SUFFICES ASSUME IInv, JobsAreKnown, ~StartJobsFailed, pc \in {"failed", "closed"}, NEW i \in Ants
               PROVE  /\ ~siad[i] /\ gate[i] # "open"
                      /\ \A t \in Threads : thread[i][t] \notin Active
    BY DEF NothingLeftBehind, AllIsClosed
  <2> USE DEF IInv
  <2>1. CASE i > started
    BY <2>1 DEF UnstartedIsBare, Active
  <2>2. CASE i <= started
    <3>1. i \in 1 .. started
      BY <2>2, NumAntsAssumption DEF TypeOK
    <3>2. closing[i] = "done"
      BY <3>1 DEF ReturnedIsClosed
    <3> QED BY <3>2 DEF CloseInOrder
  <2> QED BY <2>1, <2>2 DEF TypeOK
<1> QED BY <1>1, Invariant, PTL

(* Every ant's runner is a StopGate.  Each of the lemmas is about some     *)
(* steps: they keep the runners in order, and each of them is a step of    *)
(* the gate of every ant, or leaves it as it is.                           *)
GateStep(i) == [Runner(i)!Next]_(Runner(i)!vars)
GatesStep == GatesInOrder' /\ \A i \in Ants : pc' = "panic" \/ GateStep(i)

LEMMA GateAtRest ==
  ASSUME NEW i \in Ants, GateOf(i)' = GateOf(i), InsideOf(i)' = InsideOf(i)
  PROVE  GateStep(i)
  BY DEF GateStep, Runner!vars

(* New and Close beside the ants' own steps: gates and goroutines stay,    *)
(* and a Close begins on an ant that has not begun it.                     *)
LEMMA FarmGates ==
  ASSUME IInv, GatesInOrder, UNCHANGED <<gate, thread, started>>,
         pc' \in {"start", "names", "startAnts", "netAddress"} =>
             pc \in {"start", "names", "startAnts", "netAddress"},
         \A i \in Ants : closing'[i] = closing[i] \/ (closing[i] = "no" /\ closing'[i] = "stop")
  PROVE  GatesStep
<1>1. GatesInOrder'
  BY DEF GatesInOrder
<1>2. ASSUME NEW i \in Ants PROVE GateOf(i)' = GateOf(i) /\ InsideOf(i)' = InsideOf(i)
  BY DEF GateOf, InsideOf
<1> QED BY <1>1, <1>2, GateAtRest DEF GatesStep

LEMMA NewGates ==
  ASSUME IInv, GatesInOrder, NewStep \/ Close \/ Mine \/ UNCHANGED vars,
         ~AntStarts, ~AntJobFails, ~AntPanics, ~StartJobs
  PROVE  GatesStep
<1>1. CASE CloseStarted
  <2>1. PICK i \in 1 .. started : closing[i] = "no" /\ closing' = [closing EXCEPT ![i] = "stop"]
    BY <1>1 DEF CloseStarted
  <2>2. \A j \in Ants : closing'[j] = closing[j] \/ (closing[j] = "no" /\ closing'[j] = "stop")
    BY <2>1 DEF IInv, TypeOK
  <2> QED BY <1>1, <2>2, FarmGates DEF CloseStarted
<1>2. CASE NewFails \/ Close
  <2>1. \A j \in Ants : closing[j] = "no" /\ closing'[j] = "stop"
    BY <1>2 DEF NewFails, Close, IInv, ClosingIsLate
  <2> QED BY <1>2, <2>1, FarmGates DEF NewFails, Close
<1>3. CASE ~CloseStarted /\ ~NewFails /\ ~Close
  <2>1. /\ UNCHANGED <<gate, thread, started, closing>>
        /\ pc' \in {"start", "names", "startAnts", "netAddress"} =>
              pc \in {"start", "names", "startAnts", "netAddress"}
    BY <1>3 DEF NewStep, DataDirFails, AddSyncGroup, NamesClash, NamesUnique, AntFails,
       NetAddressSet, NetAddressFails, AllAntsStarted, StartedClosed, StartJobsFails, Connected,
       HardforkReached, AntsAgree, ReturnUnsynced, FarmClosed, Mine, Goto, ReturnFrom,
       antVars, config, vars
  <2> QED BY <2>1, FarmGates
<1> QED BY <1>1, <1>2, <1>3

(* startAnts opens the runner of the ant that is created, and nobody is    *)
(* inside yet.                                                             *)
LEMMA OpensGate ==
  ASSUME IInv, GatesInOrder, pc = "startAnts", started < NumAnts,
         UNCHANGED closing, gate' = [gate EXCEPT ![i0] = "open"],
         NEW bare \in [Threads -> {"none", "spawned"}], thread' = [thread EXCEPT ![i0] = bare],
         \/ started' = i0 /\ pc' = "netAddress"
         \/ started' = started /\ pc' = "closeStarted"
  PROVE  GatesStep
<1>1. /\ i0 \in Ants /\ gate[i0] = "none" /\ \A t \in Threads : thread[i0][t] = "none"
      /\ started \in Nat /\ started' \in Nat
  BY NumAntsAssumption DEF i0, IInv, TypeOK, GatesInOrder
<1>2. /\ gate'[i0] = "open" /\ thread'[i0] = bare
      /\ \A i \in Ants \ {i0} : gate'[i] = gate[i] /\ thread'[i] = thread[i]
  BY <1>1 DEF IInv, TypeOK
<1>3. GatesInOrder'
  <2> SUFFICES ASSUME NEW i \in Ants
               PROVE  /\ pc' = "netAddress" /\ i > started' =>
                            gate'[i] = "none" /\ \A t \in Threads : thread'[i][t] = "none"
                      /\ i <= started' /\ closing[i] \in {"no", "stop"} => gate'[i] = "open"
                      /\ gate'[i] = "none" => \A t \in Threads : thread'[i][t] \in {"none", "done"}
    BY DEF GatesInOrder
  <2>1. CASE i = i0
    BY <1>1, <1>2, <2>1 DEF i0
  <2>2. CASE i # i0
    <3>1. gate'[i] = gate[i] /\ thread'[i] = thread[i] /\ (i > started' => i > started)
          /\ (i <= started' => i <= started)
      BY <1>1, <1>2, <2>2 DEF i0
    <3> QED BY <3>1 DEF GatesInOrder
  <2> QED BY <2>1, <2>2
<1>4. ASSUME NEW i \in Ants PROVE GateStep(i)
  <2>1. CASE i = i0
    <3>1. InsideOf(i) = {} /\ InsideOf(i)' = {}
      BY <1>1, <1>2, <2>1 DEF InsideOf, Active
    <3> QED BY <1>1, <1>2, <2>1, <3>1 DEF GateStep, Runner!Next, Runner!Open, GateOf
  <2>2. CASE i # i0
    BY <1>2, <2>2, GateAtRest DEF GateOf, InsideOf
  <2> QED BY <2>1, <2>2
<1> QED BY <1>3, <1>4 DEF GatesStep

LEMMA StartGates ==
  ASSUME IInv, GatesInOrder, AntStarts \/ AntJobFails \/ AntPanics \/ StartJobs
  PROVE  GatesStep
<1>1. CASE AntStarts
  <2> DEFINE bare == [t \in Threads |-> IF t \in jobs[i0] THEN "spawned" ELSE "none"]
  <2>1. bare \in [Threads -> {"none", "spawned"}] /\ thread' = [thread EXCEPT ![i0] = bare]
    BY <1>1 DEF AntStarts
  <2> HIDE DEF bare
  <2> QED BY <1>1, <2>1, OpensGate DEF AntStarts
<1>2. CASE AntJobFails
  <2>1. PICK before \in SUBSET (jobs[i0] \cap Startable) :
          thread' = [thread EXCEPT ![i0] =
                       [t \in Threads |-> IF t \in before THEN "spawned" ELSE "none"]]
    BY <1>2 DEF AntJobFails
  <2> DEFINE bare == [t \in Threads |-> IF t \in before THEN "spawned" ELSE "none"]
  <2>2. bare \in [Threads -> {"none", "spawned"}] /\ thread' = [thread EXCEPT ![i0] = bare]
    BY <2>1
  <2> HIDE DEF bare
  <2> QED BY <1>2, <2>2, OpensGate DEF AntJobFails, Goto
<1>3. CASE AntPanics
  <2>1. /\ pc' = "panic" /\ UNCHANGED <<gate, closing, started>>
        /\ \A i \in Ants, t \in Threads : thread'[i][t] = "done"
    BY <1>3 DEF AntPanics, Goto
  <2>2. GatesInOrder'
    BY <2>1 DEF GatesInOrder
  <2> QED BY <2>1, <2>2 DEF GatesStep
<1>4. CASE StartJobs
  <2>1. /\ pc = "startJobs" /\ pc' = "connect" /\ UNCHANGED <<gate, closing, started>>
        /\ thread' = [i \in Ants |-> [t \in Threads |->
             IF t = "bigspender2" /\ i \in Spenders THEN "spawned" ELSE thread[i][t]]]
    BY <1>4 DEF StartJobs, Goto
  <2>2. \A i \in Ants : i <= started /\ gate[i] = "open" /\ thread[i]["bigspender2"] = "none"
    BY <2>1, NumAntsAssumption DEF IInv, StartedInOrder, ClosingIsLate, GatesInOrder
  <2>3. GatesInOrder'
    BY <2>1, <2>2 DEF GatesInOrder
  <2>4. ASSUME NEW i \in Ants PROVE GateOf(i)' = GateOf(i) /\ InsideOf(i)' = InsideOf(i)
    <3>1. \A t \in Threads : thread'[i][t] \in Active <=> thread[i][t] \in Active
      BY <2>1, <2>2 DEF Active
    <3> QED BY <2>1, <3>1 DEF GateOf, InsideOf
  <2> QED BY <2>3, <2>4, GateAtRest DEF GatesStep
<1> QED BY <1>1, <1>2, <1>3, <1>4

(* An ant's Close shuts its gate and drains it.                            *)
LEMMA CloseGates ==
  ASSUME IInv, GatesInOrder, NEW i \in Ants, AntCloseStep(i) PROVE GatesStep
<1>1. UNCHANGED <<pc, started, thread>> /\ i <= started
  BY DEF AntCloseStep, AntStop, AntJobsEnded, AntSiadStops, farmVars, IInv, ClosingIsLate
<1>2. /\ \A j \in Ants \ {i} : gate'[j] = gate[j] /\ closing'[j] = closing[j]
      /\ closing'[i] \in {"wait", "siad", "done"} /\ gate'[i] = "stopped"
  BY DEF AntCloseStep, AntStop, AntJobsEnded, AntSiadStops, IInv, TypeOK, CloseInOrder
<1>3. GatesInOrder'
  BY <1>1, <1>2 DEF GatesInOrder, IInv, TypeOK
<1>4. \A j \in Ants : InsideOf(j)' = InsideOf(j)
  BY <1>1 DEF InsideOf
<1>5. \A j \in Ants \ {i} : GateStep(j)
  <2>1. \A j \in Ants \ {i} : GateOf(j)' = GateOf(j)
    BY <1>2 DEF GateOf
  <2> QED BY <2>1, <1>4, GateAtRest
<1>6. GateStep(i)
  <2>1. CASE AntStop(i)
    <3>1. gate[i] = "open" /\ gate'[i] = "stopped" /\ closing'[i] = "wait"
      BY <1>1, <2>1 DEF AntStop, GatesInOrder, IInv, TypeOK
    <3> QED BY <1>4, <3>1 DEF GateStep, Runner!Next, Runner!Shut, GateOf
  <2>2. CASE AntJobsEnded(i)
    <3>1. gate[i] = "stopped" /\ gate'[i] = "stopped" /\ closing[i] = "wait" /\ closing'[i] = "siad"
      BY <2>2 DEF AntJobsEnded, CloseInOrder, IInv, TypeOK
    <3>2. InsideOf(i) = {}
      BY <2>2 DEF AntJobsEnded, InsideOf
    <3> QED BY <1>4, <3>1, <3>2 DEF GateStep, Runner!Next, Runner!Drain, GateOf
  <2>3. CASE AntSiadStops(i)
    <3>1. gate[i] = "stopped" /\ gate'[i] = "stopped" /\ closing[i] = "siad" /\ closing'[i] = "done"
      BY <2>3 DEF AntSiadStops, CloseInOrder, IInv, TypeOK
    <3>2. GateOf(i)' = GateOf(i)
      BY <3>1 DEF GateOf
    <3> QED BY <1>4, <3>2, GateAtRest
  <2> QED BY <2>1, <2>2, <2>3 DEF AntCloseStep
<1> QED BY <1>3, <1>5, <1>6 DEF GatesStep

(* A goroutine enters only while the gate is open.                         *)
LEMMA ThreadGates ==
  ASSUME IInv, GatesInOrder, NEW i \in Ants, NEW t \in Threads, ThreadStep(i, t) PROVE GatesStep
<1>1. PICK to \in {"running", "waiting", "done"} :
        /\ thread[i][t] \in {"spawned", "waiting", "running"}
        /\ ThreadMoves(i, t, to)
        /\ thread[i][t] = "spawned" /\ to # "done" => gate[i] # "stopped"
  BY DEF ThreadStep, AddThread, Released, StopWaiting, EndThread
<1>2. /\ UNCHANGED <<pc, started, gate, closing>>
      /\ thread' = [thread EXCEPT ![i] = [thread[i] EXCEPT ![t] = to]]
  BY <1>1 DEF ThreadMoves, farmVars
<1>3. /\ thread'[i][t] = to
      /\ \A j \in Ants, u \in Threads : j # i \/ u # t => thread'[j][u] = thread[j][u]
  BY <1>2 DEF IInv, TypeOK
<1>4. gate[i] \in {"open", "stopped"}
  BY <1>1 DEF GatesInOrder, IInv, TypeOK
<1>5. GatesInOrder'
  <2> SUFFICES ASSUME NEW j \in Ants
               PROVE  /\ pc \in {"start", "names", "startAnts", "netAddress"} /\ j > started =>
                            gate[j] = "none" /\ \A u \in Threads : thread'[j][u] = "none"
                      /\ gate[j] = "none" => \A u \in Threads : thread'[j][u] \in {"none", "done"}
    BY <1>2 DEF GatesInOrder
  <2>1. CASE j = i
    BY <1>1, <1>4, <2>1 DEF GatesInOrder
  <2>2. CASE j # i
    BY <1>3, <2>2 DEF GatesInOrder
  <2> QED BY <2>1, <2>2
<1>6. \A j \in Ants : GateOf(j)' = GateOf(j)
  BY <1>2 DEF GateOf
<1>7. \A j \in Ants \ {i} : GateStep(j)
  <2>1. \A j \in Ants \ {i} : InsideOf(j)' = InsideOf(j)
    BY <1>3 DEF InsideOf
  <2> QED BY <2>1, <1>6, GateAtRest
<1>8. GateStep(i)
  <2>1. CASE thread[i][t] \in Active <=> to \in Active
    <3>1. InsideOf(i)' = InsideOf(i)
      BY <1>3, <2>1 DEF InsideOf
    <3> QED BY <3>1, <1>6, GateAtRest
  <2>2. CASE thread[i][t] \in Active /\ to \notin Active
    <3>1. t \in InsideOf(i) /\ InsideOf(i)' = InsideOf(i) \ {t}
      BY <1>3, <2>2 DEF InsideOf
    <3> QED BY <3>1, <1>6 DEF GateStep, Runner!Next, Runner!Leave
  <2>3. CASE thread[i][t] \notin Active /\ to \in Active
    <3>1. t \notin InsideOf(i) /\ InsideOf(i)' = InsideOf(i) \cup {t}
      BY <1>3, <2>3 DEF InsideOf
    <3>2. GateOf(i) = "open"
      BY <1>1, <1>4, <2>3 DEF GateOf, Active
    <3> QED BY <3>1, <3>2, <1>6 DEF GateStep, Runner!Next, Runner!Enter
  <2> QED BY <2>1, <2>2, <2>3
<1> QED BY <1>5, <1>7, <1>8 DEF GatesStep

LEMMA EveryStep == ASSUME IInv, GatesInOrder, [Next]_vars PROVE GatesStep
  BY NewGates, StartGates, CloseGates, ThreadGates DEF Next

(* The runner of every ant of a farm implements StopGate, although jobs    *)
(* are started on it by ant.New and by startJobs, and its Close is called  *)
(* by startAnts, by New or by Close of the farm.                           *)
THEOREM AntsAreGates == Spec => EveryAntIsAStopGate
<1>1. Init => GatesInOrder /\ \A i \in Ants : Runner(i)!Init
  <2> SUFFICES ASSUME Init PROVE GatesInOrder /\ \A i \in Ants : Runner(i)!Init
    OBVIOUS
  <2>1. \A i \in Ants : gate[i] = "none" /\ (\A t \in Threads : thread[i][t] = "none") /\ ~(i <= started)
    BY NumAntsAssumption DEF Init
  <2>2. GatesInOrder
    BY <2>1 DEF GatesInOrder
  <2>3. \A i \in Ants : GateOf(i) = "new" /\ InsideOf(i) = {}
    BY <2>1 DEF GateOf, InsideOf, Active
  <2> QED BY <2>2, <2>3 DEF Runner!Init
<1>2. IInv /\ GatesInOrder /\ [Next]_vars =>
        GatesInOrder' /\ [\A i \in Ants : pc' = "panic" \/ [Runner(i)!Next]_(Runner(i)!vars)]_vars
  BY EveryStep DEF GatesStep, GateStep
<1> QED BY <1>1, <1>2, Invariant, PTL DEF Spec, EveryAntIsAStopGate
=============================================================================
