------------------------ MODULE BuildManager_proofs ------------------------
(***************************************************************************)
(* Proofs about BuildManager, for any set of calls and versions: types,    *)
(* one build at a time, one build per version, no stranded request.        *)
(***************************************************************************)
EXTENDS BuildManager, TLAPS

(* Lists have a length; the selection only picks queued versions.          *)
LEMMA RequestLength == ASSUME NEW r \in Requests PROVE r \in Seq(Versions) /\ Len(r) \in 0 .. MaxLen
  BY RequestsAssumption

LEMMA MostWantedIsQueued == ASSUME NEW q, NEW v \in MostWanted(q) PROVE v \in Versions /\ q[v] # {}
  BY DEF MostWanted

(* The types: every step keeps each variable in its set.                   *)
LEMMA SelectType ==
  ASSUME TypeOK, NEW ch \in Chans, NEW q, Select(ch, q)
  PROVE  /\ building' \in BOOLEAN
         /\ worker' \in [Chans -> {"none", "spawned", "building"}]
         /\ target' \in [Chans -> Versions \cup {NoVersion}]
         /\ builds' \in [Versions -> Nat]
<1>1. CASE \A v \in Versions : q[v] = {}
  BY <1>1 DEF TypeOK, Select
<1>2. CASE ~ \A v \in Versions : q[v] = {}
  <2>1. PICK v \in MostWanted(q) : /\ building' = TRUE
                                  /\ worker' = [worker EXCEPT ![ch] = "building"]
                                  /\ target' = [target EXCEPT ![ch] = v]
                                  /\ builds' = [builds EXCEPT ![v] = @ + 1]
    BY <1>2 DEF Select
  <2>2. v \in Versions
    BY MostWantedIsQueued
  <2> QED BY <2>1, <2>2 DEF TypeOK
<1> QED BY <1>1, <1>2

LEMMA TypeStep == ASSUME IInv, [Next]_vars PROVE TypeOK'
<1> USE DEF IInv
<1>1. CASE UNCHANGED vars
  BY <1>1 DEF TypeOK, vars
<1>2. ASSUME NEW c \in Calls, CallStep(c) PROVE TypeOK'
  <2>1. CASE SkipVersion(c)
    BY <2>1 DEF TypeOK, SkipVersion, args, builderVars
  <2>2. CASE WantVersion(c)
    BY <2>2 DEF TypeOK, WantVersion, args, builderVars
  <2>3. CASE StatFails(c)
    BY <2>3 DEF TypeOK, StatFails, args, builderVars
  <2>4. CASE AllRequested(c)
    BY <2>4 DEF TypeOK, AllRequested, args, builderVars
  <2>5. CASE RequestVersion(c)
    <3>1. /\ next[c] \in Idx /\ <<c, next[c]>> \in Chans
          /\ Wanted(c) \in Versions
      <4>1. versions[c] \in Requests /\ next[c] \in Nat \ {0} /\ next[c] <= Len(versions[c])
        BY <2>5 DEF TypeOK, RequestVersion, RequestInRange
      <4>2. versions[c] \in Seq(Versions) /\ Len(versions[c]) \in 0 .. MaxLen /\ MaxLen \in Nat
        BY <4>1, RequestLength, RequestsAssumption
      <4> QED BY <4>1, <4>2 DEF Idx, Chans, Wanted
    <3>2. result[Wanted(c)] # "none" => result[Wanted(c)] \in {"ok", "failed"}
      BY <3>1 DEF TypeOK
    <3>3. /\ pc' \in [Calls -> {"stat", "enqueue", "receive", "nil", "error"}]
          /\ next' \in [Calls -> Nat \ {0}]
          /\ chans' \in [Calls -> SUBSET Idx]
      BY <2>5, <3>1 DEF TypeOK, RequestVersion
    <3>4. /\ notifier' \subseteq Chans \X {"ok", "failed"}
          /\ queue' \in [Versions -> SUBSET Chans]
          /\ worker' \in [Chans -> {"none", "spawned", "building"}]
      <4>1. CASE Remembered(Wanted(c))
        BY <2>5, <3>1, <3>2, <4>1 DEF TypeOK, RequestVersion, Remembered
      <4>2. CASE ~Remembered(Wanted(c))
        <5>1. /\ queue' = [queue EXCEPT ![Wanted(c)] = queue[Wanted(c)] \cup {<<c, next[c]>>}]
              /\ worker' = [worker EXCEPT ![<<c, next[c]>>] = "spawned"]
              /\ notifier' = notifier
          BY <2>5, <4>2 DEF RequestVersion
        <5>2. queue[Wanted(c)] \cup {<<c, next[c]>>} \in SUBSET Chans
          BY <3>1 DEF TypeOK
        <5>3. queue' \in [Versions -> SUBSET Chans]
          BY <5>1, <5>2 DEF TypeOK
        <5>4. worker' \in [Chans -> {"none", "spawned", "building"}]
          BY <3>1, <5>1 DEF TypeOK
        <5> QED BY <5>1, <5>3, <5>4 DEF TypeOK
      <4> QED BY <4>1, <4>2
    <3> QED BY <2>5, <3>3, <3>4 DEF TypeOK, RequestVersion, args
  <2>6. ASSUME NEW r \in {"ok", "failed"}, Receive(c, r) PROVE TypeOK'
    BY <2>6 DEF TypeOK, Receive, args
  <2>7. CASE AllReceived(c)
    BY <2>7 DEF TypeOK, AllReceived, args, builderVars
  <2> QED BY <1>2, <2>1, <2>2, <2>3, <2>4, <2>5, <2>6, <2>7 DEF CallStep
<1>3. ASSUME NEW ch \in Chans, WorkerStep(ch) PROVE TypeOK'
  <2>1. CASE WorkerBegins(ch)
    BY <2>1, SelectType DEF TypeOK, WorkerBegins, args, callVars
  <2>2. CASE WorkerReturns(ch)
    BY <2>2 DEF TypeOK, WorkerReturns, args, callVars
  <2>3. CASE BinaryWritten(ch)
    <3>1. target[ch] \in Versions
      BY <2>3 DEF BuildingIsPending, BinaryWritten
    <3> QED BY <2>3, <3>1 DEF TypeOK, BinaryWritten, args, callVars
  <2>4. ASSUME NEW r \in {"ok", "failed"}, BuildEnds(ch, r) PROVE TypeOK'
    <3> DEFINE q == [queue EXCEPT ![target[ch]] = {}]
    <3>1. Select(ch, q) /\ queue' = q
      BY <2>4 DEF BuildEnds
    <3>2. target[ch] \in Versions
      BY <2>4 DEF BuildingIsPending, BuildEnds
    <3>3. /\ queue' \in [Versions -> SUBSET Chans]
          /\ result' \in [Versions -> {"none", "ok", "failed"}]
          /\ notifier' \subseteq Chans \X {"ok", "failed"}
      BY <2>4, <3>2 DEF BuildEnds, TypeOK
    <3>4. /\ building' \in BOOLEAN
          /\ worker' \in [Chans -> {"none", "spawned", "building"}]
          /\ target' \in [Chans -> Versions \cup {NoVersion}]
          /\ builds' \in [Versions -> Nat]
      BY <3>1, SelectType
    <3> QED BY <2>4, <3>3, <3>4 DEF BuildEnds, TypeOK, args, callVars
  <2> QED BY <1>3, <2>1, <2>2, <2>3, <2>4 DEF WorkerStep
<1> QED BY <1>1, <1>2, <1>3 DEF Next

(* The end of an iteration, by the only worker that can be in the loop: if *)
(* every version whose build began has its verdict, and a version with a   *)
(* verdict has no queue, then what is selected has not been built before.  *)
LEMMA SelectStep ==
  ASSUME IInv, TypeOK', NEW ch \in Chans, Select(ch, queue'),
         \A dh \in Chans : worker[dh] = "building" => dh = ch,
         VerdictIsFinal',
         \A v \in Versions : builds[v] # 0 => result'[v] # "none"
  PROVE  /\ AtMostOneBuild' /\ BuiltAtMostOnce' /\ NoStrandedRequest'
         /\ FlagIsExact' /\ BuildingIsPending' /\ BuildIsAccounted'
<1> USE DEF IInv
<1>1. CASE \A v \in Versions : queue'[v] = {}
  <2>1. /\ building' = FALSE
        /\ worker' = [worker EXCEPT ![ch] = "none"]
        /\ builds' = builds
    BY <1>1 DEF Select
  <2>2. \A dh \in Chans : worker'[dh] # "building"
    BY <2>1 DEF TypeOK
  <2> QED
    BY <1>1, <2>1, <2>2 DEF AtMostOneBuild, BuiltAtMostOnce, NoStrandedRequest, FlagIsExact,
       BuildingIsPending, BuildIsAccounted
<1>2. CASE ~ \A v \in Versions : queue'[v] = {}
  <2>1. PICK v \in MostWanted(queue') : /\ building' = TRUE
                                       /\ worker' = [worker EXCEPT ![ch] = "building"]
                                       /\ target' = [target EXCEPT ![ch] = v]
                                       /\ builds' = [builds EXCEPT ![v] = @ + 1]
    BY <1>2 DEF Select
  <2>2. v \in Versions /\ queue'[v] # {}
    BY MostWantedIsQueued
  <2>3. result'[v] = "none"
    BY <2>2 DEF VerdictIsFinal
  <2>4. builds[v] = 0
    BY <2>2, <2>3
  <2>5. /\ worker'[ch] = "building" /\ target'[ch] = v /\ building'
        /\ \A dh \in Chans : worker'[dh] = "building" => dh = ch
    BY <2>1 DEF TypeOK
  <2>6. /\ builds'[v] = 1
        /\ \A w \in Versions \ {v} : builds'[w] = builds[w]
    BY <2>1, <2>2, <2>4 DEF TypeOK
  <2>7. AtMostOneBuild' /\ FlagIsExact' /\ NoStrandedRequest'
    BY <2>5 DEF AtMostOneBuild, FlagIsExact, NoStrandedRequest
  <2>8. BuildingIsPending'
    BY <2>2, <2>3, <2>5 DEF BuildingIsPending
  <2>9. BuiltAtMostOnce'
    BY <2>6 DEF BuiltAtMostOnce
  <2>10. BuildIsAccounted'
    BY <2>5, <2>6 DEF BuildIsAccounted
  <2> QED BY <2>7, <2>8, <2>9, <2>10
<1> QED BY <1>1, <1>2

(* A step that leaves the queues, the flag, the workers, the verdicts and  *)
(* the counts alone.                                                       *)
LEMMA QuietStep ==
  ASSUME IInv, TypeOK', UNCHANGED <<versions, queue, result, building, worker, target, builds>>,
         RequestInRange',
         \A c \in Calls : next'[c] >= next[c]
  PROVE  IInv'
<1> USE DEF IInv
<1>1. AtMostOneBuild' /\ BuiltAtMostOnce' /\ NoStrandedRequest' /\ FlagIsExact'
  BY DEF AtMostOneBuild, BuiltAtMostOnce, NoStrandedRequest, FlagIsExact
<1>2. BuildingIsPending' /\ VerdictIsFinal' /\ BuildIsAccounted'
  BY DEF BuildingIsPending, VerdictIsFinal, BuildIsAccounted
<1>3. WorkerIsOfPastRequest'
  BY DEF WorkerIsOfPastRequest, TypeOK, Idx
<1> QED BY <1>1, <1>2, <1>3

(* managedBuildVersion: a queued channel brings a fresh worker goroutine.  *)
LEMMA RequestStep ==
  ASSUME IInv, TypeOK', NEW c \in Calls, RequestVersion(c), ~Remembered(Wanted(c))
  PROVE  IInv'
<1> USE DEF IInv
<1> DEFINE ch == <<c, next[c]>>
           v  == Wanted(c)
<1>1. /\ queue' = [queue EXCEPT ![v] = @ \cup {ch}]
      /\ worker' = [worker EXCEPT ![ch] = "spawned"]
      /\ next' = [next EXCEPT ![c] = @ + 1]
      /\ pc' = [pc EXCEPT ![c] = "stat"]
      /\ UNCHANGED <<versions, result, building, target, builds>>
  BY DEF RequestVersion, args
<1>2. ch \in Chans /\ v \in Versions /\ next[c] \in Idx
  <2>1. versions[c] \in Requests /\ next[c] \in Nat \ {0} /\ next[c] <= Len(versions[c])
    BY DEF TypeOK, RequestVersion, RequestInRange
  <2>2. versions[c] \in Seq(Versions) /\ Len(versions[c]) \in 0 .. MaxLen /\ MaxLen \in Nat
    BY <2>1, RequestLength, RequestsAssumption
  <2> QED BY <2>1, <2>2 DEF Idx, Chans, Wanted
<1>3. worker[ch] = "none"
  <2>1. worker[ch] # "none" => next[c] < next[c]
    BY <1>2 DEF WorkerIsOfPastRequest
  <2> QED BY <2>1, <1>2 DEF Idx
<1>4. worker'[ch] = "spawned" /\ \A dh \in Chans \ {ch} : worker'[dh] = worker[dh]
  BY <1>1, <1>2 DEF TypeOK
<1>5. result[v] = "none"
  BY <1>2 DEF Remembered, VerdictIsFinal
<1>6. /\ queue'[v] # {}
      /\ \A w \in Versions \ {v} : queue'[w] = queue[w]
  BY <1>1, <1>2 DEF TypeOK
<1>7. AtMostOneBuild' /\ BuiltAtMostOnce' /\ FlagIsExact'
  BY <1>1, <1>3, <1>4 DEF AtMostOneBuild, BuiltAtMostOnce, FlagIsExact
<1>8. NoStrandedRequest'
  BY <1>2, <1>4 DEF NoStrandedRequest
<1>9. BuildingIsPending'
  BY <1>1, <1>4, <1>6 DEF BuildingIsPending
<1>10. VerdictIsFinal'
  BY <1>1, <1>5, <1>6 DEF VerdictIsFinal
<1>11. BuildIsAccounted'
  BY <1>1, <1>3, <1>4 DEF BuildIsAccounted
<1>12. RequestInRange'
  BY <1>1 DEF RequestInRange, TypeOK
<1>13. WorkerIsOfPastRequest'
  <2> SUFFICES ASSUME NEW d \in Calls, NEW i \in Idx, worker'[<<d, i>>] # "none"
               PROVE  i < next'[d]
    BY DEF WorkerIsOfPastRequest
  <2>1. CASE <<d, i>> = ch
    BY <2>1, <1>1 DEF TypeOK, Idx
  <2>2. CASE <<d, i>> # ch
    <3>1. worker[<<d, i>>] # "none"
      BY <2>2, <1>4 DEF Chans
    <3>2. i < next[d]
      BY <3>1 DEF WorkerIsOfPastRequest
    <3> QED BY <3>2, <1>1 DEF TypeOK, Idx
  <2> QED BY <2>1, <2>2
<1> QED BY <1>7, <1>8, <1>9, <1>10, <1>11, <1>12, <1>13

LEMMA InvStep == ASSUME IInv, [Next]_vars PROVE IInv'
<1> USE DEF IInv
<1>0. TypeOK'
  BY TypeStep
<1>1. CASE UNCHANGED vars
  <2>1. UNCHANGED <<versions, queue, result, building, worker, target, builds, pc, next>>
    BY <1>1 DEF vars
  <2>2. RequestInRange' /\ \A c \in Calls : next'[c] >= next[c]
    BY <2>1 DEF RequestInRange, TypeOK
  <2> QED BY <1>0, <2>1, <2>2, QuietStep
<1>2. ASSUME NEW c \in Calls, CallStep(c) PROVE IInv'
  <2>1. CASE \/ SkipVersion(c) \/ StatFails(c) \/ AllRequested(c) \/ AllReceived(c)
             \/ \E r \in {"ok", "failed"} : Receive(c, r)
    <3>1. UNCHANGED <<versions, queue, result, building, worker, target, builds>>
      BY <2>1 DEF SkipVersion, StatFails, AllRequested, AllReceived, Receive, args, builderVars
    <3>2. \A d \in Calls : next'[d] >= next[d]
      <4>1. next' = next \/ next' = [next EXCEPT ![c] = @ + 1]
        BY <2>1 DEF SkipVersion, StatFails, AllRequested, AllReceived, Receive
      <4> QED BY <4>1 DEF TypeOK
    <3>3. RequestInRange'
      BY <2>1 DEF SkipVersion, StatFails, AllRequested, AllReceived, Receive, TypeOK, RequestInRange, args
    <3> QED BY <1>0, <3>1, <3>2, <3>3, QuietStep
  <2>2. CASE WantVersion(c)
    <3>1. UNCHANGED <<versions, queue, result, building, worker, target, builds, next>>
      BY <2>2 DEF WantVersion, args, builderVars
    <3>2. RequestInRange' /\ \A d \in Calls : next'[d] >= next[d]
      BY <2>2, <3>1 DEF WantVersion, TypeOK, RequestInRange
    <3> QED BY <1>0, <3>1, <3>2, QuietStep
  <2>3. CASE RequestVersion(c) /\ Remembered(Wanted(c))
    <3>1. UNCHANGED <<versions, queue, result, building, worker, target, builds>>
      BY <2>3 DEF RequestVersion, args
    <3>2. RequestInRange' /\ \A d \in Calls : next'[d] >= next[d]
      BY <2>3, <3>1 DEF RequestVersion, TypeOK, RequestInRange
    <3> QED BY <1>0, <3>1, <3>2, QuietStep
  <2>4. CASE RequestVersion(c) /\ ~Remembered(Wanted(c))
    BY <1>0, <2>4, RequestStep
  <2> QED BY <1>2, <2>1, <2>2, <2>3, <2>4 DEF CallStep
<1>3. ASSUME NEW ch \in Chans, WorkerStep(ch) PROVE IInv'
  <2>1. CASE WorkerBegins(ch)
    <3>1. /\ Select(ch, queue') /\ ~building /\ worker[ch] = "spawned"
          /\ UNCHANGED <<versions, pc, next, queue, result>>
      BY <2>1 DEF WorkerBegins, args, callVars
    <3>2. \A dh \in Chans : worker[dh] # "building"
      BY <3>1 DEF FlagIsExact
    <3>3. VerdictIsFinal'
      BY <3>1 DEF VerdictIsFinal
    <3>4. \A v \in Versions : builds[v] # 0 => result'[v] # "none"
      BY <3>1, <3>2 DEF BuildIsAccounted
    <3>5. /\ AtMostOneBuild' /\ BuiltAtMostOnce' /\ NoStrandedRequest'
          /\ FlagIsExact' /\ BuildingIsPending' /\ BuildIsAccounted'
      BY <1>0, <3>1, <3>2, <3>3, <3>4, SelectStep
    <3>6. RequestInRange'
      BY <3>1 DEF RequestInRange
    <3>7. \A dh \in Chans \ {ch} : worker'[dh] = worker[dh]
      BY <3>1 DEF Select, TypeOK
    <3>8. WorkerIsOfPastRequest'
      BY <3>1, <3>7 DEF WorkerIsOfPastRequest, Chans
    <3> QED BY <1>0, <3>3, <3>5, <3>6, <3>8
  <2>2. CASE WorkerReturns(ch)
    <3>1. /\ worker[ch] = "spawned" /\ building
          /\ worker' = [worker EXCEPT ![ch] = "none"]
          /\ UNCHANGED <<versions, pc, next, queue, result, building, target, builds>>
      BY <2>2 DEF WorkerReturns, args, callVars
    <3>2. worker'[ch] = "none" /\ \A dh \in Chans \ {ch} : worker'[dh] = worker[dh]
      BY <3>1 DEF TypeOK
    <3>3. PICK dh \in Chans : worker[dh] = "building" /\ worker'[dh] = "building"
      BY <3>1, <3>2 DEF FlagIsExact
    <3>4. AtMostOneBuild' /\ BuiltAtMostOnce' /\ NoStrandedRequest' /\ FlagIsExact'
      BY <3>1, <3>2, <3>3 DEF AtMostOneBuild, BuiltAtMostOnce, NoStrandedRequest, FlagIsExact
    <3>5. BuildingIsPending' /\ VerdictIsFinal' /\ BuildIsAccounted'
      BY <3>1, <3>2 DEF BuildingIsPending, VerdictIsFinal, BuildIsAccounted
    <3>6. RequestInRange' /\ WorkerIsOfPastRequest'
      BY <3>1, <3>2 DEF RequestInRange, WorkerIsOfPastRequest, Chans
    <3> QED BY <1>0, <3>4, <3>5, <3>6
  <2>3. CASE BinaryWritten(ch)
    <3>1. UNCHANGED <<versions, pc, next, queue, result, building, worker, target, builds>>
      BY <2>3 DEF BinaryWritten, args, callVars
    <3>2. RequestInRange' /\ \A c \in Calls : next'[c] >= next[c]
      BY <3>1 DEF RequestInRange, TypeOK
    <3> QED BY <1>0, <3>1, <3>2, QuietStep
  <2>4. ASSUME NEW r \in {"ok", "failed"}, BuildEnds(ch, r) PROVE IInv'
    <3>1. /\ Select(ch, queue') /\ worker[ch] = "building"
          /\ queue' = [queue EXCEPT ![target[ch]] = {}]
          /\ result' = [result EXCEPT ![target[ch]] = r]
          /\ UNCHANGED <<versions, pc, next>>
      BY <2>4 DEF BuildEnds, args, callVars
    <3>2. \A dh \in Chans : worker[dh] = "building" => dh = ch
      BY <3>1 DEF AtMostOneBuild
    <3>3. target[ch] \in Versions
      BY <3>1 DEF BuildingIsPending
    <3>4. VerdictIsFinal'
      BY <3>1, <3>3 DEF VerdictIsFinal, TypeOK
    <3>5. \A v \in Versions : builds[v] # 0 => result'[v] # "none"
      BY <3>1, <3>2, <3>3 DEF BuildIsAccounted, TypeOK
    <3>6. /\ AtMostOneBuild' /\ BuiltAtMostOnce' /\ NoStrandedRequest'
          /\ FlagIsExact' /\ BuildingIsPending' /\ BuildIsAccounted'
      BY <1>0, <3>1, <3>2, <3>4, <3>5, SelectStep
    <3>7. RequestInRange'
      BY <3>1 DEF RequestInRange
    <3>8. \A dh \in Chans \ {ch} : worker'[dh] = worker[dh]
      BY <3>1 DEF Select, TypeOK
    <3>9. WorkerIsOfPastRequest'
      BY <3>1, <3>8 DEF WorkerIsOfPastRequest, Chans
    <3> QED BY <1>0, <3>4, <3>6, <3>7, <3>9
  <2> QED BY <1>3, <2>1, <2>2, <2>3, <2>4 DEF WorkerStep
<1> QED BY <1>1, <1>2, <1>3 DEF Next

(* IInv holds in every reachable state: TypeOK and the three safety        *)
(* properties of the builder are among its conjuncts.                      *)
THEOREM Invariant == Spec => []IInv
<1>1. Init => IInv
  <2> SUFFICES ASSUME Init PROVE IInv
    OBVIOUS
  <2>1. /\ versions \in [Calls -> Requests] /\ force \in [Calls -> BOOLEAN]
        /\ pc \in [Calls -> {"stat", "enqueue", "receive", "nil", "error"}]
        /\ next \in [Calls -> Nat \ {0}] /\ chans \in [Calls -> SUBSET Idx]
    BY DEF Init
  <2>2. /\ queue \in [Versions -> SUBSET Chans] /\ result \in [Versions -> {"none", "ok", "failed"}]
        /\ builds \in [Versions -> Nat] /\ building \in BOOLEAN
    BY DEF Init
  <2>3. /\ worker \in [Chans -> {"none", "spawned", "building"}]
        /\ target \in [Chans -> Versions \cup {NoVersion}]
        /\ notifier \subseteq Chans \X {"ok", "failed"} /\ onDisk \subseteq Versions
    BY DEF Init
  <2>4. TypeOK
    BY <2>1, <2>2, <2>3 DEF TypeOK
  <2> QED
    BY <2>4 DEF Init, IInv, AtMostOneBuild, BuiltAtMostOnce, NoStrandedRequest, FlagIsExact,
       BuildingIsPending, VerdictIsFinal, BuildIsAccounted, RequestInRange, WorkerIsOfPastRequest, Chans
<1>2. IInv /\ [Next]_vars => IInv'
  BY InvStep
<1> QED BY <1>1, <1>2, PTL DEF Spec

(* Every variable keeps its type. *)
THEOREM TypeCorrect == Spec => []TypeOK
<1>1. IInv => TypeOK
  BY DEF IInv
<1> QED BY <1>1, Invariant, PTL

(* Builds never overlap, whatever the number of calls and workers. *)
THEOREM Exclusion == Spec => []AtMostOneBuild
<1>1. IInv => AtMostOneBuild
  BY DEF IInv
<1> QED BY <1>1, Invariant, PTL

(* No version is built twice. *)
THEOREM BuiltOnce == Spec => []BuiltAtMostOnce
<1>1. IInv => BuiltAtMostOnce
  BY DEF IInv
<1> QED BY <1>1, Invariant, PTL

(* A non-empty queue always has a worker that will come to it. *)
THEOREM NotStranded == Spec => []NoStrandedRequest
<1>1. IInv => NoStrandedRequest
  BY DEF IInv
<1> QED BY <1>1, Invariant, PTL

(* A worker selects a version with callers, and such a version has no      *)
(* verdict yet.                                                            *)
LEMMA SelectsUndecided ==
  ASSUME IInv, NEW ch \in Chans, NEW q, Select(ch, q),
         \A w \in Versions : q[w] # {} => queue[w] # {},
         NEW v \in Versions, result[v] # "none"
  PROVE  builds'[v] = builds[v]
<1>1. CASE \A w \in Versions : q[w] = {}
  BY <1>1 DEF Select
<1>2. CASE ~ \A w \in Versions : q[w] = {}
  <2>1. PICK w \in MostWanted(q) : builds' = [builds EXCEPT ![w] = @ + 1]
    BY <1>2 DEF Select
  <2>2. w # v
    BY MostWantedIsQueued DEF IInv, VerdictIsFinal
  <2> QED BY <2>1, <2>2 DEF IInv, TypeOK
<1> QED BY <1>1, <1>2

(* A verdict is never replaced, and its version is never built again. *)
THEOREM VerdictIsKept == Spec => VerdictStays
<1>1. ASSUME IInv, [Next]_vars, NEW v \in Versions, result[v] # "none"
      PROVE  result'[v] = result[v] /\ builds'[v] = builds[v]
  <2>1. CASE UNCHANGED vars
    BY <2>1 DEF vars
  <2>2. ASSUME NEW c \in Calls, CallStep(c)
        PROVE  UNCHANGED <<result, builds>>
    BY <2>2 DEF CallStep, SkipVersion, WantVersion, StatFails, AllRequested, RequestVersion,
       Receive, AllReceived, builderVars
  <2>3. ASSUME NEW ch \in Chans, WorkerBegins(ch)
        PROVE  result'[v] = result[v] /\ builds'[v] = builds[v]
    BY <1>1, <2>3, SelectsUndecided DEF WorkerBegins
  <2>4. ASSUME NEW ch \in Chans, WorkerReturns(ch) \/ BinaryWritten(ch)
        PROVE  UNCHANGED <<result, builds>>
    BY <2>4 DEF WorkerReturns, BinaryWritten
  <2>5. ASSUME NEW ch \in Chans, NEW r \in {"ok", "failed"}, BuildEnds(ch, r)
        PROVE  result'[v] = result[v] /\ builds'[v] = builds[v]
    <3> DEFINE q == [queue EXCEPT ![target[ch]] = {}]
    <3>1. /\ worker[ch] = "building" /\ Select(ch, q)
          /\ result' = [result EXCEPT ![target[ch]] = r]
      BY <2>5 DEF BuildEnds
    <3>2. target[ch] \in Versions /\ target[ch] # v
      BY <1>1, <3>1 DEF IInv, BuildingIsPending
    <3>3. \A w \in Versions : q[w] # {} => queue[w] # {}
      BY <1>1, <3>2 DEF IInv, TypeOK
    <3>4. result'[v] = result[v]
      BY <1>1, <3>1, <3>2 DEF IInv, TypeOK
    <3> HIDE DEF q
    <3>5. builds'[v] = builds[v]
      BY <1>1, <3>1, <3>3, SelectsUndecided
    <3> QED BY <3>4, <3>5
  <2> QED BY <1>1, <2>1, <2>2, <2>3, <2>4, <2>5 DEF Next, WorkerStep
<1>2. IInv /\ [Next]_vars =>
        [\A v \in Versions : result[v] # "none" =>
            result'[v] = result[v] /\ builds'[v] = builds[v]]_vars
  BY <1>1
<1> QED BY <1>2, Invariant, PTL DEF Spec, VerdictStays
-----------------------------------------------------------------------------
(* Delivery of the verdicts.                                               *)

(* An index of a call's list is in Idx, and names a version.               *)
LEMMA RequestedVersion ==
  ASSUME TypeOK, NEW c \in Calls
  PROVE  /\ Len(versions[c]) \in Nat
         /\ \A i \in 1 .. Len(versions[c]) : i \in Idx /\ versions[c][i] \in Versions
<1>1. versions[c] \in Requests
  BY DEF TypeOK
<1>2. versions[c] \in Seq(Versions) /\ Len(versions[c]) \in 0 .. MaxLen /\ MaxLen \in Nat
  BY <1>1, RequestLength, RequestsAssumption
<1> QED BY <1>2 DEF Idx

(* Steps that leave the queues, the verdicts and what is being sent alone. *)
LEMMA DeliveryQuiet ==
  ASSUME IInv, DeliveryInv, TypeOK', UNCHANGED <<versions, queue, result, notifier, chans>>,
         \A c \in Calls : next'[c] >= next[c],
         onDisk \subseteq onDisk', SettledIsOnDisk', ReadAfterRequests'
  PROVE  DeliveryInv'
<1> USE DEF IInv, DeliveryInv
<1>1. \A c \in Calls : \A i : IsRequest(c, i) => IsRequest(c, i)'
  BY DEF IsRequest, TypeOK
<1>2. QueueIsOfVersion'
  BY <1>1 DEF QueueIsOfVersion
<1>3. AnswerIsVerdict'
  BY <1>1 DEF AnswerIsVerdict
<1>4. PendingIsAnswered'
  BY <1>1 DEF PendingIsAnswered
<1>5. OkIsOnDisk'
  BY DEF OkIsOnDisk
<1> QED BY <1>2, <1>3, <1>4, <1>5

(* managedBuildVersion: the new channel waits, or is sent the verdict.     *)
LEMMA DeliveryRequest ==
  ASSUME IInv, DeliveryInv, TypeOK', NEW c \in Calls, RequestVersion(c)
  PROVE  DeliveryInv'
<1> USE DEF IInv, DeliveryInv
<1> DEFINE v == Wanted(c)
<1>1. /\ pc[c] = "enqueue" /\ pc' = [pc EXCEPT ![c] = "stat"]
      /\ next' = [next EXCEPT ![c] = @ + 1]
      /\ chans' = [chans EXCEPT ![c] = @ \cup {next[c]}]
      /\ UNCHANGED <<versions, result, onDisk>>
  BY DEF RequestVersion, args
<1>2. /\ next[c] \in 1 .. Len(versions[c]) /\ next[c] \in Idx /\ next[c] \in Nat
      /\ v = versions[c][next[c]] /\ v \in Versions
  BY <1>1, RequestedVersion DEF RequestInRange, TypeOK, Wanted
<1>3. /\ next'[c] = next[c] + 1 /\ chans'[c] = chans[c] \cup {next[c]} /\ pc'[c] = "stat"
      /\ \A d \in Calls \ {c} : next'[d] = next[d] /\ chans'[d] = chans[d] /\ pc'[d] = pc[d]
  BY <1>1 DEF TypeOK
<1>4. /\ \A d \in Calls : \A i : IsRequest(d, i) => IsRequest(d, i)'
      /\ \A i : i = next[c] => IsRequest(c, i)'
  BY <1>1, <1>2, <1>3 DEF IsRequest, TypeOK
<1>6. OkIsOnDisk' /\ SettledIsOnDisk' /\ ReadAfterRequests'
  <2>1. OkIsOnDisk'
    BY <1>1 DEF OkIsOnDisk
  <2>2. SettledIsOnDisk'
    <3> SUFFICES ASSUME NEW d \in Calls, pc'[d] # "error", NEW j \in 1 .. Len(versions[d]),
                        j < next'[d], j \notin chans'[d]
                 PROVE  versions[d][j] \in onDisk
      BY <1>1 DEF SettledIsOnDisk
    <3>1. pc[d] # "error" /\ j < next[d] /\ j \notin chans[d]
      BY <1>1, <1>2, <1>3
    <3> QED BY <3>1 DEF SettledIsOnDisk
  <2>3. ReadAfterRequests'
    BY <1>1, <1>3 DEF ReadAfterRequests
  <2> QED BY <2>1, <2>2, <2>3
<1>5. CASE Remembered(v)
  <2>1. notifier' = notifier \cup {<<<<c, next[c]>>, result[v]>>} /\ queue' = queue
    BY <1>5 DEF RequestVersion
  <2>2. QueueIsOfVersion'
    BY <1>1, <1>4, <2>1 DEF QueueIsOfVersion
  <2>3. AnswerIsVerdict'
    <3>1. UNCHANGED <<versions, result>>
      BY <1>1
    <3> SUFFICES ASSUME NEW d \in Calls, NEW i \in Idx, NEW a \in {"ok", "failed"},
                        <<<<d, i>>, a>> \in notifier'
                 PROVE  IsRequest(d, i)' /\ result[versions[d][i]] = a
      BY <3>1 DEF AnswerIsVerdict
    <3>2. CASE <<<<d, i>>, a>> \in notifier
      BY <3>2, <1>4 DEF AnswerIsVerdict
    <3>3. CASE d = c /\ i = next[c] /\ a = result[v]
      BY <3>3, <1>2, <1>4
    <3> QED BY <2>1, <3>2, <3>3
  <2>4. PendingIsAnswered'
    <3> SUFFICES ASSUME NEW d \in Calls, NEW i \in chans'[d]
                 PROVE  /\ IsRequest(d, i)'
                        /\ \/ <<d, i>> \in queue[versions[d][i]]
                           \/ <<<<d, i>>, result[versions[d][i]]>> \in notifier'
      BY <1>1, <2>1 DEF PendingIsAnswered
    <3>1. CASE i \in chans[d]
      BY <3>1, <1>4, <2>1 DEF PendingIsAnswered
    <3>2. CASE i \notin chans[d]
      <4>1. d = c /\ i = next[c]
        BY <3>2, <1>3
      <4> QED BY <4>1, <1>2, <1>4, <2>1
    <3> QED BY <3>1, <3>2
  <2> QED BY <2>2, <2>3, <2>4, <1>1, <1>6
<1>7. CASE ~Remembered(v)
  <2>1. notifier' = notifier /\ queue' = [queue EXCEPT ![v] = @ \cup {<<c, next[c]>>}]
    BY <1>7 DEF RequestVersion
  <2>2. /\ queue'[v] = queue[v] \cup {<<c, next[c]>>}
        /\ \A w \in Versions \ {v} : queue'[w] = queue[w]
    BY <1>2, <2>1 DEF TypeOK
  <2>3. QueueIsOfVersion'
    BY <1>1, <1>2, <1>4, <2>2 DEF QueueIsOfVersion
  <2>4. AnswerIsVerdict'
    BY <1>1, <1>4, <2>1 DEF AnswerIsVerdict
  <2>5. PendingIsAnswered'
    <3> SUFFICES ASSUME NEW d \in Calls, NEW i \in chans'[d]
                 PROVE  /\ IsRequest(d, i)'
                        /\ \/ <<d, i>> \in queue'[versions[d][i]]
                           \/ <<<<d, i>>, result[versions[d][i]]>> \in notifier'
      BY <1>1 DEF PendingIsAnswered
    <3>1. CASE i \in chans[d]
      <4>1. IsRequest(d, i) /\ versions[d][i] \in Versions
        BY <3>1, RequestedVersion DEF PendingIsAnswered, IsRequest
      <4>2. queue[versions[d][i]] \subseteq queue'[versions[d][i]]
        BY <4>1, <2>2
      <4> QED BY <3>1, <4>1, <4>2, <1>4, <2>1 DEF PendingIsAnswered
    <3>2. CASE i \notin chans[d]
      <4>1. d = c /\ i = next[c]
        BY <3>2, <1>3
      <4> QED BY <4>1, <1>2, <1>4, <2>2
    <3> QED BY <3>1, <3>2
  <2> QED BY <2>3, <2>4, <2>5, <1>1, <1>6
<1> QED BY <1>5, <1>7

(* A call reads a verdict: if it is good, the binary is there.             *)
LEMMA DeliveryReceive ==
  ASSUME IInv, DeliveryInv, TypeOK', NEW c \in Calls, NEW r \in {"ok", "failed"}, Receive(c, r)
  PROVE  DeliveryInv'
<1> USE DEF IInv, DeliveryInv
<1>1. PICK i \in chans[c] : /\ <<<<c, i>>, r>> \in notifier
                            /\ notifier' = notifier \ {<<<<c, i>>, r>>}
                            /\ chans' = [chans EXCEPT ![c] = @ \ {i}]
  BY DEF Receive
<1>2. /\ pc[c] = "receive"
      /\ pc' = IF r = "failed" THEN [pc EXCEPT ![c] = "error"] ELSE pc
      /\ UNCHANGED <<versions, next, queue, result, onDisk>>
  BY DEF Receive, args
<1>3. /\ chans'[c] = chans[c] \ {i} /\ \A d \in Calls \ {c} : chans'[d] = chans[d]
      /\ \A d \in Calls : pc'[d] # "error" => pc'[d] = pc[d]
      /\ r = "failed" => pc'[c] = "error"
  BY <1>1, <1>2 DEF TypeOK
<1>4. IsRequest(c, i) /\ result[versions[c][i]] = r /\ versions[c][i] \in Versions /\ i \in Idx
  BY <1>1, RequestedVersion DEF PendingIsAnswered, AnswerIsVerdict, TypeOK, IsRequest
<1>5. \A d \in Calls : \A j : IsRequest(d, j)' <=> IsRequest(d, j)
  BY <1>2 DEF IsRequest
<1>6. QueueIsOfVersion' /\ AnswerIsVerdict' /\ OkIsOnDisk'
  BY <1>1, <1>2, <1>5 DEF QueueIsOfVersion, AnswerIsVerdict, OkIsOnDisk
<1>7. PendingIsAnswered'
  <2> SUFFICES ASSUME NEW d \in Calls, NEW j \in chans'[d]
               PROVE  /\ IsRequest(d, j)
                      /\ \/ <<d, j>> \in queue[versions[d][j]]
                         \/ <<<<d, j>>, result[versions[d][j]]>> \in notifier'
    BY <1>2, <1>5 DEF PendingIsAnswered
  <2>1. j \in chans[d] /\ <<d, j>> # <<c, i>>
    BY <1>3
  <2> QED BY <2>1, <1>1 DEF PendingIsAnswered
<1>8. SettledIsOnDisk'
  <2> SUFFICES ASSUME NEW d \in Calls, pc'[d] # "error", NEW j \in 1 .. Len(versions[d]),
                      j < next[d], j \notin chans'[d]
               PROVE  versions[d][j] \in onDisk
    BY <1>2 DEF SettledIsOnDisk
  <2>1. CASE j \notin chans[d]
    BY <2>1, <1>3 DEF SettledIsOnDisk
  <2>2. CASE j \in chans[d]
    <3>1. d = c /\ j = i /\ r = "ok"
      BY <2>2, <1>3
    <3> QED BY <3>1, <1>4 DEF OkIsOnDisk
  <2> QED BY <2>1, <2>2
<1>9. ReadAfterRequests'
  BY <1>1, <1>2, <1>3 DEF ReadAfterRequests, TypeOK
<1> QED BY <1>6, <1>7, <1>8, <1>9

(* The end of a build: who waited is sent the first verdict of the version. *)
LEMMA DeliveryBuildEnds ==
  ASSUME IInv, DeliveryInv, TypeOK', NEW ch \in Chans, NEW r \in {"ok", "failed"}, BuildEnds(ch, r)
  PROVE  DeliveryInv'
<1> USE DEF IInv, DeliveryInv
<1> DEFINE v == target[ch]
<1>1. /\ r = "ok" => v \in onDisk
      /\ notifier' = notifier \cup (queue[v] \X {r})
      /\ queue' = [queue EXCEPT ![v] = {}]
      /\ result' = [result EXCEPT ![v] = r]
      /\ UNCHANGED <<versions, pc, next, chans, onDisk>>
  BY DEF BuildEnds, args, callVars
<1>2. v \in Versions /\ result[v] = "none"
  BY DEF BuildingIsPending, BuildEnds
<1>3. /\ queue'[v] = {} /\ result'[v] = r
      /\ \A w \in Versions \ {v} : queue'[w] = queue[w] /\ result'[w] = result[w]
  BY <1>1, <1>2 DEF TypeOK
<1>4. \A d \in Calls : \A j : IsRequest(d, j)' <=> IsRequest(d, j)
  BY <1>1 DEF IsRequest
<1>5. QueueIsOfVersion'
  BY <1>1, <1>3, <1>4 DEF QueueIsOfVersion
<1>6. AnswerIsVerdict'
  <2> SUFFICES ASSUME NEW d \in Calls, NEW j \in Idx, NEW a \in {"ok", "failed"},
                      <<<<d, j>>, a>> \in notifier'
               PROVE  IsRequest(d, j) /\ result'[versions[d][j]] = a
    <3>1. UNCHANGED versions
      BY <1>1
    <3> QED BY <3>1, <1>4 DEF AnswerIsVerdict
  <2>1. CASE <<<<d, j>>, a>> \in notifier
    <3>1. IsRequest(d, j) /\ result[versions[d][j]] = a
      BY <2>1 DEF AnswerIsVerdict
    <3>2. versions[d][j] \in Versions \ {v}
      BY <3>1, <1>2, RequestedVersion DEF IsRequest
    <3> QED BY <3>1, <3>2, <1>3
  <2>2. CASE <<<<d, j>>, a>> \notin notifier
    <3>1. <<d, j>> \in queue[v] /\ a = r
      BY <2>2, <1>1
    <3> QED BY <3>1, <1>2, <1>3 DEF QueueIsOfVersion
  <2> QED BY <2>1, <2>2
<1>7. PendingIsAnswered'
  <2> SUFFICES ASSUME NEW d \in Calls, NEW j \in chans[d]
               PROVE  /\ IsRequest(d, j)
                      /\ \/ <<d, j>> \in queue'[versions[d][j]]
                         \/ <<<<d, j>>, result'[versions[d][j]]>> \in notifier'
    BY <1>1, <1>4 DEF PendingIsAnswered
  <2>1. /\ IsRequest(d, j)
        /\ \/ <<d, j>> \in queue[versions[d][j]]
           \/ <<<<d, j>>, result[versions[d][j]]>> \in notifier
    BY DEF PendingIsAnswered
  <2>2. CASE versions[d][j] = v
    <3>1. j \in Idx
      BY <2>1, RequestedVersion DEF IsRequest
    <3>2. <<<<d, j>>, "none">> \notin notifier
      BY DEF TypeOK
    <3> QED BY <2>1, <2>2, <3>1, <3>2, <1>1, <1>2, <1>3
  <2>3. CASE versions[d][j] # v
    <3>1. versions[d][j] \in Versions \ {v}
      BY <2>1, <2>3, RequestedVersion DEF IsRequest
    <3> QED BY <2>1, <3>1, <1>1, <1>3
  <2> QED BY <2>2, <2>3
<1>8. OkIsOnDisk'
  BY <1>1, <1>3 DEF OkIsOnDisk
<1>9. SettledIsOnDisk' /\ ReadAfterRequests'
  BY <1>1 DEF SettledIsOnDisk, ReadAfterRequests
<1> QED BY <1>5, <1>6, <1>7, <1>8, <1>9

LEMMA DeliveryStep == ASSUME IInv, DeliveryInv, [Next]_vars PROVE DeliveryInv'
<1> USE DEF IInv, DeliveryInv
<1>0. TypeOK'
  BY TypeStep
<1>1. CASE UNCHANGED vars
  <2>1. UNCHANGED <<versions, pc, next, chans, queue, result, notifier, onDisk>>
    BY <1>1 DEF vars
  <2>2. SettledIsOnDisk' /\ ReadAfterRequests' /\ \A d \in Calls : next'[d] >= next[d]
    BY <2>1 DEF SettledIsOnDisk, ReadAfterRequests, TypeOK
  <2> QED BY <1>0, <2>1, <2>2, DeliveryQuiet
<1>2. ASSUME NEW c \in Calls, CallStep(c) PROVE DeliveryInv'
  <2>1. CASE SkipVersion(c)
    <3>1. /\ pc[c] = "stat" /\ next[c] <= Len(versions[c]) /\ versions[c][next[c]] \in onDisk
          /\ next' = [next EXCEPT ![c] = @ + 1]
          /\ UNCHANGED <<versions, pc, chans, queue, result, notifier, onDisk>>
      BY <2>1 DEF SkipVersion, args, builderVars, Wanted
    <3>2. /\ next'[c] = next[c] + 1 /\ \A d \in Calls \ {c} : next'[d] = next[d]
          /\ \A d \in Calls : next'[d] >= next[d]
      BY <3>1 DEF TypeOK
    <3>3. SettledIsOnDisk'
      <4> SUFFICES ASSUME NEW d \in Calls, pc[d] # "error", NEW j \in 1 .. Len(versions[d]),
                          j < next'[d], j \notin chans[d]
                   PROVE  versions[d][j] \in onDisk
        BY <3>1 DEF SettledIsOnDisk
      <4>1. j < next[d] \/ (d = c /\ j = next[c])
        BY <3>2 DEF TypeOK
      <4> QED BY <4>1, <3>1 DEF SettledIsOnDisk
    <3>4. ReadAfterRequests'
      BY <3>1, <3>2 DEF ReadAfterRequests, TypeOK
    <3> QED BY <1>0, <3>1, <3>2, <3>3, <3>4, DeliveryQuiet
  <2>2. CASE WantVersion(c) \/ StatFails(c) \/ AllRequested(c) \/ AllReceived(c)
    <3>1. UNCHANGED <<versions, next, chans, queue, result, notifier, onDisk>>
      BY <2>2 DEF WantVersion, StatFails, AllRequested, AllReceived, args, builderVars
    <3>2. /\ \A d \in Calls : next'[d] >= next[d]
          /\ \A d \in Calls : pc'[d] # "error" => pc[d] # "error"
      BY <2>2, <3>1 DEF WantVersion, StatFails, AllRequested, AllReceived, TypeOK
    <3>3. SettledIsOnDisk'
      BY <3>1, <3>2 DEF SettledIsOnDisk
    <3>4. ReadAfterRequests'
      BY <2>2, <3>1 DEF WantVersion, StatFails, AllRequested, AllReceived, ReadAfterRequests, TypeOK
    <3> QED BY <1>0, <3>1, <3>2, <3>3, <3>4, DeliveryQuiet
  <2>3. CASE RequestVersion(c)
    BY <1>0, <2>3, DeliveryRequest
  <2>4. ASSUME NEW r \in {"ok", "failed"}, Receive(c, r) PROVE DeliveryInv'
    BY <1>0, <2>4, DeliveryReceive
  <2> QED BY <1>2, <2>1, <2>2, <2>3, <2>4 DEF CallStep
<1>3. ASSUME NEW ch \in Chans, WorkerStep(ch) PROVE DeliveryInv'
  <2>1. CASE WorkerBegins(ch) \/ WorkerReturns(ch) \/ BinaryWritten(ch)
    <3>1. /\ UNCHANGED <<versions, pc, next, chans, queue, result, notifier>>
          /\ onDisk \subseteq onDisk'
      BY <2>1 DEF WorkerBegins, WorkerReturns, BinaryWritten, args, callVars
    <3>2. SettledIsOnDisk' /\ ReadAfterRequests' /\ \A d \in Calls : next'[d] >= next[d]
      BY <3>1 DEF SettledIsOnDisk, ReadAfterRequests, TypeOK
    <3> QED BY <1>0, <3>1, <3>2, DeliveryQuiet
  <2>2. ASSUME NEW r \in {"ok", "failed"}, BuildEnds(ch, r) PROVE DeliveryInv'
    BY <1>0, <2>2, DeliveryBuildEnds
  <2> QED BY <1>3, <2>1, <2>2 DEF WorkerStep
<1> QED BY <1>1, <1>2, <1>3 DEF Next

(* Verdicts are delivered as DeliveryInv says, in every reachable state.   *)
THEOREM Delivery == Spec => []DeliveryInv
<1>1. Init => DeliveryInv
  <2> SUFFICES ASSUME Init PROVE DeliveryInv
    OBVIOUS
  <2>1. QueueIsOfVersion /\ AnswerIsVerdict /\ PendingIsAnswered /\ OkIsOnDisk
    BY DEF Init, QueueIsOfVersion, AnswerIsVerdict, PendingIsAnswered, OkIsOnDisk
  <2>2. SettledIsOnDisk /\ ReadAfterRequests
    BY DEF Init, SettledIsOnDisk, ReadAfterRequests
  <2> QED BY <2>1, <2>2 DEF DeliveryInv
<1>2. IInv /\ DeliveryInv /\ [Next]_vars => DeliveryInv'
  BY DeliveryStep
<1> QED BY <1>1, <1>2, Invariant, PTL DEF Spec

(* A channel that is still to be read has exactly one answer coming: a     *)
(* queued one none yet, because a version with a queue has no verdict.     *)
THEOREM OneAnswer == Spec => []OneAnswerPerChannel
<1>1. IInv /\ DeliveryInv => OneAnswerPerChannel
  <2> SUFFICES ASSUME IInv, DeliveryInv, NEW c \in Calls, NEW i \in chans[c]
               PROVE  LET v == versions[c][i]
                          answers == {n \in notifier : n[1] = <<c, i>>}
                      IN  IF <<c, i>> \in queue[v] THEN answers = {}
                          ELSE answers = {<<<<c, i>>, result[v]>>}
    BY DEF OneAnswerPerChannel
  <2> USE DEF IInv, DeliveryInv
  <2> DEFINE v == versions[c][i]
             answers == {n \in notifier : n[1] = <<c, i>>}
  <2>1. /\ i \in Idx /\ v \in Versions
        /\ <<c, i>> \in queue[v] \/ <<<<c, i>>, result[v]>> \in notifier
    BY RequestedVersion DEF PendingIsAnswered, IsRequest
  <2>2. \A n \in answers : /\ n = <<<<c, i>>, result[v]>>
                           /\ result[v] \in {"ok", "failed"}
    <3> SUFFICES ASSUME NEW n \in answers
                 PROVE  n = <<<<c, i>>, result[v]>> /\ result[v] \in {"ok", "failed"}
      OBVIOUS
    <3>1. PICK r \in {"ok", "failed"} : n = <<<<c, i>>, r>>
      BY DEF TypeOK
    <3> QED BY <2>1, <3>1 DEF AnswerIsVerdict
  <2>3. <<c, i>> \in queue[v] => result[v] = "none"
    BY <2>1 DEF VerdictIsFinal
  <2> QED BY <2>1, <2>2, <2>3
<1> QED BY <1>1, Invariant, Delivery, PTL

(* BuildVersions returns nil only if each binary it was asked for exists.  *)
THEOREM NilIsHonest == Spec => []NilMeansOnDisk
<1>1. IInv /\ DeliveryInv => NilMeansOnDisk
  <2> SUFFICES ASSUME IInv, DeliveryInv, NEW c \in Calls, pc[c] = "nil",
                      NEW i \in 1 .. Len(versions[c])
               PROVE  versions[c][i] \in onDisk
    BY DEF NilMeansOnDisk
  <2>1. next[c] > Len(versions[c]) /\ chans[c] = {}
    BY DEF DeliveryInv, ReadAfterRequests
  <2>2. i < next[c] /\ i \notin chans[c]
    BY <2>1, RequestedVersion DEF IInv, TypeOK
  <2> QED BY <2>2 DEF DeliveryInv, SettledIsOnDisk
<1> QED BY <1>1, Invariant, Delivery, PTL
-----------------------------------------------------------------------------
(* The refinement.                                                         *)

(* Steps that the service does not see.                                    *)
LEMMA UnseenStep ==
  ASSUME UNCHANGED <<versions, result, onDisk>>,
         \A c \in Calls : pc'[c] = pc[c] \/ {pc[c], pc'[c]} \cap {"nil", "error"} = {}
  PROVE  UNCHANGED Service!vars
BY DEF Service!vars

(* A call that returns leaves the other calls and the builder alone.       *)
LEMMA ReturnStep ==
  ASSUME TypeOK, NEW c \in Calls, NEW o \in {"nil", "error"},
         pc[c] \notin {"nil", "error"}, pc' = [pc EXCEPT ![c] = o],
         UNCHANGED <<versions, result, onDisk>>,
         o = "nil" => \A i \in 1 .. Len(versions[c]) : versions[c][i] \in onDisk
  PROVE  Service!Next
<1> DEFINE returned == [d \in Calls |-> IF pc[d] \in {"nil", "error"} THEN pc[d] ELSE "no"]
           asked    == [d \in Calls |-> {versions[d][i] : i \in 1 .. Len(versions[d])}]
<1>1. returned[c] = "no" /\ returned' = [returned EXCEPT ![c] = o]
  BY DEF TypeOK
<1>2. asked' = asked /\ result' = result /\ onDisk' = onDisk
  OBVIOUS
<1>3. CASE o = "error"
  <2>1. Service!Fail(c)
    BY <1>1, <1>2, <1>3 DEF Service!Fail
  <2> QED BY <2>1 DEF Service!Next
<1>4. CASE o = "nil"
  <2>1. asked[c] \subseteq onDisk
    BY <1>4
  <2>2. Service!Succeed(c)
    BY <1>1, <1>2, <1>4, <2>1 DEF Service!Succeed
  <2> QED BY <2>2 DEF Service!Next
<1> QED BY <1>3, <1>4

(* Each step of the builder is a step of the service, or unseen by it.     *)
LEMMA ServiceStep ==
  ASSUME IInv, DeliveryInv, [Next]_vars PROVE [Service!Next]_(Service!vars)
<1> USE DEF IInv, DeliveryInv
<1>1. CASE UNCHANGED vars
  <2>1. UNCHANGED <<versions, result, onDisk, pc>>
    BY <1>1 DEF vars
  <2> QED BY <2>1, UnseenStep
<1>2. ASSUME NEW c \in Calls, CallStep(c) PROVE [Service!Next]_(Service!vars)
  <2>1. CASE \/ SkipVersion(c) \/ WantVersion(c) \/ AllRequested(c) \/ RequestVersion(c)
             \/ Receive(c, "ok")
    <3>1. /\ UNCHANGED <<versions, result, onDisk>>
          /\ \A d \in Calls : pc'[d] = pc[d] \/ {pc[d], pc'[d]} \cap {"nil", "error"} = {}
      BY <2>1 DEF SkipVersion, WantVersion, AllRequested, RequestVersion, Receive,
         args, builderVars, TypeOK
    <3> QED BY <3>1, UnseenStep
  <2>2. CASE StatFails(c) \/ Receive(c, "failed")
    <3>1. /\ UNCHANGED <<versions, result, onDisk>>
          /\ pc[c] \notin {"nil", "error"} /\ pc' = [pc EXCEPT ![c] = "error"]
      BY <2>2 DEF StatFails, Receive, args, builderVars
    <3> QED BY <3>1, ReturnStep
  <2>3. CASE AllReceived(c)
    <3>1. /\ UNCHANGED <<versions, result, onDisk>> /\ chans[c] = {}
          /\ pc[c] = "receive" /\ pc' = [pc EXCEPT ![c] = "nil"]
      BY <2>3 DEF AllReceived, args, builderVars
    <3>2. next[c] > Len(versions[c])
      BY <3>1 DEF ReadAfterRequests
    <3>3. \A i \in 1 .. Len(versions[c]) : versions[c][i] \in onDisk
      <4>1. Len(versions[c]) \in Nat /\ next[c] \in Nat
        BY RequestedVersion DEF TypeOK
      <4>2. \A i \in 1 .. Len(versions[c]) : i < next[c] /\ i \notin chans[c]
        BY <3>1, <3>2, <4>1
      <4> QED BY <3>1, <4>2 DEF SettledIsOnDisk
    <3> QED BY <3>1, <3>3, ReturnStep
  <2> QED BY <1>2, <2>1, <2>2, <2>3 DEF CallStep
<1>3. ASSUME NEW ch \in Chans, WorkerStep(ch) PROVE [Service!Next]_(Service!vars)
  <2>1. UNCHANGED <<versions, pc>>
    BY <1>3 DEF WorkerStep, WorkerBegins, WorkerReturns, BinaryWritten, BuildEnds, args, callVars
  <2>2. CASE WorkerBegins(ch) \/ WorkerReturns(ch)
    <3>1. UNCHANGED <<result, onDisk>>
      BY <2>2 DEF WorkerBegins, WorkerReturns
    <3> QED BY <2>1, <3>1, UnseenStep
  <2>3. CASE BinaryWritten(ch)
    <3>1. target[ch] \in Versions /\ result[target[ch]] = "none"
      BY <2>3 DEF BinaryWritten, BuildingIsPending
    <3>2. Service!Write(target[ch])
      BY <2>1, <2>3, <3>1 DEF BinaryWritten, Service!Write
    <3> QED BY <3>1, <3>2 DEF Service!Next
  <2>4. ASSUME NEW r \in {"ok", "failed"}, BuildEnds(ch, r) PROVE [Service!Next]_(Service!vars)
    <3>1. target[ch] \in Versions /\ result[target[ch]] = "none"
      BY <2>4 DEF BuildEnds, BuildingIsPending
    <3>2. /\ result' = [result EXCEPT ![target[ch]] = r] /\ onDisk' = onDisk
          /\ r = "ok" => target[ch] \in onDisk
      BY <2>4 DEF BuildEnds
    <3>3. Service!Decide(target[ch])
      BY <2>1, <3>1, <3>2 DEF Service!Decide
    <3> QED BY <3>1, <3>3 DEF Service!Next
  <2> QED BY <1>3, <2>2, <2>3, <2>4 DEF WorkerStep
<1> QED BY <1>1, <1>2, <1>3 DEF Next

(* The builder does what its service promises, for every set of calls,     *)
(* versions and request lists: a version gets one final verdict, and a     *)
(* call that returns nil finds all its binaries.                           *)
THEOREM Implements == Spec => ImplementsService
<1>1. Init => Service!Init
  <2> SUFFICES ASSUME Init PROVE Service!Init
    OBVIOUS
  <2>1. \A c \in Calls : {versions[c][i] : i \in 1 .. Len(versions[c])} \subseteq Versions
    <3>1. versions \in [Calls -> Requests]
      BY DEF Init
    <3> QED BY <3>1, RequestLength
  <2>2. /\ \A c \in Calls : pc[c] = "stat"
        /\ result = [v \in Versions |-> "none"] /\ onDisk \in SUBSET Versions
    BY DEF Init
  <2> QED BY <2>1, <2>2 DEF Service!Init
<1>2. IInv /\ DeliveryInv /\ [Next]_vars => [Service!Next]_(Service!vars)
  BY ServiceStep
<1> QED BY <1>1, <1>2, Invariant, Delivery, PTL DEF Spec, ImplementsService, Service!Spec
=============================================================================
