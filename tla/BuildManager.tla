---------------------------- MODULE BuildManager ----------------------------
(***************************************************************************)
(* binaries-builder/build_manager.go: the builder that tests running in    *)
(* parallel share.  A call of BuildVersions puts one channel per version   *)
(* into versionMap and starts a goroutine threadedUpdateBuilds for each;   *)
(* one of those builds what is queued, the others return; a verdict is     *)
(* sent on each channel by a goroutine of its own, and remembered.         *)
(*                                                                         *)
(* The sections under the builder's mutex are atomic; a build, and the     *)
(* Stat of a binary, happen outside it.                                    *)
(***************************************************************************)
EXTENDS Naturals, Sequences, FiniteSets

CONSTANTS
    Calls,        \* the calls of BuildVersions, each made once
    Versions,     \* siad versions
    Requests,     \* the version lists that a call may ask for
    MaxLen,       \* bound: length of these lists
    NoVersion     \* the empty version string

ASSUME RequestsAssumption ==
    /\ MaxLen \in Nat
    /\ Requests \subseteq {r \in Seq(Versions) : Len(r) <= MaxLen}
ASSUME NoVersionAssumption == NoVersion \notin Versions

(* <<c, i>> is the channel that call c makes for the i-th version of its   *)
(* list, and names the goroutine threadedUpdateBuilds started with it.     *)
Idx   == 1 .. MaxLen
Chans == Calls \X Idx

VARIABLES
    versions, force,   \* arguments of each call
    pc, next,          \* where each call is; index of the version it deals with
    chans,             \* the indices of the channels it has still to read
    queue,             \* versionMap[v].callerChans
    result,            \* versionMap[v].err; "none": no entry, or not built
    building,          \* builder.building
    worker,            \* threadedUpdateBuilds goroutines; "none": returned too
    target,            \* the version that it builds
    notifier,          \* goroutines in "ch <- err": <<channel, verdict>>
    onDisk,            \* versions whose binary exists
    builds             \* history: number of builds begun per version

args == <<versions, force>>
callVars == <<pc, next, chans>>
vars == <<versions, force, pc, next, chans, queue, result, building, worker, target,
          notifier, onDisk, builds>>

TypeOK ==
    /\ versions \in [Calls -> Requests]
    /\ force \in [Calls -> BOOLEAN]
    /\ pc \in [Calls -> {"stat", "enqueue", "receive", "nil", "error"}]
    /\ next \in [Calls -> Nat \ {0}]
    /\ chans \in [Calls -> SUBSET Idx]
    /\ queue \in [Versions -> SUBSET Chans]
    /\ result \in [Versions -> {"none", "ok", "failed"}]
    /\ building \in BOOLEAN
    /\ worker \in [Chans -> {"none", "spawned", "building"}]
    /\ target \in [Chans -> Versions \cup {NoVersion}]
    /\ notifier \subseteq Chans \X {"ok", "failed"}
    /\ onDisk \subseteq Versions
    /\ builds \in [Versions -> Nat]

Init ==
    /\ versions \in [Calls -> Requests]
    /\ force \in [Calls -> BOOLEAN]
    /\ pc = [c \in Calls |-> "stat"]
    /\ next = [c \in Calls |-> 1]
    /\ chans = [c \in Calls |-> {}]
    /\ queue = [v \in Versions |-> {}]
    /\ result = [v \in Versions |-> "none"]
    /\ building = FALSE
    /\ worker = [ch \in Chans |-> "none"]
    /\ target = [ch \in Chans |-> NoVersion]
    /\ notifier = {}
    /\ onDisk \in SUBSET Versions
    /\ builds = [v \in Versions |-> 0]
-----------------------------------------------------------------------------
(* BuildVersions.                                                          *)

builderVars == <<queue, result, building, worker, target, notifier, onDisk, builds>>

Wanted(c) == versions[c][next[c]]

(* The binary is there and need not be rebuilt. *)
SkipVersion(c) ==
    /\ pc[c] = "stat" /\ next[c] <= Len(versions[c])
    /\ Wanted(c) \in onDisk /\ ~force[c]
    /\ next' = [next EXCEPT ![c] = @ + 1]
    /\ UNCHANGED <<args, pc, chans, builderVars>>

WantVersion(c) ==
    /\ pc[c] = "stat" /\ next[c] <= Len(versions[c])
    /\ Wanted(c) \notin onDisk \/ force[c]
    /\ pc' = [pc EXCEPT ![c] = "enqueue"]
    /\ UNCHANGED <<args, next, chans, builderVars>>

(* Stat fails: the call returns; channels it made before are abandoned. *)
StatFails(c) ==
    /\ pc[c] = "stat" /\ next[c] <= Len(versions[c])
    /\ pc' = [pc EXCEPT ![c] = "error"]
    /\ UNCHANGED <<args, next, chans, builderVars>>

AllRequested(c) ==
    /\ pc[c] = "stat" /\ next[c] > Len(versions[c])
    /\ pc' = [pc EXCEPT ![c] = "receive"]
    /\ UNCHANGED <<args, next, chans, builderVars>>

(* Mutant: a version without callers counts as built. *)
RememberedAlways(v) == queue[v] = {}

(* managedBuildVersion: a remembered verdict is sent at once; otherwise    *)
(* the channel is queued and a worker goroutine started.                   *)
Remembered(v) == result[v] # "none" /\ queue[v] = {}

RequestVersion(c) ==
    LET v  == Wanted(c)
        ch == <<c, next[c]>>
    IN  /\ pc[c] = "enqueue"
        /\ pc' = [pc EXCEPT ![c] = "stat"]
        /\ next' = [next EXCEPT ![c] = @ + 1]
        /\ chans' = [chans EXCEPT ![c] = @ \cup {next[c]}]
        /\ IF Remembered(v)
           THEN /\ notifier' = notifier \cup {<<ch, result[v]>>}
                /\ UNCHANGED <<queue, worker>>
           ELSE /\ queue' = [queue EXCEPT ![v] = @ \cup {ch}]
                /\ worker' = [worker EXCEPT ![ch] = "spawned"]
                /\ UNCHANGED notifier
        /\ UNCHANGED <<args, result, building, target, onDisk, builds>>

(* Mutant: the error is dropped. *)
ReceiveIgnoringError(c, r) ==
    /\ pc[c] = "receive"
    /\ \E i \in chans[c] :
         /\ \A j \in chans[c] : i <= j
         /\ <<<<c, i>>, r>> \in notifier
         /\ notifier' = notifier \ {<<<<c, i>>, r>>}
         /\ chans' = [chans EXCEPT ![c] = @ \ {i}]
    /\ UNCHANGED <<args, pc, next, queue, result, building, worker, target, onDisk, builds>>

(* The channels are read in order; the first error is returned. *)
Receive(c, r) ==
    /\ pc[c] = "receive"
    /\ \E i \in chans[c] :
         /\ \A j \in chans[c] : i <= j
         /\ <<<<c, i>>, r>> \in notifier
         /\ notifier' = notifier \ {<<<<c, i>>, r>>}
         /\ chans' = [chans EXCEPT ![c] = @ \ {i}]
    /\ pc' = IF r = "failed" THEN [pc EXCEPT ![c] = "error"] ELSE pc
    /\ UNCHANGED <<args, next, queue, result, building, worker, target, onDisk, builds>>

(* Mutant: the call does not wait for its channels. *)
AllReceivedEarly(c) ==
    /\ pc[c] = "receive"
    /\ pc' = [pc EXCEPT ![c] = "nil"]
    /\ UNCHANGED <<args, next, chans, builderVars>>

AllReceived(c) ==
    /\ pc[c] = "receive" /\ chans[c] = {}
    /\ pc' = [pc EXCEPT ![c] = "nil"]
    /\ UNCHANGED <<args, next, chans, builderVars>>
-----------------------------------------------------------------------------
(* threadedUpdateBuilds.                                                   *)

(* The selection at the head of the loop, on the queues q: a version with  *)
(* the most waiting callers, or none.                                      *)
MostWanted(q) == {v \in Versions : /\ q[v] # {}
                                   /\ \A w \in Versions : Cardinality(q[w]) <= Cardinality(q[v])}

(* Mutant: the flag stays set when there is nothing to build. *)
SelectKeepsFlag(ch, q) ==
    IF \A v \in Versions : q[v] = {}
    THEN /\ worker' = [worker EXCEPT ![ch] = "none"]
         /\ target' = [target EXCEPT ![ch] = NoVersion]
         /\ UNCHANGED <<building, builds>>
    ELSE \E v \in MostWanted(q) :
         /\ building' = TRUE
         /\ worker' = [worker EXCEPT ![ch] = "building"]
         /\ target' = [target EXCEPT ![ch] = v]
         /\ builds' = [builds EXCEPT ![v] = @ + 1]

Select(ch, q) ==
    IF \A v \in Versions : q[v] = {}
    THEN /\ building' = FALSE
         /\ worker' = [worker EXCEPT ![ch] = "none"]
         /\ target' = [target EXCEPT ![ch] = NoVersion]
         /\ UNCHANGED builds
    ELSE \E v \in MostWanted(q) :
         /\ building' = TRUE
         /\ worker' = [worker EXCEPT ![ch] = "building"]
         /\ target' = [target EXCEPT ![ch] = v]
         /\ builds' = [builds EXCEPT ![v] = @ + 1]

(* Mutant: a worker does not look at the flag. *)
WorkerBeginsAnyway(ch) ==
    /\ worker[ch] = "spawned"
    /\ Select(ch, queue)
    /\ UNCHANGED <<args, callVars, queue, result, notifier, onDisk>>

WorkerBegins(ch) ==
    /\ worker[ch] = "spawned" /\ ~building
    /\ Select(ch, queue)
    /\ UNCHANGED <<args, callVars, queue, result, notifier, onDisk>>

WorkerReturns(ch) ==
    /\ worker[ch] = "spawned" /\ building
    /\ worker' = [worker EXCEPT ![ch] = "none"]
    /\ UNCHANGED <<args, callVars, queue, result, building, target, notifier, onDisk, builds>>

(* buildSiad writes the binary, before the last of its steps. *)
BinaryWritten(ch) ==
    /\ worker[ch] = "building"
    /\ onDisk' = onDisk \cup {target[ch]}
    /\ UNCHANGED <<args, callVars, queue, result, building, worker, target, notifier, builds>>

(* Mutant: the callers stay in the queue. *)
BuildEndsKeepingQueue(ch, r) ==
    /\ worker[ch] = "building"
    /\ r = "ok" => target[ch] \in onDisk
    /\ notifier' = notifier \cup (queue[target[ch]] \X {r})
    /\ result' = [result EXCEPT ![target[ch]] = r]
    /\ Select(ch, queue)
    /\ UNCHANGED <<args, callVars, queue, onDisk>>

(* buildSiad returned r: notify all callers, also those that came during   *)
(* the build, remember r, go round the loop.                               *)
BuildEnds(ch, r) ==
    LET v == target[ch]
        q == [queue EXCEPT ![v] = {}]
    IN  /\ worker[ch] = "building"
        /\ r = "ok" => v \in onDisk
        /\ notifier' = notifier \cup (queue[v] \X {r})
        /\ queue' = q
        /\ result' = [result EXCEPT ![v] = r]
        /\ Select(ch, q)
        /\ UNCHANGED <<args, callVars, onDisk>>
-----------------------------------------------------------------------------
CallStep(c) ==
    \/ SkipVersion(c) \/ WantVersion(c) \/ StatFails(c) \/ AllRequested(c)
    \/ RequestVersion(c)
    \/ \E r \in {"ok", "failed"} : Receive(c, r)
    \/ AllReceived(c)

WorkerStep(ch) ==
    \/ WorkerBegins(ch) \/ WorkerReturns(ch) \/ BinaryWritten(ch)
    \/ \E r \in {"ok", "failed"} : BuildEnds(ch, r)

Next == (\E c \in Calls : CallStep(c)) \/ (\E ch \in Chans : WorkerStep(ch))

Spec == Init /\ [][Next]_vars

(* The goroutines are scheduled, and a build ends: the commands it runs do *)
(* (building twice from one binary is no step, so BuildEnds gets its own). *)
Fairness ==
    /\ \A c \in Calls : WF_vars(CallStep(c))
    /\ \A ch \in Chans : /\ WF_vars(WorkerBegins(ch) \/ WorkerReturns(ch))
                         /\ WF_vars(\E r \in {"ok", "failed"} : BuildEnds(ch, r))

FairSpec == Spec /\ Fairness
-----------------------------------------------------------------------------
(* Properties.                                                             *)

(* "It makes sure that at most only one build worker is running at any     *)
(* time" (build_manager.go:110): builds share one Sia checkout.            *)
AtMostOneBuild ==
    \A ch, dh \in Chans : worker[ch] = "building" /\ worker[dh] = "building" => ch = dh

(* "If several tests request to build the same siad version, the version   *)
(* is built just once" (build_manager.go:49), however requests, ends of    *)
(* builds and starts of workers interleave.                                *)
BuiltAtMostOnce == \A v \in Versions : builds[v] <= 1

(* A queued request is never stranded: a worker builds, or one is about to *)
(* look at the queue.                                                      *)
NoStrandedRequest ==
    (\E v \in Versions : queue[v] # {}) => \E ch \in Chans : worker[ch] \in {"spawned", "building"}

(* A channel that a call will still read is queued, or has one goroutine   *)
(* that sends the version's verdict on it, never neither and never two.    *)
OneAnswerPerChannel ==
    \A c \in Calls : \A i \in chans[c] :
        LET v == versions[c][i]
            answers == {n \in notifier : n[1] = <<c, i>>}
        IN  IF <<c, i>> \in queue[v] THEN answers = {} ELSE answers = {<<<<c, i>>, result[v]>>}

(* A call returns nil only when every binary it asked for exists. *)
NilMeansOnDisk ==
    \A c \in Calls : pc[c] = "nil" => \A i \in 1 .. Len(versions[c]) : versions[c][i] \in onDisk

(* BuildVersions "blocks until all the requested versions are built", and  *)
(* no longer: every call returns.                                          *)
EveryCallReturns == \A c \in Calls : <>(pc[c] \in {"nil", "error"})

(* "If the force flag is set to true, the binaries are always rebuilt"     *)
(* (build_manager.go:46): a forced request is queued for a build.          *)
ForcedRequestIsQueued ==
    [][\A c \in Calls : pc[c] = "enqueue" /\ pc'[c] # "enqueue" /\ force[c] =>
            <<c, next[c]>> \in queue'[Wanted(c)]]_vars

(* Why these hold: the flag says whether a worker builds; what a worker    *)
(* builds has a queue and no verdict yet; a version with a verdict has no  *)
(* queue, and never gets one again; a version whose build began has its    *)
(* verdict or is being built.  IInv is inductive.                          *)
FlagIsExact == building <=> \E ch \in Chans : worker[ch] = "building"
BuildingIsPending ==
    \A ch \in Chans : worker[ch] = "building" =>
        /\ target[ch] \in Versions
        /\ result[target[ch]] = "none" /\ queue[target[ch]] # {}
VerdictIsFinal == \A v \in Versions : result[v] # "none" => queue[v] = {}
BuildIsAccounted ==
    \A v \in Versions : builds[v] # 0 =>
        \/ result[v] # "none"
        \/ \E ch \in Chans : worker[ch] = "building" /\ target[ch] = v
RequestInRange == \A c \in Calls : pc[c] = "enqueue" => next[c] <= Len(versions[c])
WorkerIsOfPastRequest ==
    \A c \in Calls, i \in Idx : worker[<<c, i>>] # "none" => i < next[c]
IInv ==
    /\ TypeOK
    /\ AtMostOneBuild /\ BuiltAtMostOnce /\ NoStrandedRequest
    /\ FlagIsExact /\ BuildingIsPending /\ VerdictIsFinal /\ BuildIsAccounted
    /\ RequestInRange /\ WorkerIsOfPastRequest

(* Why a nil is honest: what waits in a queue is a channel of a request    *)
(* for that version; what is being sent is the version's verdict; a channel *)
(* still to be read waits or is being sent on; a good verdict has a binary *)
(* behind it; a version the call is done with is on the disk.  With IInv,  *)
(* DeliveryInv is inductive.                                               *)
IsRequest(c, i) == i < next[c] /\ i \in 1 .. Len(versions[c])
QueueIsOfVersion ==
    \A v \in Versions : \A c \in Calls, i \in Idx :
        <<c, i>> \in queue[v] => IsRequest(c, i) /\ versions[c][i] = v
AnswerIsVerdict ==
    \A c \in Calls, i \in Idx, r \in {"ok", "failed"} :
        <<<<c, i>>, r>> \in notifier => IsRequest(c, i) /\ result[versions[c][i]] = r
PendingIsAnswered ==
    \A c \in Calls : \A i \in chans[c] :
        /\ IsRequest(c, i)
        /\ \/ <<c, i>> \in queue[versions[c][i]]
           \/ <<<<c, i>>, result[versions[c][i]]>> \in notifier
OkIsOnDisk == \A v \in Versions : result[v] = "ok" => v \in onDisk
SettledIsOnDisk ==
    \A c \in Calls : pc[c] # "error" =>
        \A i \in 1 .. Len(versions[c]) :
            i < next[c] /\ i \notin chans[c] => versions[c][i] \in onDisk
ReadAfterRequests ==
    \A c \in Calls : /\ pc[c] \in {"receive", "nil"} => next[c] > Len(versions[c])
                     /\ pc[c] = "nil" => chans[c] = {}
DeliveryInv ==
    /\ QueueIsOfVersion /\ AnswerIsVerdict /\ PendingIsAnswered
    /\ OkIsOnDisk /\ SettledIsOnDisk /\ ReadAfterRequests

(* A verdict is for the life of the process: it is never replaced, and the *)
(* version is not built again (build_manager.go:87), although requests for *)
(* it, forced ones too, keep coming and find its queue empty.              *)
VerdictStays ==
    [][\A v \in Versions : result[v] # "none" =>
           result'[v] = result[v] /\ builds'[v] = builds[v]]_vars

(* The builder implements BuildService. *)
Service == INSTANCE BuildService WITH
    asked    <- [c \in Calls |-> {versions[c][i] : i \in 1 .. Len(versions[c])}],
    verdict  <- result,
    returned <- [c \in Calls |-> IF pc[c] \in {"nil", "error"} THEN pc[c] ELSE "no"]
ImplementsService == Service!Spec
=============================================================================
