-------------------------------- MODULE Ant --------------------------------
(***************************************************************************)
(* One ant: the siad process it owns, the wallet of that siad, the job     *)
(* runner and the goroutines of its jobs, over New, StartJob, Close,       *)
(* StartSiad and UpdateSiad (ant/ant.go), newSiad, waitForFullSetup and    *)
(* stopSiad (ant/siad.go), newJobRunner and Stop (ant/jobrunner.go).       *)
(*                                                                         *)
(* The owner of the ant (an antfarm, a test) calls one operation at a      *)
(* time; pc and op say where in which operation it is.  Goroutines of      *)
(* jobs, the siad processes and the owner interleave freely.  A siad may   *)
(* crash at any moment and every API call may fail.                        *)
(*                                                                         *)
(* Every New and every StartSiad spawns at most one siad and one job       *)
(* runner for it: both are numbered by the generation gen of the siad.     *)
(***************************************************************************)
EXTENDS Naturals, Sequences, FiniteSets

CONSTANTS
    Seeds,        \* wallet seeds
    NoSeed,       \* the empty seed string
    MiningSlots,  \* goroutines of jobs that do not wait for the farm's sync
    SyncSlots,    \* goroutines of jobs that do
    ChildSlots,   \* goroutines started by a running job (renter threads)
    JobLists,     \* the job lists that an ant's configuration may hold
    MaxGens       \* bound: siad processes spawned over the ant's life

ASSUME SeedsAssumption == NoSeed \notin Seeds
ASSUME GensAssumption == MaxGens \in Nat \ {0}

JobKinds == {"mining", "syncing", "unknown"}
ASSUME JobListsAssumption == JobLists \subseteq Seq(JobKinds)

Gens  == 1 .. MaxGens
Slots == MiningSlots \cup SyncSlots \cup ChildSlots

VARIABLES
    siad,      \* state of the process of each generation
    gen,       \* the latest generation
    unlocked,  \* is the wallet of the latest siad unlocked
    wallet,    \* seed of the wallet in the data directory, NoSeed if none
    given,     \* Config.InitialWalletSeed
    jobs,      \* Config.Jobs, the balance maintainer appended when desired
    cur,       \* a.siad, 0 before the ant exists
    jr,        \* a.Jr, 0 before the ant has one
    gate,      \* thread group of each runner: "none", "open", "stopped"
    seed,      \* StaticWalletSeed of each runner
    thread,    \* state of each goroutine of each runner
    op, pc,    \* the owner's operation and its program counter
    next,      \* index of the next job that New or StartSiad starts
    victim,    \* the process that stopSiad was called for
    stopErr,   \* did Jr.Stop return an error during this Close
    up,        \* the last operation left the ant running, without error
    synced     \* the farm's antsSyncWG is done

siadVars   == <<siad, gen, unlocked>>
walletVars == <<wallet, given>>
jrVars     == <<jr, gate, seed>>
ownerVars  == <<op, pc, next, victim, stopErr, up>>
vars == <<siad, gen, unlocked, wallet, given, jobs, cur, jr, gate, seed,
          thread, op, pc, next, victim, stopErr, up, synced>>

SlotsOf(kind) == CASE kind = "mining"  -> MiningSlots
                   [] kind = "syncing" -> SyncSlots
                   [] OTHER            -> {}

Answering == {"booting", "up"}              \* the API may answer
Running   == {"booting", "up", "leaving"}   \* alive and not killed
Active    == {"waiting", "running"}         \* between TG.Add and TG.Done

TypeOK ==
    /\ siad \in [Gens -> {"none", "booting", "up", "leaving", "killed", "dead"}]
    /\ gen \in 0 .. MaxGens
    /\ unlocked \in BOOLEAN
    /\ wallet \in Seeds \cup {NoSeed}
    /\ given \in Seeds \cup {NoSeed}
    /\ jobs \in Seq(JobKinds)
    /\ cur \in 0 .. MaxGens
    /\ jr \in 0 .. MaxGens
    /\ gate \in [Gens -> {"none", "open", "stopped"}]
    /\ seed \in [Gens -> Seeds \cup {NoSeed}]
    /\ thread \in [Gens -> [Slots -> {"free", "spawned", "waiting", "running", "done"}]]
    /\ op \in {"New", "StartSiad", "UpdateSiad", "Close"}
    /\ pc \in {"idle", "gone", "newSiad", "fullSetup", "wallet", "unlock", "warmUp",
               "startJobs", "jrStop", "jrWait", "stopReq", "stopWait"}
    /\ next \in 1 .. Len(jobs) + 1
    /\ victim \in 0 .. MaxGens
    /\ stopErr \in BOOLEAN
    /\ up \in BOOLEAN
    /\ synced \in BOOLEAN
-----------------------------------------------------------------------------
(* The ant is being created: New has been called with some configuration,  *)
(* over a data directory that may hold the wallet of an earlier ant.       *)
Init ==
    /\ siad = [g \in Gens |-> "none"]
    /\ gen = 0
    /\ unlocked = FALSE
    /\ wallet \in Seeds \cup {NoSeed}
    /\ given \in Seeds \cup {NoSeed}
    /\ jobs \in JobLists
    /\ cur = 0
    /\ jr = 0
    /\ gate = [g \in Gens |-> "none"]
    /\ seed = [g \in Gens |-> NoSeed]
    /\ thread = [g \in Gens |-> [s \in Slots |-> "free"]]
    /\ op = "New" /\ pc = "newSiad"
    /\ next = 1
    /\ victim = 0
    /\ stopErr = FALSE
    /\ up = FALSE
    /\ synced \in BOOLEAN

(* An operation returns to its caller.  A failed New returns no ant. *)
Return(ok) ==
    /\ pc' = IF op = "New" /\ ~ok THEN "gone" ELSE "idle"
    /\ up' = (ok /\ op # "Close")
    /\ UNCHANGED <<op, next, victim, stopErr>>

(* Call stopSiad for process g. *)
CallStopSiad(g) ==
    /\ pc' = "stopReq"
    /\ victim' = g
    /\ UNCHANGED <<op, next, stopErr, up>>

Goto(label) ==
    /\ pc' = label
    /\ UNCHANGED <<op, next, victim, stopErr, up>>
-----------------------------------------------------------------------------
(* newSiad and waitForFullSetup.                                           *)

(* A check before cmd.Start fails: no process, newSiad returns an error. *)
PreflightFails ==
    /\ pc = "newSiad"
    /\ Return(FALSE)
    /\ UNCHANGED <<siadVars, walletVars, jobs, cur, jrVars, thread, synced>>

(* The process is spawned.  It may unlock an existing wallet by itself: it *)
(* inherits the environment of the farm.                                   *)
SpawnSiad ==
    /\ pc = "newSiad"
    /\ gen < MaxGens
    /\ gen' = gen + 1
    /\ siad' = [siad EXCEPT ![gen'] = "booting"]
    /\ unlocked' \in (IF wallet = NoSeed THEN {FALSE} ELSE BOOLEAN)
    /\ Goto("fullSetup")
    /\ UNCHANGED <<walletVars, jobs, cur, jrVars, thread, synced>>

(* waitForFullSetup read "Finished full setup": newSiad returns the        *)
(* process and the caller stores it in a.siad.                             *)
SetupFinished ==
    /\ pc = "fullSetup"
    /\ siad[gen] = "up"
    /\ cur' = gen
    /\ Goto("wallet")
    /\ UNCHANGED <<siadVars, walletVars, jobs, jrVars, thread, synced>>

(* The process exited during setup: newSiad returns an error. *)
SetupExited ==
    /\ pc = "fullSetup"
    /\ siad[gen] = "dead"
    /\ Return(FALSE)
    /\ UNCHANGED <<siadVars, walletVars, jobs, cur, jrVars, thread, synced>>

(* Mutant: the timeout only returns its error. *)
SetupTimeoutLeavesSiad ==
    /\ pc = "fullSetup"
    /\ siad[gen] # "dead"
    /\ Return(FALSE)
    /\ UNCHANGED <<siadVars, walletVars, jobs, cur, jrVars, thread, synced>>

(* The setup timeout: the process is stopped, newSiad returns an error. *)
SetupTimeout ==
    /\ pc = "fullSetup"
    /\ siad[gen] # "dead"
    /\ CallStopSiad(gen)
    /\ UNCHANGED <<siadVars, walletVars, jobs, cur, jrVars, thread, synced>>
-----------------------------------------------------------------------------
(* newJobRunner and recreateJobRunner.                                     *)

(* existingWalletSeed: the configured seed for New, the seed of the        *)
(* previous runner for StartSiad.                                          *)
ExistingSeed == IF op = "New" THEN given ELSE seed[jr]

(* The runner is complete and assigned to a.Jr. *)
InstallRunner ==
    /\ gate' = [gate EXCEPT ![gen] = "open"]
    /\ jr' = gen
    /\ Goto(IF op = "New" THEN "startJobs" ELSE "warmUp")

(* Mutant: the seed is not asked for. *)
AdoptWithoutSeed ==
    /\ pc = "wallet"
    /\ siad[gen] = "up"
    /\ unlocked /\ ExistingSeed = NoSeed
    /\ InstallRunner
    /\ UNCHANGED <<siadVars, walletVars, jobs, cur, seed, thread, synced>>

(* The wallet is unlocked and no seed was asked for: take its seed. *)
AdoptUnlockedWallet ==
    /\ pc = "wallet"
    /\ siad[gen] = "up"
    /\ unlocked /\ ExistingSeed = NoSeed
    /\ seed' = [seed EXCEPT ![gen] = wallet]
    /\ InstallRunner
    /\ UNCHANGED <<siadVars, walletVars, jobs, cur, thread, synced>>

(* Initialise a wallet, with a fresh seed or with the given one, unless    *)
(* the data directory holds one; remember the seed that must unlock it.    *)
InitWallet ==
    /\ pc = "wallet"
    /\ siad[gen] = "up"
    /\ ~(unlocked /\ ExistingSeed = NoSeed)
    /\ \E s \in (IF wallet = NoSeed /\ ExistingSeed = NoSeed THEN Seeds ELSE {ExistingSeed}) :
         /\ seed' = [seed EXCEPT ![gen] = s]
         /\ wallet' = IF wallet = NoSeed THEN s ELSE wallet
    /\ Goto("unlock")
    /\ UNCHANGED <<siadVars, given, jobs, cur, jr, gate, thread, synced>>

(* Unlocking succeeds only with the wallet's own seed. *)
UnlockWallet ==
    /\ pc = "unlock"
    /\ siad[gen] = "up"
    /\ seed[gen] = wallet
    /\ unlocked' = TRUE
    /\ InstallRunner
    /\ UNCHANGED <<siad, gen, walletVars, jobs, cur, seed, thread, synced>>

(* An API call fails, or the seed does not match: the deferred function    *)
(* stops the new process.  The ant keeps its previous runner.              *)
RunnerFails ==
    /\ pc \in {"wallet", "unlock"}
    /\ CallStopSiad(gen)
    /\ UNCHANGED <<siadVars, walletVars, jobs, cur, jrVars, thread, synced>>
-----------------------------------------------------------------------------
(* The tail of New and StartSiad.                                          *)

(* Warm-up is over and checkforipviolation is set where configured. *)
WarmUpOver ==
    /\ pc = "warmUp"
    /\ Goto("startJobs")
    /\ UNCHANGED <<siadVars, walletVars, jobs, cur, jrVars, thread, synced>>

(* Mutant: err is redeclared, the deferred function sees nil. *)
RenterPostErrorUnseen ==
    /\ pc = "warmUp"
    /\ Return(FALSE)
    /\ UNCHANGED <<siadVars, walletVars, jobs, cur, jrVars, thread, synced>>

(* RenterPost fails. *)
RenterPostFails ==
    /\ pc = "warmUp"
    /\ CallStopSiad(gen)
    /\ UNCHANGED <<siadVars, walletVars, jobs, cur, jrVars, thread, synced>>

(* StartJob: the goroutine of a known job is started on runner a.Jr. *)
Spawn(kind) ==
    \E s \in SlotsOf(kind) :
        /\ thread[jr][s] = "free"
        /\ thread' = [thread EXCEPT ![jr][s] = "spawned"]

(* Mutant: the loop's index is advanced twice. *)
StartEveryOtherJob ==
    /\ pc = "startJobs"
    /\ next <= Len(jobs)
    /\ Spawn(jobs[next])
    /\ next' = next + 2
    /\ UNCHANGED <<op, pc, victim, stopErr, up>>
    /\ UNCHANGED <<siadVars, walletVars, jobs, cur, jrVars, synced>>

StartNextJob ==
    /\ pc = "startJobs"
    /\ next <= Len(jobs)
    /\ Spawn(jobs[next])
    /\ next' = next + 1
    /\ UNCHANGED <<op, pc, victim, stopErr, up>>
    /\ UNCHANGED <<siadVars, walletVars, jobs, cur, jrVars, synced>>

(* "no such job": the deferred function stops siad; jobs started before    *)
(* are not told.                                                           *)
NoSuchJob ==
    /\ pc = "startJobs"
    /\ next <= Len(jobs)
    /\ SlotsOf(jobs[next]) = {}
    /\ CallStopSiad(gen)
    /\ UNCHANGED <<siadVars, walletVars, jobs, cur, jrVars, thread, synced>>

AllJobsStarted ==
    /\ pc = "startJobs"
    /\ next > Len(jobs)
    /\ Return(TRUE)
    /\ UNCHANGED <<siadVars, walletVars, jobs, cur, jrVars, thread, synced>>
-----------------------------------------------------------------------------
(* Calls of the owner on an ant that New returned.                         *)

StartJob(kind) ==
    /\ pc = "idle" /\ up
    /\ Spawn(kind)
    /\ UNCHANGED <<siadVars, walletVars, jobs, cur, jrVars, ownerVars, synced>>

(* StartSiad is called "on the previously closed ant", or after a failed   *)
(* start.                                                                  *)
StartSiad ==
    /\ pc = "idle" /\ ~up /\ gen < MaxGens
    /\ op' = "StartSiad" /\ pc' = "newSiad" /\ next' = 1
    /\ UNCHANGED <<victim, stopErr, up>>
    /\ UNCHANGED <<siadVars, walletVars, jobs, cur, jrVars, thread, synced>>

(* UpdateSiad is Close followed by StartSiad. *)
UpdateSiad ==
    /\ pc = "idle" /\ gen < MaxGens
    /\ op' = "UpdateSiad" /\ pc' = "jrStop" /\ next' = 1
    /\ UNCHANGED <<victim, stopErr, up>>
    /\ UNCHANGED <<siadVars, walletVars, jobs, cur, jrVars, thread, synced>>

Close ==
    /\ pc = "idle"
    /\ op' = "Close" /\ pc' = "jrStop"
    /\ UNCHANGED <<next, victim, stopErr, up>>
    /\ UNCHANGED <<siadVars, walletVars, jobs, cur, jrVars, thread, synced>>

(* The owner of a closed ant empties its data directory and gives its      *)
(* runner the seed of another ant (version-test, restore from seed).       *)
RestoreFromSeed ==
    /\ pc = "idle" /\ op = "Close" /\ gen < MaxGens
    /\ siad[cur] = "dead"
    /\ wallet' = NoSeed
    /\ \E s \in Seeds : seed' = [seed EXCEPT ![jr] = s]
    /\ UNCHANGED <<given, siadVars, jobs, cur, jr, gate, thread, ownerVars, synced>>
-----------------------------------------------------------------------------
(* Jr.Stop and stopSiad.                                                   *)

(* Mutant: Close does not wait for the runner. *)
StopRunnerAndGoOn ==
    /\ pc = "jrStop"
    /\ gate' = [gate EXCEPT ![jr] = "stopped"]
    /\ pc' = "stopReq"
    /\ victim' = cur
    /\ UNCHANGED <<op, next, up, stopErr, siadVars, walletVars, jobs, cur, jr, seed, thread, synced>>

(* The stop signal.  A thread group that was stopped before returns an     *)
(* error at once; Close goes on to stop siad all the same.                 *)
StopRunner ==
    /\ pc = "jrStop"
    /\ stopErr' = (gate[jr] = "stopped")
    /\ gate' = [gate EXCEPT ![jr] = "stopped"]
    /\ IF gate[jr] = "stopped" THEN pc' = "stopReq" ELSE pc' = "jrWait"
    /\ victim' = cur
    /\ UNCHANGED <<op, next, up, siadVars, walletVars, jobs, cur, jr, seed, thread, synced>>

(* Mutant: only goroutines that work are waited for. *)
RunnerStoppedEarly ==
    /\ pc = "jrWait"
    /\ \A s \in Slots : thread[jr][s] # "running"
    /\ Goto("stopReq")
    /\ UNCHANGED <<siadVars, walletVars, jobs, cur, jrVars, thread, synced>>

(* Stop returns when every goroutine that was added is done. *)
RunnerStopped ==
    /\ pc = "jrWait"
    /\ \A s \in Slots : thread[jr][s] \notin Active
    /\ Goto("stopReq")
    /\ UNCHANGED <<siadVars, walletVars, jobs, cur, jrVars, thread, synced>>

(* DaemonStopGet is answered by whichever siad listens on the API address. *)
StopAccepted ==
    /\ pc = "stopReq"
    /\ \E g \in Gens : /\ siad[g] \in Answering
                       /\ siad' = [siad EXCEPT ![g] = "leaving"]
    /\ Goto("stopWait")
    /\ UNCHANGED <<gen, unlocked, walletVars, jobs, cur, jrVars, thread, synced>>

Killed(g) == [siad EXCEPT ![g] = IF siad[g] \in Running THEN "killed" ELSE siad[g]]

(* DaemonStopGet fails: kill the process. *)
StopRefused ==
    /\ pc = "stopReq"
    /\ siad' = Killed(victim)
    /\ Goto("stopWait")
    /\ UNCHANGED <<gen, unlocked, walletVars, jobs, cur, jrVars, thread, synced>>

(* stopSiad returns.  Close returns what Jr.Stop returned.  UpdateSiad     *)
(* goes on with StartSiad unless its Close failed.  A deferred function    *)
(* and waitForFullSetup let New or StartSiad return their error.           *)
AfterStopSiad ==
    IF op = "UpdateSiad" /\ ~stopErr
    THEN /\ op' = "StartSiad" /\ pc' = "newSiad"
         /\ UNCHANGED <<next, victim, stopErr, up>>
    ELSE Return(op = "Close" /\ ~stopErr)

SiadExited ==
    /\ pc = "stopWait"
    /\ siad[victim] = "dead"
    /\ AfterStopSiad
    /\ UNCHANGED <<siadVars, walletVars, jobs, cur, jrVars, thread, synced>>

(* The stop timeout: kill, and return without waiting for the exit. *)
StopTimeout ==
    /\ pc = "stopWait"
    /\ siad[victim] # "dead"
    /\ siad' = Killed(victim)
    /\ AfterStopSiad
    /\ UNCHANGED <<gen, unlocked, walletVars, jobs, cur, jrVars, thread, synced>>
-----------------------------------------------------------------------------
(* The siad processes.                                                     *)

SiadMoves(g, from, to) ==
    /\ siad[g] \in from
    /\ siad' = [siad EXCEPT ![g] = to]
    /\ UNCHANGED <<gen, unlocked, walletVars, jobs, cur, jrVars, thread, ownerVars, synced>>

FullSetup(g)   == SiadMoves(g, {"booting"}, "up")
SiadCrashes(g) == SiadMoves(g, Answering, "dead")
SiadExits(g)   == SiadMoves(g, {"leaving", "killed"}, "dead")
-----------------------------------------------------------------------------
(* The goroutines of the jobs.                                             *)

ThreadMoves(g, s, to) ==
    /\ thread' = [thread EXCEPT ![g][s] = to]
    /\ UNCHANGED <<siadVars, walletVars, jobs, cur, jrVars, ownerVars, synced>>

(* TG.Add: an error after the stop signal, and the job returns. *)
AddThread(g, s) ==
    /\ thread[g][s] = "spawned"
    /\ ThreadMoves(g, s, IF gate[g] = "stopped" THEN "done"
                         ELSE IF s \in SyncSlots THEN "waiting" ELSE "running")

(* waitForAntsSync selects on the sync and on the stop channel. *)
SyncReached(g, s) ==
    /\ thread[g][s] = "waiting" /\ synced
    /\ ThreadMoves(g, s, "running")

(* Mutant: only the sync ends the wait. *)
WaitForSyncOnly(g, s) ==
    /\ thread[g][s] = "waiting" /\ gate[g] = "stopped" /\ synced
    /\ ThreadMoves(g, s, "done")

StopWaiting(g, s) ==
    /\ thread[g][s] = "waiting" /\ gate[g] = "stopped"
    /\ ThreadMoves(g, s, "done")

(* A job returns: it saw the stop signal, or met an error. *)
EndThread(g, s) ==
    /\ thread[g][s] = "running"
    /\ ThreadMoves(g, s, "done")

EndStopped(g, s) == gate[g] = "stopped" /\ EndThread(g, s)

(* A renter starts its uploader, downloader and deleter. *)
SpawnChild(g, s) ==
    /\ \E p \in SyncSlots : thread[g][p] = "running"
    /\ s \in ChildSlots /\ thread[g][s] = "free"
    /\ ThreadMoves(g, s, "spawned")

(* antsSyncWG.Done: module AntFarm says when. *)
FarmSynced ==
    /\ ~synced /\ synced' = TRUE
    /\ UNCHANGED <<siadVars, walletVars, jobs, cur, jrVars, thread, ownerVars>>
-----------------------------------------------------------------------------
OwnerCall == StartSiad \/ UpdateSiad \/ Close \/ RestoreFromSeed
             \/ \E kind \in JobKinds : StartJob(kind)

OwnerStep ==
    \/ PreflightFails \/ SpawnSiad
    \/ SetupFinished \/ SetupExited \/ SetupTimeout
    \/ AdoptUnlockedWallet \/ InitWallet \/ UnlockWallet \/ RunnerFails
    \/ WarmUpOver \/ RenterPostFails
    \/ StartNextJob \/ NoSuchJob \/ AllJobsStarted
    \/ StopRunner \/ RunnerStopped
    \/ StopAccepted \/ StopRefused \/ SiadExited \/ StopTimeout

SiadStep == \E g \in Gens : FullSetup(g) \/ SiadCrashes(g) \/ SiadExits(g)

ThreadStepOf(g, s) == \/ AddThread(g, s) \/ SyncReached(g, s) \/ StopWaiting(g, s)
                      \/ EndThread(g, s) \/ SpawnChild(g, s)

ThreadStep == \E g \in Gens, s \in Slots : ThreadStepOf(g, s)

Next == OwnerCall \/ OwnerStep \/ SiadStep \/ ThreadStep \/ FarmSynced

Spec == Init /\ [][Next]_vars

(* An operation that was called goes on (its waits have timeouts, except   *)
(* Jr.Stop's); a goroutine that sees the stop signal ends.  The latter     *)
(* assumes that siad answers or refuses the call a job is in.              *)
Fairness ==
    /\ WF_vars(OwnerStep)
    /\ \A g \in Gens, s \in Slots :
          WF_vars(StopWaiting(g, s)) /\ WF_vars(EndStopped(g, s))

FairSpec == Spec /\ Fairness
-----------------------------------------------------------------------------
(* Properties.                                                             *)

(* An ant never has two siad processes that nobody has asked to die: two   *)
(* would fight for its ports and its data directory.  Every failing path   *)
(* of New, StartSiad and UpdateSiad has to stop or find dead its process   *)
(* before another one is spawned.                                          *)
OneLiveSiad == \A g, h \in Gens : siad[g] \in Running /\ siad[h] \in Running => g = h

(* "Ensure siad is always stopped if an error is returned" (ant.go:308,    *)
(* ant.go:565) and "Close releases all resources ... including the Siad    *)
(* subprocess" (ant.go:380): whenever no operation runs and the ant is not *)
(* up, each of its processes is dead or has been killed.                   *)
NoSiadWhenDown ==
    pc \in {"idle", "gone"} /\ ~up => \A g \in Gens : siad[g] \notin Running

(* Once Stop has returned no goroutine of that runner works, and none ever *)
(* will, whatever was spawned before or while it stopped.                  *)
Stopped(g) == gate[g] = "stopped" /\ ~(pc = "jrWait" /\ jr = g)
NoJobAfterStop ==
    \A g \in Gens : Stopped(g) => \A s \in Slots : thread[g][s] \notin Active

(* Close stops siad only when no goroutine of any of the ant's runners can *)
(* still call it.                                                          *)
JobsEndBeforeSiad ==
    op \in {"Close", "UpdateSiad"} /\ pc \in {"stopReq", "stopWait"} =>
        \A g \in Gens, s \in Slots : thread[g][s] \notin Active

(* Replacing the runner loses no goroutine: those of an earlier runner     *)
(* have ended or will find it stopped.                                     *)
OldRunnersAreQuiet ==
    \A g \in Gens \ {jr} : \A s \in Slots :
        /\ thread[g][s] \notin Active
        /\ thread[g][s] = "spawned" => gate[g] = "stopped"

(* A started ant knows the seed of its wallet: after any number of         *)
(* updates, failed starts and restores, the runner's StaticWalletSeed is   *)
(* the primary seed of the wallet that siad serves.                        *)
SeedIsWalletSeed == up /\ pc = "idle" => seed[jr] = wallet /\ wallet # NoSeed

(* Every operation returns, with or without an error, whatever siad does.  *)
OperationsReturn == []<>(pc \in {"idle", "gone"})

-----------------------------------------------------------------------------
(* What the safety properties rest on: the inductive invariant.            *)

InSetup == {"fullSetup", "wallet", "unlock", "warmUp", "startJobs"}

(* Which processes and runners the owner's operation works on. *)
OwnerInOrder ==
    /\ op # "New" \/ pc \in {"idle", "startJobs"} => jr \in Gens /\ cur \in Gens
    /\ pc \in InSetup => gen \in Gens
    /\ pc \in InSetup \ {"fullSetup"} => cur = gen
    /\ pc \in {"warmUp", "startJobs"} => jr = gen
    /\ pc \in InSetup \cup {"newSiad"} => op \in {"New", "StartSiad"}
    /\ pc = "warmUp" => op # "New"
    /\ pc \in {"jrStop", "jrWait"} => op \in {"Close", "UpdateSiad"}
    /\ pc = "jrWait" => victim = cur
    /\ pc = "idle" /\ op = "Close" => ~up

(* New has gone through the whole job list before there is an ant. *)
JobsAreKnown ==
    /\ op = "New" /\ pc \in {"newSiad", "fullSetup", "wallet", "unlock"} => next = 1
    /\ pc = "startJobs" => \A i \in 1 .. next - 1 : SlotsOf(jobs[i]) # {}
    /\ op # "New" \/ pc = "idle" => \A i \in 1 .. Len(jobs) : SlotsOf(jobs[i]) # {}

(* A generation has no runner before its wallet is open. *)
GatesInOrder ==
    /\ \A g \in Gens : gate[g] = "none" => \A s \in Slots : thread[g][s] = "free"
    /\ \A g \in Gens : g > gen => gate[g] = "none"
    /\ pc \in {"fullSetup", "wallet", "unlock"} => gate[gen] = "none"
    /\ jr \in Gens => gate[jr] # "none"
    /\ pc = "jrWait" => gate[jr] = "stopped"

(* The present runner is as quiet as the old ones while the ant is down. *)
Quiet(g) ==
    \A s \in Slots : /\ thread[g][s] \notin Active
                     /\ thread[g][s] = "spawned" => gate[g] = "stopped"

Down == \/ pc \in {"newSiad", "fullSetup", "wallet", "unlock", "warmUp"}
        \/ pc = "idle" /\ ~up
        \/ pc \in {"stopReq", "stopWait"} /\ op # "New"

QuietWhenDown == jr \in Gens /\ Down => Quiet(jr)

RunnersInOrder ==
    GatesInOrder /\ NoJobAfterStop /\ OldRunnersAreQuiet /\ QuietWhenDown

(* Only the latest process may run, and it is the one stopSiad is called   *)
(* for.                                                                    *)
LatestIsGone == gen \in Gens => siad[gen] \notin Running
ProcessesInOrder ==
    /\ \A g \in Gens : g > gen => siad[g] = "none"
    /\ \A g \in Gens : g < gen => siad[g] \notin Running
    /\ pc = "newSiad" \/ (pc \in {"idle", "gone"} /\ ~up) => LatestIsGone
    /\ pc \in {"stopReq", "stopWait"} => victim \in Gens /\ (victim = gen \/ LatestIsGone)
    /\ pc \notin {"fullSetup", "stopReq", "stopWait"} /\ cur # gen => LatestIsGone

(* Whose wallet it is, from the unlocking on. *)
WalletInOrder ==
    /\ pc \in {"fullSetup", "wallet"} /\ unlocked => wallet # NoSeed
    /\ pc = "unlock" => wallet # NoSeed
    /\ pc \in {"warmUp", "startJobs"} \/ (pc = "idle" /\ up) =>
            seed[jr] = wallet /\ wallet # NoSeed

(* Every step of the code, whoever takes it, preserves these together: the *)
(* failing paths of ant.go and siad.go leave the process and the runner in *)
(* a state the next StartSiad can start from.                              *)
IInv ==
    /\ TypeOK
    /\ OwnerInOrder /\ JobsAreKnown
    /\ RunnersInOrder
    /\ ProcessesInOrder /\ WalletInOrder
-----------------------------------------------------------------------------
(* Every runner is a StopGate.                                             *)

GateOf(g) == IF gate[g] = "none" THEN "new"
             ELSE IF gate[g] = "open" THEN "open"
             ELSE IF Stopped(g) THEN "drained" ELSE "shut"
InsideOf(g) == {s \in Slots : thread[g][s] \in Active}

Runner(g) == INSTANCE StopGate WITH Members <- Slots, gate <- GateOf(g), inside <- InsideOf(g)

(* Every runner implements StopGate: it starts as a new gate, and each     *)
(* step of the ant is a step of its gate or leaves the gate as it is.      *)
EveryRunnerIsAStopGate ==
    /\ \A g \in Gens : Runner(g)!Init
    /\ [][\A g \in Gens : [Runner(g)!Next]_(Runner(g)!vars)]_vars
=============================================================================
