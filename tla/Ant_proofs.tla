----------------------------- MODULE Ant_proofs -----------------------------
(***************************************************************************)
(* Proofs about Ant, for any seeds, goroutines, job lists and number of    *)
(* siad processes: its inductive invariant, and from it the safety         *)
(* properties of the ant.                                                  *)
(***************************************************************************)
EXTENDS Ant, TLAPS

(* A goroutine that is spawned is one of its runner's. *)
LEMMA SpawnedIsFree ==
  ASSUME NEW kind \in JobKinds, Spawn(kind)
  PROVE  \E s \in Slots : /\ thread[jr][s] = "free"
                          /\ thread' = [thread EXCEPT ![jr][s] = "spawned"]
  BY DEF Spawn, SlotsOf, Slots, JobKinds

(* The types: every step keeps each variable in its set.                   *)
LEMMA TypeStep == ASSUME IInv, [Next]_vars PROVE TypeOK'
<1> USE DEF IInv, TypeOK, siadVars, walletVars, jrVars, ownerVars
<1>1. CASE UNCHANGED vars
  BY <1>1 DEF vars
<1>2. CASE OwnerCall
  <2>1. CASE StartSiad
    BY <2>1 DEF StartSiad
  <2>2. CASE UpdateSiad
    BY <2>2 DEF UpdateSiad
  <2>3. CASE Close
    BY <2>3 DEF Close
  <2>4. CASE RestoreFromSeed
    BY <2>4 DEF RestoreFromSeed
  <2>5. ASSUME NEW kind \in JobKinds, StartJob(kind) PROVE TypeOK'
    <3>1. PICK s \in Slots : thread' = [thread EXCEPT ![jr][s] = "spawned"]
      BY <2>5, SpawnedIsFree DEF StartJob
    <3> QED BY <2>5, <3>1 DEF StartJob
  <2> QED BY <1>2, <2>1, <2>2, <2>3, <2>4, <2>5 DEF OwnerCall
<1>3. CASE OwnerStep
  <2>1. CASE PreflightFails
    BY <2>1 DEF PreflightFails, Return
  <2>2. CASE SpawnSiad
    <3>1. gen' \in 0 .. MaxGens
      BY <2>2, GensAssumption DEF SpawnSiad
    <3>2. unlocked' \in BOOLEAN
      BY <2>2, Zenon DEF SpawnSiad
    <3>3. siad' = [siad EXCEPT ![gen'] = "booting"]
      BY <2>2 DEF SpawnSiad
    <3> QED BY <2>2, <3>1, <3>2, <3>3 DEF SpawnSiad, Goto
  <2>3. CASE SetupFinished
    BY <2>3 DEF SetupFinished, Goto
  <2>4. CASE SetupExited
    BY <2>4 DEF SetupExited, Return
  <2>5. CASE SetupTimeout
    BY <2>5 DEF SetupTimeout, CallStopSiad
  <2>6. CASE AdoptUnlockedWallet
    BY <2>6 DEF AdoptUnlockedWallet, InstallRunner, Goto
  <2>7. CASE InitWallet
    <3>1. ExistingSeed \in Seeds \cup {NoSeed}
      BY <2>7 DEF InitWallet, ExistingSeed, OwnerInOrder, InSetup
    <3>2. PICK t \in Seeds \cup {NoSeed} : /\ seed' = [seed EXCEPT ![gen] = t]
                                            /\ wallet' = IF wallet = NoSeed THEN t ELSE wallet
      BY <2>7, <3>1 DEF InitWallet
    <3>3. /\ seed' \in [Gens -> Seeds \cup {NoSeed}]
          /\ wallet' \in Seeds \cup {NoSeed}
      BY <3>2
    <3> QED BY <2>7, <3>3 DEF InitWallet, Goto
  <2>8. CASE UnlockWallet
    BY <2>8 DEF UnlockWallet, InstallRunner, Goto
  <2>9. CASE RunnerFails
    BY <2>9 DEF RunnerFails, CallStopSiad
  <2>10. CASE WarmUpOver
    BY <2>10 DEF WarmUpOver, Goto
  <2>11. CASE RenterPostFails
    BY <2>11 DEF RenterPostFails, CallStopSiad
  <2>12. CASE StartNextJob
    <3>1. jobs[next] \in JobKinds /\ next + 1 \in 1 .. Len(jobs) + 1
      BY <2>12 DEF StartNextJob
    <3>2. PICK s \in Slots : thread' = [thread EXCEPT ![jr][s] = "spawned"]
      BY <2>12, <3>1, SpawnedIsFree DEF StartNextJob
    <3> QED BY <2>12, <3>1, <3>2 DEF StartNextJob
  <2>13. CASE NoSuchJob
    BY <2>13 DEF NoSuchJob, CallStopSiad
  <2>14. CASE AllJobsStarted
    BY <2>14 DEF AllJobsStarted, Return
  <2>15. CASE StopRunner
    BY <2>15 DEF StopRunner
  <2>16. CASE RunnerStopped
    BY <2>16 DEF RunnerStopped, Goto
  <2>17. CASE StopAccepted
    BY <2>17 DEF StopAccepted, Goto
  <2>18. CASE StopRefused
    BY <2>18 DEF StopRefused, Killed, Goto
  <2>19. CASE SiadExited
    BY <2>19 DEF SiadExited, AfterStopSiad, Return
  <2>20. CASE StopTimeout
    BY <2>20 DEF StopTimeout, Killed, AfterStopSiad, Return
  <2> QED BY <1>3, <2>1, <2>2, <2>3, <2>4, <2>5, <2>6, <2>7, <2>8, <2>9, <2>10, <2>11,
             <2>12, <2>13, <2>14, <2>15, <2>16, <2>17, <2>18, <2>19, <2>20 DEF OwnerStep
<1>4. ASSUME NEW g \in Gens, FullSetup(g) \/ SiadCrashes(g) \/ SiadExits(g) PROVE TypeOK'
  <2>1. PICK to \in {"up", "dead"} : /\ siad' = [siad EXCEPT ![g] = to]
                                     /\ UNCHANGED <<gen, unlocked, walletVars, jobs, cur, jrVars,
                                                    thread, ownerVars, synced>>
    BY <1>4 DEF FullSetup, SiadCrashes, SiadExits, SiadMoves
  <2> QED BY <2>1
<1>5. ASSUME NEW g \in Gens, NEW s \in Slots, ThreadStepOf(g, s) PROVE TypeOK'
  <2>1. PICK to \in {"spawned", "waiting", "running", "done"} : ThreadMoves(g, s, to)
    BY <1>5 DEF ThreadStepOf, AddThread, SyncReached, StopWaiting, EndThread, SpawnChild
  <2> QED BY <2>1 DEF ThreadMoves
<1>6. CASE FarmSynced
  BY <1>6 DEF FarmSynced
<1> QED BY <1>1, <1>2, <1>3, <1>4, <1>5, <1>6 DEF Next, SiadStep, ThreadStep
(* The operations and the job list. *)
LEMMA OwnerStepInOrder == ASSUME IInv, [Next]_vars, TypeOK' PROVE OwnerInOrder' /\ JobsAreKnown'
<1> USE DEF IInv, TypeOK, OwnerInOrder, JobsAreKnown, InSetup, Gens, siadVars, walletVars, jrVars, ownerVars
<1>1. CASE UNCHANGED vars
  BY <1>1 DEF vars
<1>2. CASE OwnerCall
  <2>1. CASE StartSiad
    BY <2>1 DEF StartSiad
  <2>2. CASE UpdateSiad
    BY <2>2 DEF UpdateSiad
  <2>3. CASE Close
    BY <2>3 DEF Close
  <2>4. CASE RestoreFromSeed
    BY <2>4 DEF RestoreFromSeed
  <2>5. ASSUME NEW kind \in JobKinds, StartJob(kind) PROVE OwnerInOrder' /\ JobsAreKnown'
    BY <2>5 DEF StartJob
  <2> QED BY <1>2, <2>1, <2>2, <2>3, <2>4, <2>5 DEF OwnerCall
<1>3. CASE OwnerStep
  <2>1. CASE PreflightFails
    BY <2>1 DEF PreflightFails, Return
  <2>2. CASE SpawnSiad
    BY <2>2 DEF SpawnSiad, Goto
  <2>3. CASE SetupFinished
    BY <2>3 DEF SetupFinished, Goto
  <2>4. CASE SetupExited
    BY <2>4 DEF SetupExited, Return
  <2>5. CASE SetupTimeout
    BY <2>5 DEF SetupTimeout, CallStopSiad
  <2>6. CASE AdoptUnlockedWallet
    BY <2>6 DEF AdoptUnlockedWallet, InstallRunner, Goto
  <2>7. CASE InitWallet
    BY <2>7 DEF InitWallet, Goto
  <2>8. CASE UnlockWallet
    BY <2>8 DEF UnlockWallet, InstallRunner, Goto
  <2>9. CASE RunnerFails
    BY <2>9 DEF RunnerFails, CallStopSiad
  <2>10. CASE WarmUpOver
    <3>1. \A i \in 1 .. next - 1 : i \in 1 .. Len(jobs)
      OBVIOUS
    <3>2. \A i \in 1 .. next - 1 : SlotsOf(jobs[i]) # {}
      BY <2>10, <3>1 DEF WarmUpOver
    <3>3. /\ pc' = "startJobs"
          /\ UNCHANGED <<op, up, next, victim, gen, cur, jr, jobs>>
      BY <2>10 DEF WarmUpOver, Goto
    <3> QED BY <2>10, <3>2, <3>3 DEF WarmUpOver
  <2>11. CASE RenterPostFails
    BY <2>11 DEF RenterPostFails, CallStopSiad
  <2>12. CASE StartNextJob
    <3>1. SlotsOf(jobs[next]) # {} /\ next \in Nat \ {0}
      BY <2>12 DEF StartNextJob, Spawn
    <3>2. \A i \in 1 .. next' - 1 : i \in 1 .. next - 1 \/ i = next
      BY <2>12, <3>1 DEF StartNextJob
    <3>3. \A i \in 1 .. next' - 1 : SlotsOf(jobs'[i]) # {}
      BY <2>12, <3>1, <3>2 DEF StartNextJob
    <3> QED BY <2>12, <3>3 DEF StartNextJob
  <2>13. CASE NoSuchJob
    BY <2>13 DEF NoSuchJob, CallStopSiad
  <2>14. CASE AllJobsStarted
    BY <2>14 DEF AllJobsStarted, Return
  <2>15. CASE StopRunner
    BY <2>15 DEF StopRunner
  <2>16. CASE RunnerStopped
    BY <2>16 DEF RunnerStopped, Goto
  <2>17. CASE StopAccepted
    BY <2>17 DEF StopAccepted, Goto
  <2>18. CASE StopRefused
    BY <2>18 DEF StopRefused, Killed, Goto
  <2>19. CASE SiadExited
    BY <2>19 DEF SiadExited, AfterStopSiad, Return
  <2>20. CASE StopTimeout
    BY <2>20 DEF StopTimeout, Killed, AfterStopSiad, Return
  <2> QED BY <1>3, <2>1, <2>2, <2>3, <2>4, <2>5, <2>6, <2>7, <2>8, <2>9, <2>10, <2>11,
             <2>12, <2>13, <2>14, <2>15, <2>16, <2>17, <2>18, <2>19, <2>20 DEF OwnerStep
<1>4. ASSUME NEW g \in Gens, FullSetup(g) \/ SiadCrashes(g) \/ SiadExits(g) PROVE OwnerInOrder' /\ JobsAreKnown'
  <2>1. CASE FullSetup(g)
    BY <2>1 DEF FullSetup, SiadMoves
  <2>2. CASE SiadCrashes(g)
    BY <2>2 DEF SiadCrashes, SiadMoves
  <2>3. CASE SiadExits(g)
    BY <2>3 DEF SiadExits, SiadMoves
  <2> QED BY <1>4, <2>1, <2>2, <2>3
<1>5. ASSUME NEW g \in Gens, NEW s \in Slots, ThreadStepOf(g, s) PROVE OwnerInOrder' /\ JobsAreKnown'
  <2>1. PICK to : ThreadMoves(g, s, to)
    BY <1>5 DEF ThreadStepOf, AddThread, SyncReached, StopWaiting, EndThread, SpawnChild
  <2> QED BY <2>1 DEF ThreadMoves
<1>6. CASE FarmSynced
  BY <1>6 DEF FarmSynced
<1> QED BY <1>1, <1>2, <1>3, <1>4, <1>5, <1>6 DEF Next, SiadStep, ThreadStep


(* The processes. *)
LEMMA ProcessStepInOrder == ASSUME IInv, [Next]_vars, TypeOK' PROVE ProcessesInOrder'
<1> USE DEF IInv, TypeOK, OwnerInOrder, InSetup, ProcessesInOrder, LatestIsGone, Running, Answering, Gens, siadVars, walletVars, jrVars, ownerVars
<1>1. CASE UNCHANGED vars
  BY <1>1 DEF vars
<1>2. CASE OwnerCall
  <2>1. CASE StartSiad
    BY <2>1 DEF StartSiad
  <2>2. CASE UpdateSiad
    BY <2>2 DEF UpdateSiad
  <2>3. CASE Close
    BY <2>3 DEF Close
  <2>4. CASE RestoreFromSeed
    BY <2>4 DEF RestoreFromSeed
  <2>5. ASSUME NEW kind \in JobKinds, StartJob(kind) PROVE ProcessesInOrder'
    BY <2>5 DEF StartJob
  <2> QED BY <1>2, <2>1, <2>2, <2>3, <2>4, <2>5 DEF OwnerCall
<1>3. CASE OwnerStep
  <2>1. CASE PreflightFails
    BY <2>1 DEF PreflightFails, Return
  <2>2. CASE SpawnSiad
    BY <2>2 DEF SpawnSiad, Goto
  <2>3. CASE SetupFinished
    BY <2>3 DEF SetupFinished, Goto
  <2>4. CASE SetupExited
    BY <2>4 DEF SetupExited, Return
  <2>5. CASE SetupTimeout
    BY <2>5 DEF SetupTimeout, CallStopSiad
  <2>6. CASE AdoptUnlockedWallet
    BY <2>6 DEF AdoptUnlockedWallet, InstallRunner, Goto
  <2>7. CASE InitWallet
    BY <2>7 DEF InitWallet, Goto
  <2>8. CASE UnlockWallet
    BY <2>8 DEF UnlockWallet, InstallRunner, Goto
  <2>9. CASE RunnerFails
    BY <2>9 DEF RunnerFails, CallStopSiad
  <2>10. CASE WarmUpOver
    BY <2>10 DEF WarmUpOver, Goto
  <2>11. CASE RenterPostFails
    BY <2>11 DEF RenterPostFails, CallStopSiad
  <2>12. CASE StartNextJob
    BY <2>12 DEF StartNextJob
  <2>13. CASE NoSuchJob
    BY <2>13 DEF NoSuchJob, CallStopSiad
  <2>14. CASE AllJobsStarted
    BY <2>14 DEF AllJobsStarted, Return
  <2>15. CASE StopRunner
    BY <2>15 DEF StopRunner
  <2>16. CASE RunnerStopped
    BY <2>16 DEF RunnerStopped, Goto
  <2>17. CASE StopAccepted
    BY <2>17 DEF StopAccepted, Goto
  <2>18. CASE StopRefused
    BY <2>18 DEF StopRefused, Killed, Goto
  <2>19. CASE SiadExited
    BY <2>19 DEF SiadExited, AfterStopSiad, Return
  <2>20. CASE StopTimeout
    BY <2>20 DEF StopTimeout, Killed, AfterStopSiad, Return
  <2> QED BY <1>3, <2>1, <2>2, <2>3, <2>4, <2>5, <2>6, <2>7, <2>8, <2>9, <2>10, <2>11,
             <2>12, <2>13, <2>14, <2>15, <2>16, <2>17, <2>18, <2>19, <2>20 DEF OwnerStep
<1>4. ASSUME NEW g \in Gens, FullSetup(g) \/ SiadCrashes(g) \/ SiadExits(g) PROVE ProcessesInOrder'
  <2>1. CASE FullSetup(g)
    BY <2>1 DEF FullSetup, SiadMoves
  <2>2. CASE SiadCrashes(g)
    BY <2>2 DEF SiadCrashes, SiadMoves
  <2>3. CASE SiadExits(g)
    BY <2>3 DEF SiadExits, SiadMoves
  <2> QED BY <1>4, <2>1, <2>2, <2>3
<1>5. ASSUME NEW g \in Gens, NEW s \in Slots, ThreadStepOf(g, s) PROVE ProcessesInOrder'
  <2>1. PICK to : ThreadMoves(g, s, to)
    BY <1>5 DEF ThreadStepOf, AddThread, SyncReached, StopWaiting, EndThread, SpawnChild
  <2> QED BY <2>1 DEF ThreadMoves
<1>6. CASE FarmSynced
  BY <1>6 DEF FarmSynced
<1> QED BY <1>1, <1>2, <1>3, <1>4, <1>5, <1>6 DEF Next, SiadStep, ThreadStep


(* The wallet. *)
LEMMA WalletStepInOrder == ASSUME IInv, [Next]_vars, TypeOK' PROVE WalletInOrder'
<1> USE DEF IInv, TypeOK, OwnerInOrder, InSetup, WalletInOrder, siadVars, walletVars, jrVars, ownerVars
<1>1. CASE UNCHANGED vars
  BY <1>1 DEF vars
<1>2. CASE OwnerCall
  <2>1. CASE StartSiad
    BY <2>1 DEF StartSiad
  <2>2. CASE UpdateSiad
    BY <2>2 DEF UpdateSiad
  <2>3. CASE Close
    BY <2>3 DEF Close
  <2>4. CASE RestoreFromSeed
    BY <2>4 DEF RestoreFromSeed
  <2>5. ASSUME NEW kind \in JobKinds, StartJob(kind) PROVE WalletInOrder'
    BY <2>5 DEF StartJob
  <2> QED BY <1>2, <2>1, <2>2, <2>3, <2>4, <2>5 DEF OwnerCall
<1>3. CASE OwnerStep
  <2>1. CASE PreflightFails
    BY <2>1 DEF PreflightFails, Return
  <2>2. CASE SpawnSiad
    BY <2>2 DEF SpawnSiad, Goto
  <2>3. CASE SetupFinished
    BY <2>3 DEF SetupFinished, Goto
  <2>4. CASE SetupExited
    BY <2>4 DEF SetupExited, Return
  <2>5. CASE SetupTimeout
    BY <2>5 DEF SetupTimeout, CallStopSiad
  <2>6. CASE AdoptUnlockedWallet
    BY <2>6 DEF AdoptUnlockedWallet, InstallRunner, Goto
  <2>7. CASE InitWallet
    <3>1. PICK t \in IF wallet = NoSeed /\ ExistingSeed = NoSeed THEN Seeds ELSE {ExistingSeed} :
               wallet' = IF wallet = NoSeed THEN t ELSE wallet
      BY <2>7 DEF InitWallet
    <3>2. wallet = NoSeed => t # NoSeed
      BY <3>1, SeedsAssumption
    <3>3. wallet' # NoSeed
      BY <3>1, <3>2
    <3> QED BY <2>7, <3>3 DEF InitWallet, Goto
  <2>8. CASE UnlockWallet
    BY <2>8 DEF UnlockWallet, InstallRunner, Goto
  <2>9. CASE RunnerFails
    BY <2>9 DEF RunnerFails, CallStopSiad
  <2>10. CASE WarmUpOver
    BY <2>10 DEF WarmUpOver, Goto
  <2>11. CASE RenterPostFails
    BY <2>11 DEF RenterPostFails, CallStopSiad
  <2>12. CASE StartNextJob
    BY <2>12 DEF StartNextJob
  <2>13. CASE NoSuchJob
    BY <2>13 DEF NoSuchJob, CallStopSiad
  <2>14. CASE AllJobsStarted
    BY <2>14 DEF AllJobsStarted, Return
  <2>15. CASE StopRunner
    BY <2>15 DEF StopRunner
  <2>16. CASE RunnerStopped
    BY <2>16 DEF RunnerStopped, Goto
  <2>17. CASE StopAccepted
    BY <2>17 DEF StopAccepted, Goto
  <2>18. CASE StopRefused
    BY <2>18 DEF StopRefused, Killed, Goto
  <2>19. CASE SiadExited
    BY <2>19 DEF SiadExited, AfterStopSiad, Return
  <2>20. CASE StopTimeout
    BY <2>20 DEF StopTimeout, Killed, AfterStopSiad, Return
  <2> QED BY <1>3, <2>1, <2>2, <2>3, <2>4, <2>5, <2>6, <2>7, <2>8, <2>9, <2>10, <2>11,
             <2>12, <2>13, <2>14, <2>15, <2>16, <2>17, <2>18, <2>19, <2>20 DEF OwnerStep
<1>4. ASSUME NEW g \in Gens, FullSetup(g) \/ SiadCrashes(g) \/ SiadExits(g) PROVE WalletInOrder'
  <2>1. CASE FullSetup(g)
    BY <2>1 DEF FullSetup, SiadMoves
  <2>2. CASE SiadCrashes(g)
    BY <2>2 DEF SiadCrashes, SiadMoves
  <2>3. CASE SiadExits(g)
    BY <2>3 DEF SiadExits, SiadMoves
  <2> QED BY <1>4, <2>1, <2>2, <2>3
<1>5. ASSUME NEW g \in Gens, NEW s \in Slots, ThreadStepOf(g, s) PROVE WalletInOrder'
  <2>1. PICK to : ThreadMoves(g, s, to)
    BY <1>5 DEF ThreadStepOf, AddThread, SyncReached, StopWaiting, EndThread, SpawnChild
  <2> QED BY <2>1 DEF ThreadMoves
<1>6. CASE FarmSynced
  BY <1>6 DEF FarmSynced
<1> QED BY <1>1, <1>2, <1>3, <1>4, <1>5, <1>6 DEF Next, SiadStep, ThreadStep


(* The runners and their goroutines. *)
LEMMA RunnerStepInOrder == ASSUME IInv, [Next]_vars, TypeOK' PROVE RunnersInOrder'
<1> USE DEF RunnersInOrder, IInv, TypeOK, OwnerInOrder, InSetup, JobsAreKnown, GatesInOrder, NoJobAfterStop, Stopped, OldRunnersAreQuiet, QuietWhenDown, Down, Quiet, Active, siadVars, walletVars, jrVars, ownerVars
<1>1. CASE UNCHANGED vars
  BY <1>1 DEF vars
<1>2. CASE OwnerCall
  <2>1. CASE StartSiad
    BY <2>1 DEF StartSiad
  <2>2. CASE UpdateSiad
    BY <2>2 DEF UpdateSiad
  <2>3. CASE Close
    BY <2>3 DEF Close
  <2>4. CASE RestoreFromSeed
    BY <2>4 DEF RestoreFromSeed
  <2>5. ASSUME NEW kind \in JobKinds, StartJob(kind) PROVE RunnersInOrder'
    <3>1. PICK s \in Slots : thread[jr][s] = "free" /\ thread' = [thread EXCEPT ![jr][s] = "spawned"]
      BY <2>5, SpawnedIsFree DEF StartJob
    <3> QED BY <2>5, <3>1 DEF StartJob
  <2> QED BY <1>2, <2>1, <2>2, <2>3, <2>4, <2>5 DEF OwnerCall
<1>3. CASE OwnerStep
  <2>1. CASE PreflightFails
    BY <2>1 DEF PreflightFails, Return
  <2>2. CASE SpawnSiad
    <3>1. /\ gen' = gen + 1 /\ gen' \in Gens
          /\ pc' = "fullSetup" /\ UNCHANGED <<op, up, jr, gate, thread>>
      BY <2>2, GensAssumption DEF SpawnSiad, Goto, Gens
    <3>2. gate'[gen'] = "none" /\ \A g \in Gens : g > gen' => gate'[g] = "none"
      BY <3>1 DEF Gens
    <3> QED BY <2>2, <3>1, <3>2 DEF SpawnSiad
  <2>3. CASE SetupFinished
    BY <2>3 DEF SetupFinished, Goto
  <2>4. CASE SetupExited
    BY <2>4 DEF SetupExited, Return
  <2>5. CASE SetupTimeout
    BY <2>5 DEF SetupTimeout, CallStopSiad
  <2>6. CASE AdoptUnlockedWallet
    <3>1. /\ gate' = [gate EXCEPT ![gen] = "open"] /\ jr' = gen /\ gen \in Gens
          /\ pc' \in {"startJobs", "warmUp"}
          /\ UNCHANGED <<op, up, gen, thread>>
      BY <2>6 DEF AdoptUnlockedWallet, InstallRunner, Goto
    <3> QED BY <2>6, <3>1 DEF AdoptUnlockedWallet
  <2>7. CASE InitWallet
    BY <2>7 DEF InitWallet, Goto
  <2>8. CASE UnlockWallet
    <3>1. /\ gate' = [gate EXCEPT ![gen] = "open"] /\ jr' = gen /\ gen \in Gens
          /\ pc' \in {"startJobs", "warmUp"}
          /\ UNCHANGED <<op, up, gen, thread>>
      BY <2>8 DEF UnlockWallet, InstallRunner, Goto
    <3> QED BY <2>8, <3>1 DEF UnlockWallet
  <2>9. CASE RunnerFails
    BY <2>9 DEF RunnerFails, CallStopSiad
  <2>10. CASE WarmUpOver
    BY <2>10 DEF WarmUpOver, Goto
  <2>11. CASE RenterPostFails
    BY <2>11 DEF RenterPostFails, CallStopSiad
  <2>12. CASE StartNextJob
    <3>1. jobs[next] \in JobKinds
      BY <2>12 DEF StartNextJob
    <3>2. PICK s \in Slots : thread[jr][s] = "free" /\ thread' = [thread EXCEPT ![jr][s] = "spawned"]
      BY <2>12, <3>1, SpawnedIsFree DEF StartNextJob
    <3> QED BY <2>12, <3>1, <3>2 DEF StartNextJob
  <2>13. CASE NoSuchJob
    BY <2>13 DEF NoSuchJob, CallStopSiad
  <2>14. CASE AllJobsStarted
    <3>1. /\ pc' = "idle" /\ up'
          /\ UNCHANGED <<op, gen, jr, gate, thread>>
      BY <2>14 DEF AllJobsStarted, Return
    <3> QED BY <2>14, <3>1 DEF AllJobsStarted
  <2>15. CASE StopRunner
    BY <2>15 DEF StopRunner
  <2>16. CASE RunnerStopped
    BY <2>16 DEF RunnerStopped, Goto
  <2>17. CASE StopAccepted
    BY <2>17 DEF StopAccepted, Goto
  <2>18. CASE StopRefused
    BY <2>18 DEF StopRefused, Killed, Goto
  <2>19. CASE SiadExited
    BY <2>19 DEF SiadExited, AfterStopSiad, Return
  <2>20. CASE StopTimeout
    BY <2>20 DEF StopTimeout, Killed, AfterStopSiad, Return
  <2> QED BY <1>3, <2>1, <2>2, <2>3, <2>4, <2>5, <2>6, <2>7, <2>8, <2>9, <2>10, <2>11,
             <2>12, <2>13, <2>14, <2>15, <2>16, <2>17, <2>18, <2>19, <2>20 DEF OwnerStep
<1>4. ASSUME NEW g \in Gens, FullSetup(g) \/ SiadCrashes(g) \/ SiadExits(g) PROVE RunnersInOrder'
  <2>1. CASE FullSetup(g)
    BY <2>1 DEF FullSetup, SiadMoves
  <2>2. CASE SiadCrashes(g)
    BY <2>2 DEF SiadCrashes, SiadMoves
  <2>3. CASE SiadExits(g)
    BY <2>3 DEF SiadExits, SiadMoves
  <2> QED BY <1>4, <2>1, <2>2, <2>3
<1>5. ASSUME NEW g \in Gens, NEW s \in Slots, ThreadStepOf(g, s) PROVE RunnersInOrder'
  <2>1. CASE AddThread(g, s)
    BY <2>1 DEF AddThread, ThreadMoves
  <2>2. CASE SyncReached(g, s)
    BY <2>2 DEF SyncReached, ThreadMoves
  <2>3. CASE StopWaiting(g, s) \/ EndThread(g, s)
    <3>1. thread[g][s] \in Active /\ ThreadMoves(g, s, "done")
      BY <2>3 DEF StopWaiting, EndThread
    <3> QED BY <3>1 DEF ThreadMoves
  <2>4. CASE SpawnChild(g, s)
    <3>1. /\ \E p \in Slots : thread[g][p] = "running"
          /\ thread' = [thread EXCEPT ![g][s] = "spawned"]
          /\ UNCHANGED <<op, pc, up, gen, jr, gate>>
      BY <2>4 DEF SpawnChild, ThreadMoves, Slots
    <3>2. g = jr /\ ~Down
      BY <3>1
    <3>3. gate[g] # "none" /\ Down' = Down
      BY <3>1
    <3>4. \A h \in Gens, t \in Slots : thread'[h][t] # thread[h][t] => h = g /\ thread'[h][t] = "spawned"
      BY <3>1
    <3>5. GatesInOrder'
      BY <3>1, <3>3, <3>4
    <3>6. NoJobAfterStop' /\ OldRunnersAreQuiet' /\ QuietWhenDown'
      BY <3>1, <3>2, <3>3, <3>4
    <3> QED BY <3>5, <3>6
  <2> QED BY <1>5, <2>1, <2>2, <2>3, <2>4 DEF ThreadStepOf
<1>6. CASE FarmSynced
  BY <1>6 DEF FarmSynced
<1> QED BY <1>1, <1>2, <1>3, <1>4, <1>5, <1>6 DEF Next, SiadStep, ThreadStep


LEMMA InitIsInOrder == ASSUME Init PROVE IInv
<1> USE DEF Init
<1>1. TypeOK
  <2>1. jobs \in Seq(JobKinds) /\ next \in 1 .. Len(jobs) + 1
    BY JobListsAssumption
  <2>2. 0 \in 0 .. MaxGens
    BY GensAssumption
  <2> QED BY <2>1, <2>2 DEF TypeOK
<1>2. OwnerInOrder /\ JobsAreKnown
  BY DEF OwnerInOrder, JobsAreKnown, InSetup
<1>3. RunnersInOrder
  BY DEF RunnersInOrder, GatesInOrder, NoJobAfterStop, OldRunnersAreQuiet, QuietWhenDown,
         Stopped, Active, Gens
<1>4. ProcessesInOrder /\ WalletInOrder
  BY DEF ProcessesInOrder, LatestIsGone, WalletInOrder, Gens, Running
<1> QED BY <1>1, <1>2, <1>3, <1>4 DEF IInv

(* The inductive invariant: whatever the owner, the siad processes and the *)
(* goroutines of the jobs do, and whichever call fails.                    *)
THEOREM Invariant == Spec => []IInv
<1>1. Init => IInv
  BY InitIsInOrder
<1>2. IInv /\ [Next]_vars => IInv'
  BY TypeStep, OwnerStepInOrder, ProcessStepInOrder, WalletStepInOrder, RunnerStepInOrder DEF IInv
<1> QED BY <1>1, <1>2, PTL DEF Spec

(* Every variable keeps its type.                                          *)
THEOREM TypeCorrect == Spec => []TypeOK
<1>1. IInv => TypeOK
  BY DEF IInv
<1> QED BY <1>1, Invariant, PTL

(* New, StartSiad and UpdateSiad never run two siad processes at a time.   *)
THEOREM OneSiad == Spec => []OneLiveSiad
<1>1. ASSUME IInv PROVE OneLiveSiad
  <2> SUFFICES ASSUME NEW g \in Gens, NEW h \in Gens, siad[g] \in Running, siad[h] \in Running
               PROVE  g = h
    BY DEF OneLiveSiad
  <2>1. ~(g < gen) /\ ~(g > gen) /\ ~(h < gen) /\ ~(h > gen)
    BY <1>1 DEF IInv, ProcessesInOrder, Running
  <2> QED BY <1>1, <2>1 DEF IInv, TypeOK, Gens
<1> QED BY <1>1, Invariant, PTL

(* An operation that leaves the ant down leaves none of its processes.     *)
THEOREM NoSiadLeft == Spec => []NoSiadWhenDown
<1>1. ASSUME IInv PROVE NoSiadWhenDown
  <2> SUFFICES ASSUME pc \in {"idle", "gone"}, ~up, NEW g \in Gens
               PROVE  siad[g] \notin Running
    BY DEF NoSiadWhenDown
  <2>1. g < gen \/ g = gen \/ g > gen
    BY <1>1 DEF IInv, TypeOK, Gens
  <2> QED BY <1>1, <2>1 DEF IInv, ProcessesInOrder, LatestIsGone, Running
<1> QED BY <1>1, Invariant, PTL

(* After the Stop of a runner none of its goroutines works again.          *)
THEOREM JobsEnd == Spec => []NoJobAfterStop
<1>1. IInv => NoJobAfterStop
  BY DEF IInv, RunnersInOrder
<1> QED BY <1>1, Invariant, PTL

(* A new runner takes over only from a quiet one.                          *)
THEOREM OldRunnersEnd == Spec => []OldRunnersAreQuiet
<1>1. IInv => OldRunnersAreQuiet
  BY DEF IInv, RunnersInOrder
<1> QED BY <1>1, Invariant, PTL

(* Close and UpdateSiad stop siad after the last goroutine that uses it.   *)
THEOREM JobsEndFirst == Spec => []JobsEndBeforeSiad
<1>1. ASSUME IInv PROVE JobsEndBeforeSiad
  <2> SUFFICES ASSUME op \in {"Close", "UpdateSiad"}, pc \in {"stopReq", "stopWait"},
                      NEW g \in Gens, NEW s \in Slots
               PROVE  thread[g][s] \notin Active
    BY DEF JobsEndBeforeSiad
  <2>1. CASE g = jr
    BY <1>1, <2>1 DEF IInv, RunnersInOrder, QuietWhenDown, Down, Quiet
  <2>2. CASE g # jr
    BY <1>1, <2>2 DEF IInv, RunnersInOrder, OldRunnersAreQuiet
  <2> QED BY <2>1, <2>2
<1> QED BY <1>1, Invariant, PTL

(* A started ant's runner knows the seed of the wallet siad serves.        *)
THEOREM SeedKept == Spec => []SeedIsWalletSeed
<1>1. IInv => SeedIsWalletSeed
  BY DEF IInv, WalletInOrder, SeedIsWalletSeed
<1> QED BY <1>1, Invariant, PTL
(* Every runner is a StopGate.  A step that moves neither the runner's     *)
(* gate nor a goroutine in or out of it, outside the wait of Stop, is a    *)
(* stutter of the gate.                                                    *)
GateStep(g) == [Runner(g)!Next]_(Runner(g)!vars)

LEMMA GateAtRest ==
  ASSUME NEW g \in Gens, gate'[g] = gate[g], InsideOf(g)' = InsideOf(g),
         (pc = "jrWait" /\ jr = g) <=> (pc' = "jrWait" /\ jr' = g)
  PROVE  GateStep(g)
  BY DEF GateStep, Runner!vars, GateOf, Stopped

LEMMA GateInit == ASSUME Init, NEW g \in Gens PROVE Runner(g)!Init
  BY DEF Init, Runner!Init, GateOf, InsideOf, Active

(* A goroutine that is spawned is not inside yet. *)
LEMMA SpawnedIsOutside ==
  ASSUME TypeOK, NEW h \in Gens, NEW s \in Slots, thread[h][s] = "free",
         thread' = [thread EXCEPT ![h][s] = "spawned"], NEW g \in Gens
  PROVE  InsideOf(g)' = InsideOf(g)
  BY DEF TypeOK, InsideOf, Active

(* The first runner of a generation opens its gate. *)
LEMMA InstallOpens ==
  ASSUME IInv, pc \in {"wallet", "unlock"}, pc' # "jrWait", thread' = thread,
         gate' = [gate EXCEPT ![gen] = "open"], NEW g \in Gens
  PROVE  GateStep(g)
<1> USE DEF IInv, TypeOK
<1>0. gen \in Gens /\ gate[gen] = "none"
  BY DEF OwnerInOrder, InSetup, RunnersInOrder, GatesInOrder
<1>1. InsideOf(g)' = InsideOf(g)
  BY DEF InsideOf
<1>2. CASE g = gen
  <2>1. gate[g] = "none" /\ gate'[g] = "open"
    BY <1>0, <1>2
  <2> QED BY <1>1, <2>1 DEF GateStep, Runner!Next, Runner!Open, GateOf
<1>3. CASE g # gen
  <2>1. gate'[g] = gate[g]
    BY <1>0, <1>3
  <2> QED BY <1>1, <2>1, GateAtRest
<1> QED BY <1>2, <1>3

LEMMA EveryGateStep == ASSUME IInv, [Next]_vars, NEW g \in Gens PROVE GateStep(g)
<1> USE DEF IInv
<1>1. CASE UNCHANGED <<gate, thread, pc, jr>>
  BY <1>1, GateAtRest DEF InsideOf
<1>2. CASE /\ pc # "jrWait" /\ pc' # "jrWait"
           /\ UNCHANGED <<gate, thread>>
  BY <1>2, GateAtRest DEF InsideOf
<1>3. CASE OwnerCall
  <2>1. CASE StartSiad \/ UpdateSiad \/ Close \/ RestoreFromSeed
    BY <1>2, <2>1 DEF StartSiad, UpdateSiad, Close, RestoreFromSeed, jrVars, ownerVars
  <2>2. ASSUME NEW kind \in JobKinds, StartJob(kind) PROVE GateStep(g)
    <3>1. PICK s \in Slots : /\ thread[jr][s] = "free"
                             /\ thread' = [thread EXCEPT ![jr][s] = "spawned"]
      BY <2>2, SpawnedIsFree DEF StartJob
    <3>2. jr \in Gens /\ UNCHANGED <<gate, pc, jr>>
      BY <2>2 DEF StartJob, OwnerInOrder, jrVars, ownerVars
    <3>3. InsideOf(g)' = InsideOf(g)
      BY <3>1, <3>2, SpawnedIsOutside
    <3> QED BY <3>2, <3>3, GateAtRest
  <2> QED BY <1>3, <2>1, <2>2 DEF OwnerCall
<1>4. CASE OwnerStep
  <2>1. CASE PreflightFails \/ SpawnSiad \/ SetupFinished \/ SetupExited \/ SetupTimeout
    BY <1>2, <2>1 DEF PreflightFails, SpawnSiad, SetupFinished, SetupExited, SetupTimeout,
       Return, Goto, CallStopSiad, jrVars
  <2>2. CASE AdoptUnlockedWallet \/ UnlockWallet
    BY <2>2, InstallOpens DEF AdoptUnlockedWallet, UnlockWallet, InstallRunner, Goto
  <2>3. CASE InitWallet \/ RunnerFails \/ WarmUpOver \/ RenterPostFails
    BY <1>2, <2>3 DEF InitWallet, RunnerFails, WarmUpOver, RenterPostFails, Goto, CallStopSiad, jrVars
  <2>4. CASE StartNextJob
    <3>1. jobs[next] \in JobKinds
      BY <2>4 DEF StartNextJob, TypeOK
    <3>2. PICK s \in Slots : /\ thread[jr][s] = "free"
                             /\ thread' = [thread EXCEPT ![jr][s] = "spawned"]
      BY <2>4, <3>1, SpawnedIsFree DEF StartNextJob
    <3>3. jr \in Gens /\ UNCHANGED <<gate, pc, jr>>
      BY <2>4 DEF StartNextJob, OwnerInOrder, jrVars
    <3>4. InsideOf(g)' = InsideOf(g)
      BY <3>2, <3>3, SpawnedIsOutside
    <3> QED BY <3>3, <3>4, GateAtRest
  <2>5. CASE NoSuchJob \/ AllJobsStarted
    BY <1>2, <2>5 DEF NoSuchJob, AllJobsStarted, Return, CallStopSiad, jrVars
  <2>6. CASE StopRunner
    <3>1. /\ pc = "jrStop" /\ jr' = jr /\ jr \in Gens /\ InsideOf(g)' = InsideOf(g)
          /\ gate' = [gate EXCEPT ![jr] = "stopped"]
          /\ pc' = IF gate[jr] = "stopped" THEN "stopReq" ELSE "jrWait"
      BY <2>6 DEF StopRunner, OwnerInOrder, InsideOf
    <3>2. CASE g # jr \/ gate[jr] = "stopped"
      BY <3>1, <3>2, GateAtRest DEF TypeOK
    <3>3. CASE g = jr /\ gate[jr] # "stopped"
      <4>1. gate[g] = "open" /\ gate'[g] = "stopped" /\ pc' = "jrWait"
        BY <3>1, <3>3 DEF TypeOK, RunnersInOrder, GatesInOrder
      <4> QED BY <3>1, <3>3, <4>1 DEF GateStep, Runner!Next, Runner!Shut, GateOf, Stopped
    <3> QED BY <3>2, <3>3
  <2>7. CASE RunnerStopped
    <3>1. /\ pc = "jrWait" /\ pc' = "stopReq" /\ UNCHANGED <<gate, thread, jr>>
          /\ gate[jr] = "stopped" \/ jr \notin Gens
          /\ \A s \in Slots : thread[jr][s] \notin Active
      BY <2>7 DEF RunnerStopped, Goto, jrVars, RunnersInOrder, GatesInOrder
    <3>2. CASE g # jr
      BY <3>1, <3>2, GateAtRest DEF InsideOf
    <3>3. CASE g = jr
      <4>1. InsideOf(g) = {} /\ InsideOf(g)' = {}
        BY <3>1, <3>3 DEF InsideOf
      <4> QED BY <3>1, <3>3, <4>1 DEF GateStep, Runner!Next, Runner!Drain, GateOf, Stopped
    <3> QED BY <3>2, <3>3
  <2>8. CASE StopAccepted \/ StopRefused \/ SiadExited \/ StopTimeout
    BY <1>2, <2>8 DEF StopAccepted, StopRefused, SiadExited, StopTimeout, AfterStopSiad, Return,
       Goto, jrVars
  <2> QED BY <1>4, <2>1, <2>2, <2>3, <2>4, <2>5, <2>6, <2>7, <2>8 DEF OwnerStep
<1>5. CASE SiadStep
  BY <1>1, <1>5 DEF SiadStep, FullSetup, SiadCrashes, SiadExits, SiadMoves, jrVars, ownerVars
<1>6. ASSUME NEW h \in Gens, NEW s \in Slots, ThreadStepOf(h, s) PROVE GateStep(g)
  <2>0. UNCHANGED <<gate, pc, jr>>
    BY <1>6 DEF ThreadStepOf, AddThread, SyncReached, StopWaiting, EndThread, SpawnChild,
       ThreadMoves, jrVars, ownerVars
  <2>1. ASSUME NEW to, ThreadMoves(h, s, to), g # h \/ (thread[h][s] \in Active <=> to \in Active)
        PROVE  GateStep(g)
    <3>1. InsideOf(g)' = InsideOf(g)
      BY <2>1 DEF ThreadMoves, InsideOf, TypeOK
    <3> QED BY <2>0, <3>1, GateAtRest
  <2>2. CASE AddThread(h, s)
    <3>1. PICK to \in {"done", "waiting", "running"} : ThreadMoves(h, s, to) /\ (to = "done" <=> gate[h] = "stopped")
      BY <2>2 DEF AddThread
    <3>2. thread[h][s] = "spawned" /\ gate[h] \in {"open", "stopped"}
      BY <2>2 DEF AddThread, TypeOK, RunnersInOrder, GatesInOrder
    <3>3. CASE g # h \/ to = "done"
      BY <2>1, <3>1, <3>2, <3>3 DEF Active
    <3>4. CASE g = h /\ to # "done"
      <4>1. gate[g] = "open" /\ gate'[g] = "open"
        BY <2>0, <3>1, <3>2, <3>4
      <4>2. s \notin InsideOf(g) /\ InsideOf(g)' = InsideOf(g) \cup {s}
        BY <3>1, <3>2, <3>4 DEF ThreadMoves, InsideOf, Active, TypeOK
      <4> QED BY <4>1, <4>2 DEF GateStep, Runner!Next, Runner!Enter, GateOf
    <3> QED BY <3>3, <3>4
  <2>3. CASE SyncReached(h, s) \/ SpawnChild(h, s)
    BY <2>1, <2>3 DEF SyncReached, SpawnChild, Active
  <2>4. CASE StopWaiting(h, s) \/ EndThread(h, s)
    <3>1. thread[h][s] \in Active /\ ThreadMoves(h, s, "done")
      BY <2>4 DEF StopWaiting, EndThread, Active
    <3>2. CASE g # h
      BY <2>1, <3>1, <3>2
    <3>3. CASE g = h
      <4>1. s \in InsideOf(g) /\ InsideOf(g)' = InsideOf(g) \ {s}
        BY <3>1, <3>3 DEF ThreadMoves, InsideOf, Active, TypeOK
      <4>2. GateOf(g)' = GateOf(g)
        BY <2>0 DEF GateOf, Stopped
      <4> QED BY <4>1, <4>2 DEF GateStep, Runner!Next, Runner!Leave
    <3> QED BY <3>2, <3>3
  <2> QED BY <1>6, <2>2, <2>3, <2>4 DEF ThreadStepOf
<1>7. CASE FarmSynced
  BY <1>1, <1>7 DEF FarmSynced, jrVars, ownerVars
<1>8. CASE UNCHANGED vars
  BY <1>1, <1>8 DEF vars
<1> QED BY <1>3, <1>4, <1>5, <1>6, <1>7, <1>8 DEF Next, ThreadStep

(* Every job runner of the ant implements StopGate: it lets no goroutine   *)
(* in once Stop is called, and Stop returns only when all have left.       *)
THEOREM RunnersAreGates == Spec => EveryRunnerIsAStopGate
<1>1. Init => \A g \in Gens : Runner(g)!Init
  BY GateInit
<1>2. IInv /\ [Next]_vars => [\A g \in Gens : [Runner(g)!Next]_(Runner(g)!vars)]_vars
  BY EveryGateStep DEF GateStep
<1> QED BY <1>1, <1>2, Invariant, PTL DEF Spec, EveryRunnerIsAStopGate
=============================================================================
