# Sia Ant Farm: TLA+ models, model checking and proofs

Sia Ant Farm runs a set of `siad` processes ("ants") with jobs on top of them
(mining, hosting, renting, spending) as an integration test bed. This directory
holds specifications of its concurrent parts, TLC configurations that check them
on small instances, and TLAPS proofs for every value of the constants.

Run them in this directory:

    tlc -config Ant.cfg MCAnt.tla                    # any <file>.cfg with its module
    tlapm Ant_proofs.tla                             # any *_proofs module

`PROJECT.json` lists the runs with their configurations, the mutants of the
specification that show that each property can fail, the map from definitions to
source lines, the hazards and the findings.

## 1. The system

| component | source | state | operations | interacts with |
|---|---|---|---|---|
| ant | `ant/ant.go` | `siad`, `Jr`, `Config`, `SeenBlocks` | `New`, `StartJob`, `Close`, `StartSiad`, `UpdateSiad`, `BlockHeight` | owns a siad process and a job runner; called by the farm and by tests |
| siad process | `ant/siad.go` | the OS process, its output buffer | `newSiad`, `waitForFullSetup`, `stopSiad` | killed on timeouts, may crash by itself |
| job runner | `ant/jobrunner.go` | thread group `StaticTG`, wallet seed | `newJobRunner`, `recreateJobRunner`, `Stop`, `waitForAntsSync` | all jobs add themselves to the thread group; the farm's wait group holds them back |
| antfarm | `antfarm/antfarm.go`, `antfarm/ant.go` | `Ants`, `externalAnts`, `antsSyncWG` | `New`, `startAnts`, `startJobs`, `ConnectAnts`, `waitForAntsToSync`, `PermanentSyncMonitor`, `ServeAPI`, `Close` | starts the ants, then blocks their jobs until they agree on the chain |
| consensus groups | `antfarm/ant.go` | the ants' `SeenBlocks` | `antConsensusGroups`, `ConnectExternalAntfarm` | read by the sync loop and the monitor |
| build manager | `binaries-builder/build_manager.go` | `versionMap`, `building`, a mutex | `BuildVersions`, `managedBuildVersion`, `threadedUpdateBuilds` | callers wait on channels, workers build and notify |
| siad binaries | `binaries-builder/build_binaries.go` | checkouts of Sia and merkletree on disk, the binaries | `buildSiad`, `GetReleases`, `ExcludeVersions` | called by the build manager with its mutex released |
| port assigner | `ant/ant.go:66-205` | `assignedPorts.checking`, `.assigned` | `GetAddr`, `GetAddrs` | process-wide, called by goroutines of parallel tests |
| miner job | `ant/job_miner.go` | `lastBH`, siad's miner | `blockMining` | siad, stop channel |
| balance maintainer | `ant/job_balancemaintainer.go` | `minerRunning`, siad's miner | `balanceMaintainer` | siad, stop channel |
| host job | `ant/job_host.go` | announcement status, storage directory | `jobHost`, `managedWaitAnnounceTransactionInBlockchain` | siad, sync wait group |
| renter job | `ant/job_renter.go` | shared list of files, a mutex | uploader, downloader, deleter | siad, sync wait group |
| small jobs | `job_generic.go`, `job_gateway.go`, `job_wallet_*.go` | none | send coins, connect to peers | siad, sync wait group |
| polling helpers, logger, file utilities, UPnP, command line | `ant/ant.go`, `persist`, `fileutils`, `upnprouter`, `cmd` | none | | |

What is hard here, and what makes each component correct:

* **Ant.** Its owner calls one operation at a time, but goroutines of jobs, the
  siad process and timeouts interleave with it, and each of the about fifteen
  calls of `New`, `StartSiad` and `UpdateSiad` may fail. Correct means: never two
  live processes on the same ports and directory; a failed operation leaves none;
  no job survives the `Stop` of its runner or sees siad stopped under it; the
  runner's wallet seed stays the seed of the wallet; every operation returns.
* **Antfarm.** `antsSyncWG.Done` is the first call `New` defers, so it runs last
  and on every return. Correct means: jobs that need other ants begin only after
  the ants agree; a failed `New` leaves nothing; `Close` inside a failing `New`
  does not deadlock with jobs that wait for `Done`.
* **Build manager.** Requests arrive while a worker is building, a worker may be
  about to leave as a request is queued, and verdicts are remembered. Correct
  means: one build at a time, each version built once, one answer per channel, no
  request stranded, every call returns.
* **Port assigner.** Two sets, one of them read without the mutex, and a deferred
  delete. Correct means: no port is returned twice, nothing stays reserved.
* **Miner jobs.** A flag or a remembered height that is changed before the call it
  describes, and the call may fail. Correct means: the job obeys the stop
  channel, mines while it should and rests while it should.
* **Host job.** The directory, siad's storage folder and the chain outlive the
  goroutine; the announcement is looked for in a chain that grows and reorganises
  meanwhile. Correct means: an announced host offers storage; a lost announcement
  is waited for no longer than the delay, and one that is reorganised away is noticed.
* **Consensus groups.** Ants are asked one after the other, each is compared with what
  the first member of a group has ever seen. Correct means: the groups are those of
  the definition, one group means that the chains have not parted long ago, ants that
  agree are found to agree, ants that do not are reported.
* **siad binaries.** Each build starts on the checkouts the last one, which may have
  failed anywhere, has left. Correct means: a binary is of the version it is named
  for; builds succeed again once commands do; the list of releases is the promised one.
* **Renter job.** Three goroutines and the tests' transfers share siad, a source
  directory and, three of them, a list; the deleter holds the list's mutex over its
  calls to siad. Correct means: what siad holds is in a list and has its source file;
  an upload that was reported stays; a stop ends all of it, wherever it waits.

The list of hazards, with the lines where they bite, is in `PROJECT.json`.

## 2. Modules

| module | models | extends / composes |
|---|---|---|
| `StopGate` | abstract: what a thread group promises | |
| `Ant` | ant, siad process, job runner, goroutines | instantiates `StopGate` once per runner |
| `Ant_proofs` | proofs about `Ant` | `Ant`, `TLAPS` |
| `AntFarm` | farm, its ants in outline, `antsSyncWG` | instantiates `StopGate` once per ant |
| `AntFarm_proofs` | proofs about `AntFarm` | `AntFarm`, `TLAPS` |
| `BuildService` | abstract: what the build manager promises | |
| `BuildManager` | calls, workers, notifiers | instantiates `BuildService` |
| `BuildManager_proofs` | proofs about `BuildManager` | `BuildManager`, `TLAPS` |
| `PortAssigner` | `GetAddr`, `GetAddrs` in goroutines | |
| `PortAssigner_proofs` | proofs about `PortAssigner` | `PortAssigner`, `TLAPS` |
| `BlockMining`, `BalanceMaintainer` | one job each | |
| `HostJob` | the host job, its chain, its restarts | |
| `AntJobs` | one of the three jobs with siad's miner and the stop channel | instantiates `BlockMining`, `BalanceMaintainer`, `HostJob` |
| `AntJobs_proofs` | proofs about `AntJobs` and the modules it composes | `AntJobs`, `TLAPS` |
| `ConsensusGroups` | `antConsensusGroups`, `waitForAntsToSync`, `PermanentSyncMonitor` | |
| `ConsensusGroups_proofs` | proofs about `ConsensusGroups` | `ConsensusGroups`, `TLAPS`, `WellFoundedInduction` |
| `Releases` | `GetReleases`, `ExcludeVersions` as operators | |
| `SiadBuild` | `buildSiad` over the two checkouts | `Releases` |
| `SiadBuild_proofs` | proofs about `SiadBuild` and `Releases` | `SiadBuild`, `TLAPS`, the library's theorem modules |
| `RenterJob` | `renter`, its three goroutines, transfers of a test, a restart | |
| `RenterJob_proofs` | proofs about `RenterJob` | `RenterJob`, `TLAPS` |
| `MCAnt`, `MCAntFarm`, `MCBuildManager`, `MCSiadBuild` | instances for TLC | |

Definitions marked "Mutant" stand before the definition they are a faulty version
of. No specification uses them.

### Ant

The owner's program counter `pc`, with `op` the operation it is in, walks through
the code; one action stands for one call that may block or fail.

| state | code |
|---|---|
| `siad[g]`, `gen` | the process of the g-th `newSiad`: `booting`, `up` (full setup), `leaving` (stop requested), `killed`, `dead` |
| `cur`, `jr` | `a.siad`, `a.Jr` (the number of the `newSiad` it belongs to) |
| `gate[g]` | `StaticTG` of that runner |
| `thread[g][s]` | a goroutine: `spawned` (the go statement), `waiting` (added, in `waitForAntsSync`), `running`, `done` |
| `seed[g]`, `wallet`, `unlocked`, `given` | `StaticWalletSeed`, the wallet on disk, siad's wallet state, `InitialWalletSeed` |
| `next` | index of the job list in the loop at the end of `New` and `StartSiad` |
| `victim`, `stopErr` | arguments and results inside `Close` and `stopSiad` |

`New` and `StartSiad` are `SpawnSiad`, `SetupFinished` (or `SetupExited`,
`SetupTimeout`), one of the four cases of `newJobRunner` (`AdoptUnlockedWallet`,
`InitWallet` and `UnlockWallet`, or `RunnerFails`), `WarmUpOver`, `StartNextJob` per
job, and `AllJobsStarted`. Each failing path ends in `stopReq`, the deferred
`stopSiad`. `Close` is `StopRunner`, `RunnerStopped`, and `stopSiad`
(`StopAccepted`/`StopRefused`, `SiadExited`/`StopTimeout`). Environment actions: siad
finishes its setup, crashes, exits; goroutines add themselves to the thread group,
pass the sync, spawn children (the renter's threads) and end.
`RestoreFromSeed` is what the version tests do between `Close` and `StartSiad`.

Assumptions: the shell that starts siad replaces itself by it, so `Process.Kill`
reaches siad; siad answers or refuses an API call; an ant has one owner, who
does not call an operation while another one runs (so the stop branch of the
warm-up, `ant.go:585-586`, is not taken, and `StartJob` is not called from outside
during `Close`).

### AntFarm

`New` of the farm step by step with every error return, in the order of its
deferred calls. An ant is reduced to `siad[i]`, `gate[i]`, `thread[i]` and the place
`closing[i]` of its `Close`; closes of different ants run in parallel in
`Antfarm.Close` and one after the other in `startAnts`. `wg` is the counter of
`antsSyncWG`. The height is that of one chain and ends at the (scaled-down) ASIC
hardfork height; `agreed` records that `waitForAntsToSync` saw one group.

### BuildManager

One program counter per call of `BuildVersions` and one state per goroutine
`threadedUpdateBuilds`; sections under the mutex are atomic, the build
(`BinaryWritten`, then `BuildEnds`) and the `Stat` of a binary are not. `notifier` is
the set of goroutines blocked in `ch <- err`; channels are unbuffered and read
in order. `builds` is a history variable. A build may write its binary and still fail.

### PortAssigner

`Draw` is the critical section that looks into `checking` and reserves; `Lookup`
reads `assigned` without the mutex, so `LookupRace` may end the process (Go
detects a concurrent map read and write); `ReleaseKept` and `ReleaseFailed` are
the deferred delete. `Occupy` is another process that begins to listen.

### AntJobs: BlockMining, BalanceMaintainer, HostJob

The three goroutines are translated call by call, each call may fail. `AntJobs` gives
them the variables they share (`minerOn`, `stopped`, `failures`) and runs one of them:
miner and balance maintainer exclude each other (the repository's
`README.md:394-396`), and nothing of the host job depends on the other two.

| state of `HostJob` | code |
|---|---|
| `pc` | preparation (`sync`, `coins`, `stat`, `folder`, `accept`, `info`), main loop (`loop`, `announce`, `check`, `pause`), the wait for the announcement (`tip`, `scan`, `retry`) |
| `announced`, `announcedAt` | `hjr.announced`, `hjr.announcedBlockHeight` |
| `startBH`, `currentBH`, `bh` | locals of the wait and of its loop over the blocks |
| `hostdir`, `folder`, `addFailed` | the directory, siad's storage folder, history: a failed call |
| `height`, `onChain`, `pool` | siad's chain, the heights with an announcement, the transaction pool |

The blocks are looked at one by one, so the chain may grow or reorganise between two of
them. A reorganisation never shortens the chain; it may drop, keep or move an
announcement. `Restart` is `Close` and `StartSiad` on the same directory.

### ConsensusGroups

`Sample` is one turn of the loop over the ants: `ConsensusGet`, the write into
`SeenBlocks`, the place among the groups. Between two turns the ants go on (`Grow`,
`Follow`). Blocks are told apart by height and chain; there are two chains, equal up to
`forkHeight`. `pc` is the caller inside `antConsensusGroups` (`wait`, `monitor`) or its pause;
`verdict` is what the monitor logged last. Heights are unsigned in the code: the
look back wraps at `WrapHeight`. Ants of another farm are decoded from JSON without
`SeenBlocks` (`ant.go:105`), so the first write into it panics (`SampleExternal`).

### SiadBuild and Releases

One action per command or group of commands of `buildSiad` with one outcome on the
checkouts; each may fail, and `buildSiad` then returns as it stands. `dir` tells an absent
directory from one that a failed clone has left and from a clone; `head` is what is
checked out; `binary[v]` holds the heads a binary was built from; `unbuilt` is history, the
versions asked for that this build has not compiled yet. `Select` computes the
versions with the operators of `Releases`, in which a release is its place in the
order of versions (so `build.VersionCmp` is the order of numbers), and a sorted list is an
arrangement of the positions of the unsorted one. `Call` is a request of the
builder for one version, or `TestBuildBinaries`, which asks for all of them. `BuildManager` sees
all this as one build that writes a binary and succeeds or fails.

### RenterJob

| state | code |
|---|---|
| `pc[t]`, `file[t]` | where each goroutine is, the file it deals with: `renter`, `uploader`, `downloader`, `deleter`, and `caller`, a test that uses `Upload` and `Download` of a `RenterJob` of its own |
| `files["uploader"]`, `files["caller"]` | `Files` of the two `RenterJob`s |
| `mu` | the first one's mutex where it is held across steps (the deleter's calls) |
| `source`, `dir` | the directory `renterSourceFiles` |
| `sia` | siad's files: unknown, uploading, available, complete |
| `stopped`, `restarts` | the stop channel of the thread group; `Restart` is what `StartSiad` does once `Stop` has returned |
| `told`, `old` | history: uploads reported to the caller, lists of earlier runs |

Every call to siad or to the file system may fail, with or without its effect. Files
with an error after their creation stay behind unlisted, as in the code. The two
waits of a download on siad's list are one (`loading`); both look at the stop.
siad refuses to delete a file that it does not know, does not lose files, and
the progress of a complete upload stays 100.

## 3. Runs

| run | instance | shows |
|---|---|---|
| `ant` | 3 siad processes, 2 seeds, one renter with one child thread, job lists `<<>>`, `<<"syncing">>`, `<<"syncing","unknown">>`; 1.3 M states, 2 min | one live process, none left behind, siad outlives the jobs, the seed is kept, `OperationsReturn`, and that each runner is a `StopGate` |
| `farm` | 2 ants, 4 configurations, with and without `WaitForSync`, hardfork at height 2; 15 k states | `SyncBeforeJobs`, `NothingLeftBehind`, `NewAndCloseReturn`, `NoJobWaitsForever` |
| `build` | 2 calls, lists `<<v1>>` and `<<v2,v1>>`, forced or not, any binaries on disk; 96 k states | exclusion, one answer per channel, nil means on disk, every call returns, `BuildService` is implemented |
| `ports` | 2 goroutines, 2 ports, 2 addresses each, 2 tries; 27 k states | addresses of one ant differ, nothing stays reserved |
| `jobs` | balance up to 3; chain up to height 4 with a delay of 1, one reorganisation, one restart; 2 failing calls; 132 k states, 90 s | the three jobs end when stopped, mine while they should, rest while they should; a host offers storage, notices a lost announcement and waits no longer than the delay |
| `renter` | 2 files, all three kinds of renter, 1 restart; 285 k states, 2 min | siad's files are listed and keep their sources, reported uploads stay, a stop ends everything |
| `sync` | 3 ants, the last perhaps external, 2 blocks compared, chains up to height 2, forks at 0 and 1, one failing call; 579 k states, 45 s | `GroupsAreExact`, `OneGroupForksLate`, `AgreementIsSeen` |
| `binaries` | 3 releases, 8 tag lists, 3 sets of patches, 3 minima, 3 exclusions, 2 failing commands; 404 k states | `BinaryIsOfItsVersion`, `ReleasesArePromised`, `BuildsRecover` |
| `farm_start_jobs_fail`, `ports_collide`, `renter_directory`, `monitor_blind` | as above; the last one 2 ants and height 3 | one finding each (section 6) |

Why the bounds are enough for the interesting cases:

* Three siad processes allow a start, a failed or successful restart and another one
  after it; what an operation reads is the present and the previous runner only.
  One syncing goroutine and one child show every order of spawn, add, stop
  and spawn-by-a-running-parent; more goroutines do not interact. `<<>>` lets the owner
  start the renter later; `"unknown"` after a known job is the failing loop.
* Two ants are the least for which one has failed and another runs. The
  configurations are those where startup fails in each of its ways.
* Two overlapping lists give a request that arrives before, during and after
  the build of its version, three workers, and both answers of the memory.
* Two goroutines and two ports already need a third draw for a collision.
* Two files: the caller's reported one and the uploader's, or both of the latter. The
  deleter's threshold is 1 instead of 30, so that it deletes beside a reported file.
  One restart meets a disk and a siad that an earlier run has used.
* A delay of one block is over within the chain's four, also when the one
  reorganisation, of any depth, comes during the wait; two failing calls hit a step and its repair.
* Three ants are the least for which the order of the groups matters (an ant may have a
  block in common with the first members of two groups, or with a second member
  only). With two blocks compared and heights up to 2 an ant can be beside the window,
  in it, and at a height where the look back wraps.
* The lists of tags have v1.5.5 at the start, at the end, alone and missing, out of order and
  twice; the minimal version is below, at and above v1.5.5. Two failing commands leave both checkouts in disorder.

`MaxGens`, `MaxTries`, `MaxFailures`, `MaxBalance`, `MaxHeight`, `MaxReorgs`, `MaxRestarts` and
`HardforkHeight` are the bounds on counters; `AnnounceDelay` (20), `Window` (8) and `WrapHeight` (2^64)
are scaled down. `MaxTries` is 100 in the code. `CHECK_DEADLOCK` is off where the
system stops: an ant at its last generation that is closed, a farm that is closed,
calls that have all returned, jobs that have ended, a renter stopped for good, a monitor that panicked; `binaries` checks it.

## 4. Fairness

* `Ant`: the owner's operation goes on. All its waits have a timeout in the code,
  except `Jr.Stop`, which is why `OperationsReturn` also needs that goroutines
  that see the stop signal end (`StopWaiting`, `EndStopped`): their loops select
  on the stop channel. Nothing is assumed of siad, of the sync, or of jobs that
  are not stopped; a spawned goroutine need not be scheduled.
* `AntFarm`: the same, and goroutines are scheduled. That jobs ever get mined blocks or
  agree is not assumed; `New` has timeouts for both.
* `BuildManager`: calls and workers are scheduled, and a build ends. `BinaryWritten` is
  not fair; a build may fail instead.
* `AntJobs`: goroutines go on; strong fairness for the stop channel, because the
  goroutine may be away from its `select` when the channel closes, and Go's `select`
  does not pass over a ready case for ever; blocks are found. `MinesAsNeeded` is about
  runs without failed calls, and `KeepsMining` excuses a lonely miner after a
  failure, since the job really does not mine again then. `ReorgIsNoticed` and
  `WaitTimesOut` hold with failed calls, of which there are finitely many.
* `ConsensusGroups`: the polling goroutine goes on; of the ants nothing is assumed, so that they
  agree for good (`AgreementIsSeen`) or one stays behind (`LastingSplitIsReported`) is a premise.
* `SiadBuild`: commands end, and somebody builds again.
* `RenterJob`: goroutines go on and calls to siad return; strong fairness where a
  loop's timer and the stop may be ready together, and for the uploader's `Lock`
  against a deleter that takes the mutex again and again (Go's mutex hands over
  to a starving waiter). Coins, contracts, progress and timers are not assumed.

## 5. Proofs

TLC's instances bound processes, calls and goroutines; the theorems hold for all values.
They rest on the named assumptions of the modules, which TLC evaluates on every
run: `NoSeed` is not a seed, job lists hold job kinds, bounds are natural numbers,
requested lists are sequences of versions of bounded length, the master branch is
no release, unsigned heights wrap above every height of a chain plus the window.

Every invariant that a passing run checks is a theorem; so are the refinements: of `StopGate` by
the ant and by the farm's ants, and of `BuildService` by the build manager. Each `*_proofs` module proves `Invariant`, `Spec => []IInv`, from the lemmas
on single actions, and gets the properties from it. Some theorems state invariants or
properties of steps that no run lists; TLC has agreed with each of them on the instances of
the runs: `IInv` of all modules, `DeliveryInv`, `NoJobAfterStop`, `OldRunnersAreQuiet`,
`BuiltAtMostOnce`, `NoStrandedRequest`, `VerdictStays`, `NewPorts` under its premise,
`EveryAntIsAStopGate`, `MinesByLastBalance`, `MinesUntilBlock`, `FoundStaysFound`,
`OkMeansBuilt`, `ReleasesAreExact`, `V155IgnoresMinimum`, `SyncMeansForksLate`.

**`Ant_proofs`** (theorems `TypeCorrect`, `OneSiad`, `NoSiadLeft`, `JobsEnd`,
`OldRunnersEnd`, `JobsEndFirst`, `SeedKept`, `RunnersAreGates`, all from `Invariant`). None of
the properties is inductive. `IInv` adds:

* `OwnerInOrder`: which process and runner exist at which program counter;
* `JobsAreKnown`: once there is an ant, each of its configured jobs has started once.
  This is why `StartSiad` cannot leave jobs on a runner it abandons: the only
  step that fails after jobs were started is the unknown job, and `New` has
  refused that configuration;
* `GatesInOrder`: a generation without a runner has no goroutines;
* `QuietWhenDown`: the present runner, too, has no working goroutine from the end
  of `Close` to the next started job, so the next runner may replace it and
  siad may be stopped;
* `ProcessesInOrder`: only the latest process can run, and `stopSiad` is called for it or
  when it is gone. After a failed start `a.siad` may be an older process than
  the last one spawned; the invariant says that the last one is then dead or killed;
* `WalletInOrder`: from the unlocking on the runner's seed is the wallet's.

`RunnersAreGates` is a step refinement: each step of the ant, seen through
`GateOf(g)` and `InsideOf(g)`, is a step of the `StopGate` of runner g or a stutter.

**`BuildManager_proofs`** (`TypeCorrect`, `Exclusion`, `BuiltOnce`, `NotStranded`, `VerdictIsKept`, from
`Invariant`). `IInv` adds: the flag says exactly whether a worker builds (`FlagIsExact`); what is
being built has callers and no verdict (`BuildingIsPending`); a version with a
verdict has no queue and never gets one again (`VerdictIsFinal`), which with
`BuildIsAccounted` (a begun build is running or has its verdict) gives one build
per version; each goroutine was started for an earlier index of its call
(`WorkerIsOfPastRequest`), so a new request gets a goroutine of its own, and
that one, or the one that builds, will see the queue (`NoStrandedRequest`). `VerdictIsKept` is
about steps: a worker selects a version with callers, which has no verdict, so
what has one keeps it and is not built again.

`Delivery` is a second inductive invariant on top: what waits in a queue is a channel of a
request for that version (`QueueIsOfVersion`); what is being sent is the verdict
(`AnswerIsVerdict`); a channel not read yet waits or is being sent on
(`PendingIsAnswered`); a good verdict has its binary (`OkIsOnDisk`); a version that the
call is done with, because it read nil or never had to ask, is on the disk
(`SettledIsOnDisk`). `OneAnswer` and `NilIsHonest` follow. `Implements` is the refinement: the
binary that a worker writes is `Write`, the end of its build is `Decide`, a return is
`Succeed` or `Fail` (`NilIsHonest` gives the guard of `Succeed`), the rest stutters.

**`PortAssigner_proofs`** (`TypeCorrect`, `OwnPortsDiffer`, `SetsAreExact`, `NoCollisionWithoutSharing`). Between its lookup and its
write a goroutine holds no lock, so that two goroutines may return one port (finding
`ports_collide`). What holds nevertheless is about one goroutine: a port that has passed
the lookup is none of its own earlier ones, since those are in `assigned` for good
(`PassedLookup`), and whoever deals with a port has room for it (`HasPortAndRoom`).
`NoCollisionWithoutSharing` shows that there is no other way to a collision: if two goroutines
never deal with one port at a time (`NoSharedPort`), no port is returned twice. A process with
one farm meets the premise, as it configures its ants one after the other
(`antfarm/ant.go:124`); parallel tests do not. A port that has passed the lookup is then
nobody's, until its goroutine returns it (`PortIsNew`).

**`AntFarm_proofs`** (`TypeCorrect`, `JobsWaitForSync`, `NothingLeft`, `AntsAreGates`), for any number of ants. `IInv` adds: the
order of an ant's Close (`CloseInOrder`); that a Close begins only when New or the farm
closes (`ClosingIsLate`); that ants that were not started have nothing (`UnstartedIsBare`) and
which ants are started at which `pc` (`StartedInOrder`); that New and Close return after
the Close of each started ant, but for the failing `startJobs` (`ReturnedIsClosed`); and why the
wait group is zero: the ants agreed, or nobody waits (`SyncIsHeld`). The theorems except what
the finding `farm_start_jobs_fail` shows, as the invariants do.
`AntsAreGates` is a step refinement as in `Ant_proofs`: whichever step of New, Close or a job it is, each
ant's runner makes a step of its `StopGate` or a stutter. `GatesInOrder` is the invariant for it: the
runner that `startAnts` opens is new, and it is open until the ant's own Close stops it. The
step is excepted in which the process panics, since it ends all goroutines at once.

**`RenterJob_proofs`** (`TypeCorrect`, `NothingLost`, `ReportIsFinal`). The uploader, the deleter and a test's
transfers race on one list, one directory and one siad. `IInv` says who owns a
file meanwhile: one that was created and that siad does not know yet is nobody
else's, except that the deleter may have picked it from the list, in which case
siad refuses to delete it (`NewFileIsOwn`); what the deleter deals with stays in its list, and is
gone from siad when its source is removed (`DeletionIsListed`); the background list shares
no file with a test's list nor with what was reported (`ListsAreApart`).

**`AntJobs_proofs`** (`TypeCorrect`, `FolderBeforeAnnouncement`, `FollowsBalance`, `KeepsMiningUntilBlock`,
`AnnouncementStays`). Each job keeps its own types by its own
actions; the composition keeps the others' because at most one of the jobs that switch
siad's miner runs (`OneSwitchesMiner`). For the host, the directory is the memory that
survives a restart: if it exists, the call that adds the folder was made, or comes next
(`DirectoryIsTried`), and every step from the settings to the announcement follows that
call (`LoopFollowsTry`). The miner jobs act on what they remember. `FollowsBalance` and
`KeepsMiningUntilBlock` say when this is what siad does: as long as no call has failed (section 6 has
what happens after one). `FlagIsSiads` tells where the flag runs ahead of siad's miner, which is
in the three calls that switch it. `AnnouncementStays`: only a reorganisation takes an
announcement out of the block where the host found it.

**`SiadBuild_proofs`** (`RightBinary`, `TypeCorrect`, `ExactReleases`, `PromisedReleases`,
`WorkaroundIgnoresMinimum`, `NilMeansBuilt`). `IInv` says what is checked out
in which clone at each step of a build: merkletree is pinned exactly while v1.4.0 is built, or
`pinLeft` tells that a build failed in between (`PinIsKnown`); the clones that a step needs exist
(`ClonesAreThere`). It never asks what the versions are, so `RightBinary` rests on no fact
about sorting. `ExactReleases` does, for tags in any order and number:

* `Arrangement`: finitely many positions can be arranged by their keys. Instead of an
  induction over the list there is a least counterexample (`LeastNumber`, from the
  library's well-founded induction), and a bijection keeps the sizes of the sets that
  it maps to each other (`SameNumber`);
* `SortedTags`: the sorted list has each tag as often as the unsorted one;
* `V155Inserted`: the insertion keeps the order and adds v1.5.5 once if it was missing;
* `ReleasesAreFiltered`: patches and exclusions change nothing else.

`ExactReleases` says what the code returns. `PromisedReleases` follows: it is what the comment
promises, but for v1.5.5 below the minimal version, of which `ReleasesArePromised` says nothing.
`WorkaroundIgnoresMinimum` is about that case: the promise is never kept there, unless
v1.5.5 is excluded.

`TypeCorrect` follows from the same lemmas, as it says that the list to build consists of versions.
`NilMeansBuilt`: a build that returns nil has compiled each version it was asked for; those not
compiled yet are in the rest of the list (`RestIsListed`). It is what the build manager
takes from `buildSiad` when it marks a version as built (`build_manager.go:147`).

**`ConsensusGroups_proofs`** (`TypeCorrect`, `GroupsAreRight`, `SingleGroup`, `SyncIsTrue`), for any number of ants, window and
heights. `ComparedHeights` shows that the wrapping heights of the code are the last
`Window` ones and no others, `MeetsIsShared` that the loop's comparison is the definition's,
`PlaceIsExact` and `OneGroupTakes` that exactly one group takes the ant; the first group with a match
exists because a set of numbers has a least one (`LeastNumber`, from the library's
well-founded induction). What earlier ants have seen does not change while later ones
are asked, so the groups stay exact although the chains go on. `SingleGroup` needs besides
that the first ant founds the first group (`FirstFoundsFirst`) and that what was seen is on the
ant's chain while nothing was replaced (`SeenIsOnChain`). `SyncIsTrue` takes it to the callers: where New
stops waiting, or the monitor logs agreement, the round was complete and had one group, so
that the chains were that close; failed calls and rounds that were given up are not mistaken for it.

**Only model-checked.**

* All liveness: it needs fairness and ENABLED, which the prover does not handle.
* `GetAddrsReturns` of `PortAssigner` holds in `Ports.cfg` too, although no run lists it.

Modules with theorems use no RECURSIVE operator.

## 6. Where the code and its comments disagree

Each has a run in which TLC shows the behaviour.

1. `farm_start_jobs_fail`: a failing `startJobs` (`antfarm.go:127`) returns before
   `farm.Close` is deferred; the deferred `antsSyncWG.Done` then releases the jobs of ants
   that keep running, out of sync.
2. `ports_collide`: the deferred delete takes a port out of `checking` that another
   goroutine put there (`ant.go:158`); two callers can get one port.
3. `renter_directory`: the uploader's `os.Mkdir` fails on the directory that an earlier run
   or a test's `Upload` made, and the uploader returns without a log line
   (`job_renter.go:775`): after `StartSiad` an autoRenter never uploads again.
4. `monitor_blind`: the last eight blocks of an ant are compared with all that the first ant
   has ever seen (`antfarm/ant.go:85`). An ant that stays on a fork of fewer than
   eight blocks is logged as synchronized for ever, however far the others go.

The models show more, which has no run of its own; the definition named here is the one to
check, in the configuration named:

* a configuration with an unknown job after a known one leaves the known job on a
  runner that nobody can stop (`ant.go:332`; `AllIsClosed` in `AntFarm.cfg`);
* the force flag does not reach `managedBuildVersion`: a version built once in the
  process is not rebuilt (`build_manager.go:87`; `ForcedRequestIsQueued`, violated on the instance of `BuildManager.cfg`, no run lists it);
* `minerRunning` is set before `MinerStartGet`; if the call fails the miner stays off for
  ever (`job_balancemaintainer.go:58`; `MinesAsNeeded` without its premise, in `AntJobs.cfg`);
* a host whose `HostStorageFoldersAddPost` failed never tries again, since the next start
  finds the directory, and announces itself without storage (`job_host.go:105`;
  `AnnouncedHostOffersStorage` without `addFailed`);
* a farm connected to another one panics in its monitor: the ants it decodes have a nil
  `SeenBlocks` (`ant.go:105`, `antfarm/ant.go:78`; `SampleExternal` in `ConsensusGroups`);
* the directory of a clone that failed is taken for a clone ever after, and each build fails
  (`build_binaries.go:416`; `BuildsRecover` without its last disjunct);
* a v1.4.0 build that fails half way leaves merkletree pinned for the builds of other
  versions (`build_binaries.go:145-226`; `BinaryIsOfItsVersion` without `pinLeft`);
* `GetReleases` returns v1.5.5 also when it is below the minimal version, against its comment,
  which promises tags "greater than or equal to the given minimal version" (`build_binaries.go:293`
  and `:359`; `NothingBelowMinimum`, violated on the instance of `SiadBuild.cfg`, no run lists it; the
  theorem `WorkaroundIgnoresMinimum`). The callers' minima, v1.3.7 and v1.4.7, are below v1.5.5.

From reading: a file whose source cannot be removed stays listed while siad
has it no more, so each later attempt to delete it fails (`job_renter.go:505`); an
upload whose file the deleter takes polls until its timeout; an `Upload` that is
stopped returns an empty path and no error (`job_renter.go:649`); a host whose `WalletGet` fails
skips the mining timeout in that round (`job_host.go:84`). `littlesupplier` in an ant's job
list indexes an empty slice and panics (`ant.go:542`); `AntFarm` has it as `AntPanics`.

## 7. Not modelled

The checks of the miner's balance and of the host's storage revenue only log.
`ReleasesWithMinVersion` and `ReleasesWithMaxVersion` are filters. An error of the Gitlab API ends
`GetReleases` and leaves nothing behind, so it is no step; a tag with the suffix "-antfarm" that is a
release of its own is not among the tags. What the small jobs send
to siad changes no state here; `AntFarm` has their goroutines. The polling
helpers of `ant.go` keep no state; logging, file lookup, UPnP, flags of siad and the
JSON API are I/O without decisions that a property could be about. What siad does
inside is the environment. A data race on siad's output buffer (`siad.go:229`) only delays
`SetupFinished`, which `Ant` allows. The goroutine that `waitForAntsSync` leaks on a stop
holds nothing others wait for.

## 8. Plan

Done: all modules of section 2; the proofs of every invariant that a passing run checks and
of all refinements. What could be added:

1. The farm's ants as a refinement in full: `AntFarm` with `Ant` in place of its outline, of which
   `EveryAntIsAStopGate` has the part about the runners.
2. A proof of the liveness properties, should the prover come to support fairness.
