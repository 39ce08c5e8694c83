------------------------------ MODULE AntJobs ------------------------------
(***************************************************************************)
(* The jobs of an ant that are one goroutine with a course of its own: the *)
(* miner job, the balance maintainer of an ant with a desired currency     *)
(* (the repository's README, DesiredCurrency, says that these two exclude  *)
(* each other), and the host job.  Each is checked beside the siad that it *)
(* drives, whose calls may fail, and the stop channel of its runner; the   *)
(* three share no state beyond these, so an instance runs one of them.     *)
(***************************************************************************)
EXTENDS Naturals

CONSTANTS
    Desired,          \* desiredBalance, in block rewards
    MaxBalance,       \* bound: the confirmed balance
    AnnounceDelay,    \* hostAnnounceBlockHeightDelay
    MaxHeight,        \* bound: height of the chain
    MaxReorgs,        \* bound: reorganisations
    MaxRestarts,      \* bound: restarts of a host
    MaxFailures       \* bound: API calls that fail

ASSUME BalanceAssumption == Desired \in Nat /\ MaxBalance \in Nat /\ MaxBalance > Desired
ASSUME ChainAssumption ==
    AnnounceDelay \in Nat /\ MaxHeight \in Nat /\ MaxHeight > AnnounceDelay + 1
ASSUME BoundsAssumption == MaxReorgs \in Nat /\ MaxRestarts \in Nat /\ MaxFailures \in Nat

VARIABLES
    mining, others, fresh,                     \* of the miner job
    maintaining, minerRunning, sawEnough,      \* of the balance maintainer
    hosting, announced, announcedAt, startBH, currentBH, bh, hostdir, folder,
    addFailed, height, onChain, pool, reorgs, restarts,    \* of the host job
    minerOn, balance,                          \* siad's miner and wallet
    stopped, failures                          \* shared

minerVars      == <<mining, others, fresh>>
maintainerVars == <<maintaining, minerRunning, sawEnough, balance>>
hostVars == <<hosting, announced, announcedAt, startBH, currentBH, bh, hostdir, folder,
              addFailed, height, onChain, pool, reorgs, restarts>>
vars == <<minerVars, maintainerVars, hostVars, minerOn, stopped, failures>>

Miner      == INSTANCE BlockMining WITH pc <- mining
Maintainer == INSTANCE BalanceMaintainer WITH pc <- maintaining
Host       == INSTANCE HostJob WITH pc <- hosting

TypeOK == Miner!TypeOK /\ Maintainer!TypeOK /\ Host!TypeOK

(* One of the jobs is begun; what the others would use stands still. *)
Init ==
    /\ Miner!Init /\ Maintainer!Init /\ Host!Init
    /\ \/ mining = "begin" /\ maintaining = "done" /\ hosting = "none" /\ balance = 0
       \/ mining = "done" /\ maintaining = "begin" /\ hosting = "none" /\ ~others /\ ~fresh
       \/ mining = "done" /\ maintaining = "done" /\ hosting = "begin"
          /\ ~others /\ ~fresh /\ balance = 0

(* Jr.Stop. *)
Stop ==
    /\ ~stopped /\ stopped' = TRUE
    /\ UNCHANGED <<minerVars, maintainerVars, hostVars, minerOn, failures>>

MinerFrame      == UNCHANGED <<maintainerVars, hostVars>>
MaintainerFrame == UNCHANGED <<minerVars, hostVars>>
HostFrame       == UNCHANGED <<minerVars, maintainerVars, minerOn>>

MinerStep      == mining # "done" /\ Miner!Next /\ MinerFrame
MaintainerStep == maintaining # "done" /\ Maintainer!Next /\ MaintainerFrame
HostStep       == hosting # "none" /\ Host!Next /\ HostFrame

Next == MinerStep \/ MaintainerStep \/ HostStep \/ Stop

Spec == Init /\ [][Next]_vars

(* The goroutines go on (siad answers or refuses a call); a stop channel   *)
(* that is closed is not passed over for ever; blocks are found.           *)
FairSpec ==
    /\ Spec
    /\ WF_vars(Miner!JobStep /\ MinerFrame)
    /\ SF_vars(Miner!SeeStop /\ MinerFrame)
    /\ WF_vars(mining # "done" /\ Miner!OwnBlock /\ MinerFrame)
    /\ WF_vars(mining # "done" /\ Miner!OtherBlock /\ MinerFrame)
    /\ WF_vars(Maintainer!JobStep /\ MaintainerFrame)
    /\ SF_vars(Maintainer!SeeStop /\ MaintainerFrame)
    /\ WF_vars(Host!JobStep /\ HostFrame)
    /\ SF_vars(Host!SeeStop /\ HostFrame)
    /\ WF_vars(hosting # "none" /\ Host!MineBlock /\ HostFrame)
-----------------------------------------------------------------------------
(* Properties.                                                             *)

(* A job that is told to stop ends, wherever it sleeps: Jr.Stop waits for  *)
(* it (job_miner.go:61, job_balancemaintainer.go:82, job_host.go:357); a   *)
(* host may then be restarted.                                             *)
StopEndsJobs ==
    stopped ~> mining = "done" /\ maintaining = "done" /\ hosting \in {"done", "none"}

(* "blockMining indefinitely mines blocks" (job_miner.go:23).  While the   *)
(* job runs its siad does not stop mining for good: failed calls are made  *)
(* up for when the next block comes, if others mine one.                   *)
KeepsMining ==
    mining # "done" ~> minerOn \/ mining = "done" \/ stopped \/ (failures > 0 /\ ~others)

(* "balanceMaintainer mines when the balance is below desiredBalance", and *)
(* "the miner is stopped if the balance exceeds the desired balance"       *)
(* (job_balancemaintainer.go:19): unless a call failed, a job that runs on *)
(* leaves no wallet that stays too empty without a miner, and mines for    *)
(* none that stays full, although its flag and the balance that it read    *)
(* may be older than the wallet's.                                         *)
MinesAsNeeded ==
    [](failures = 0) =>
        /\ <>[](balance < Desired) => <>[](minerOn \/ maintaining = "done" \/ stopped)
        /\ <>[](balance > Desired) => <>[](~minerOn \/ maintaining = "done" \/ stopped)

(* jobHost "starts a host offering storage to the ant farm"                *)
(* (job_host.go:57).  A host announces itself without a storage folder     *)
(* only when the call that adds the folder failed: restarts find the       *)
(* directory and do not try again (job_host.go:105).                       *)
AnnouncedHostOffersStorage == announced => folder \/ addFailed

(* What makes these inductive.  At most one of the two jobs that switch    *)
(* siad's miner runs; a directory that exists was given to siad, or is     *)
(* about to be; and the goroutine is past that point only afterwards.      *)
OneSwitchesMiner == mining = "done" \/ maintaining = "done"
FolderTried      == folder \/ addFailed
DirectoryIsTried == hostdir => FolderTried \/ hosting = "folder"
LoopFollowsTry ==
    hosting \in {"accept", "info", "loop", "announce", "check", "pause"} \cup Host!Waiting
        => FolderTried
IInv == /\ TypeOK /\ OneSwitchesMiner
        /\ DirectoryIsTried /\ LoopFollowsTry /\ AnnouncedHostOffersStorage

(* The goroutines act on what they remember, not on what siad says.  While *)
(* no call has failed it comes to the same: the maintainer's flag is       *)
(* siad's miner, but in the calls that switch it; asleep, the maintainer   *)
(* mines exactly if the balance that it read last was not enough; and the  *)
(* miner job's siad mines but from a new block to the end of the pause.    *)
MinesByLastBalance ==
    failures = 0 /\ maintaining = "sleep" => minerOn = ~sawEnough
MinesUntilBlock ==
    failures = 0 /\ mining \in {"frequency", "wait", "height", "stop"} => minerOn

Switching == maintaining \in {"first", "start", "stop"}
FlagIsSiads ==
    failures = 0 /\ maintaining # "done" =>
        /\ minerOn = (IF Switching THEN ~minerRunning ELSE minerRunning)
        /\ maintaining \in {"start", "stop", "sleep"} => minerRunning = ~sawEnough
        /\ maintaining \in {"begin", "first"} => minerRunning = (maintaining = "first")
SwitchInv == FlagIsSiads /\ MinesUntilBlock

(* An announcement stays in the block where the host found it until the    *)
(* chain is reorganised: nothing else makes the host's check fail          *)
(* (job_host.go:178), over any restarts, timeouts and failing calls.       *)
FoundStaysFound ==
    reorgs = 0 /\ announced /\ hosting \notin Host!Waiting => announcedAt \in onChain

(* An announcement that a reorganisation took out of the block where it    *)
(* was found does not go unnoticed (job_host.go:178): the host announces   *)
(* itself anew, unless the announcement is back or the job ends.           *)
ReorgIsNoticed ==
    hosting \in {"check", "pause"} /\ announced /\ announcedAt \notin onChain
        ~> ~announced \/ announcedAt \in onChain \/ hosting = "done"

(* A wait for an announcement that was lost does not outlast the block     *)
(* delay (job_host.go:351), whatever reads fail and however the chain is   *)
(* reorganised; at the bound of the chain no block can end it.             *)
WaitTimesOut ==
    hosting \in Host!Waiting /\ startBH > 0 /\ startBH + AnnounceDelay < MaxHeight
        ~> hosting \notin Host!Waiting
=============================================================================
