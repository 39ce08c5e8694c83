------------------------------ MODULE HostJob ------------------------------
(***************************************************************************)
(* ant/job_host.go: the goroutine of the host job.  It waits for coins,    *)
(* makes the directory hostdata and gives it to siad as a storage folder,  *)
(* announces the host, looks for the announcement in the blockchain, and   *)
(* announces again when it times out or was reorganised away.              *)
(*                                                                         *)
(* The directory, siad's storage folder and the chain outlive the          *)
(* goroutine: StartSiad starts the job anew on them.  The check of the     *)
(* storage revenue only logs and is left out.  Module AntJobs runs the     *)
(* goroutine.                                                              *)
(***************************************************************************)
EXTENDS Naturals

CONSTANTS
    AnnounceDelay,    \* hostAnnounceBlockHeightDelay
    MaxHeight,        \* bound: height of the chain
    MaxReorgs,        \* bound: reorganisations
    MaxRestarts,      \* bound: restarts of the ant
    MaxFailures       \* bound: API calls that fail

VARIABLES
    pc,            \* where the goroutine is
    announced,     \* hjr.announced
    announcedAt,   \* hjr.announcedBlockHeight
    startBH,       \* of managedWaitAnnounceTransactionInBlockchain; 0: not set
    currentBH, bh, \* the chain's height as it was read; the block to look at
    hostdir,       \* the directory hostdata exists
    folder,        \* siad has it as a storage folder
    addFailed,     \* history: a call to add the folder failed
    height,        \* of siad's chain
    onChain,       \* heights of the blocks with an announcement of this host
    pool,          \* an announcement waits in the transaction pool
    reorgs, restarts,
    stopped,       \* StopChan is closed
    failures       \* API calls that failed so far

hjrVars   == <<announced, announcedAt, startBH, currentBH, bh>>
diskVars  == <<hostdir, folder, addFailed>>
chainVars == <<height, onChain, pool, reorgs>>
ownVars   == <<pc, hjrVars, diskVars, chainVars, restarts>>
vars      == <<ownVars, stopped, failures>>

Heights == 0 .. MaxHeight
Waiting == {"tip", "scan", "retry"}

TypeOK ==
    /\ pc \in {"none", "begin", "sync", "coins", "stat", "folder", "accept", "info",
               "loop", "announce", "check", "pause", "done"} \cup Waiting
    /\ announced \in BOOLEAN
    /\ announcedAt \in Heights /\ startBH \in Heights
    /\ currentBH \in Heights /\ bh \in Heights
    /\ hostdir \in BOOLEAN /\ folder \in BOOLEAN /\ addFailed \in BOOLEAN
    /\ height \in Heights /\ onChain \subseteq 1 .. height /\ pool \in BOOLEAN
    /\ stopped \in BOOLEAN
    /\ reorgs \in 0 .. MaxReorgs /\ restarts \in 0 .. MaxRestarts
    /\ failures \in 0 .. MaxFailures
    /\ pc \in Waiting \cup {"check"} => announced
    /\ pc \in {"folder", "accept"} => hostdir

(* The job is started on a fresh directory, or the ant has none.           *)
Init ==
    /\ pc \in {"begin", "none"}
    /\ announced = FALSE
    /\ announcedAt = 0 /\ startBH = 0 /\ currentBH = 0 /\ bh = 0
    /\ hostdir = FALSE /\ folder = FALSE /\ addFailed = FALSE
    /\ height = 1 /\ onChain = {} /\ pool = FALSE
    /\ reorgs = 0 /\ restarts = 0
    /\ stopped \in BOOLEAN /\ failures = 0

Goto(label) == pc' = label /\ UNCHANGED <<restarts, stopped>>
Fails == failures < MaxFailures /\ failures' = failures + 1
-----------------------------------------------------------------------------
(* Preparation.                                                            *)

(* TG.Add. *)
Begin ==
    /\ pc = "begin"
    /\ Goto(IF stopped THEN "done" ELSE "sync")
    /\ UNCHANGED <<hjrVars, diskVars, chainVars, failures>>

Synced ==
    /\ pc = "sync"
    /\ Goto("coins")
    /\ UNCHANGED <<hjrVars, diskVars, chainVars, failures>>

(* The wallet is asked every second (a failed call changes nothing) until  *)
(* it holds enough or the time is up.                                      *)
CoinsDecided ==
    /\ pc = "coins"
    /\ Goto("stat") \/ Goto("done")
    /\ UNCHANGED <<hjrVars, diskVars, chainVars, failures>>

(* Mutant: the condition is the wrong way round. *)
StatInverted ==
    /\ pc = "stat"
    /\ \/ Goto(IF hostdir THEN "folder" ELSE "accept") /\ hostdir' = TRUE /\ UNCHANGED failures
       \/ Goto("done") /\ Fails /\ UNCHANGED hostdir
    /\ UNCHANGED <<hjrVars, folder, addFailed, chainVars>>

(* Stat and MkdirAll: the folder is added only in a new directory. *)
Stat ==
    /\ pc = "stat"
    /\ \/ Goto(IF hostdir THEN "accept" ELSE "folder") /\ hostdir' = TRUE /\ UNCHANGED failures
       \/ Goto("done") /\ Fails /\ UNCHANGED hostdir
    /\ UNCHANGED <<hjrVars, folder, addFailed, chainVars>>

(* HostStorageFoldersAddPost may fail with or without its effect. *)
AddFolder ==
    /\ pc = "folder"
    /\ \/ Goto("accept") /\ folder' = TRUE /\ UNCHANGED <<addFailed, failures>>
       \/ Goto("done") /\ folder' \in BOOLEAN /\ addFailed' = TRUE /\ Fails
    /\ UNCHANGED <<hjrVars, hostdir, chainVars>>

(* HostModifySettingPost, and HostGet in newHostJobRunner. *)
Configure ==
    /\ pc \in {"accept", "info"}
    /\ \/ Goto(IF pc = "accept" THEN "info" ELSE "loop") /\ UNCHANGED failures
       \/ Goto("done") /\ Fails
    /\ UNCHANGED <<hjrVars, diskVars, chainVars>>
-----------------------------------------------------------------------------
(* The main loop.                                                          *)

LoopHead ==
    /\ pc = "loop"
    /\ Goto(IF stopped THEN "done" ELSE IF announced THEN "check" ELSE "announce")
    /\ UNCHANGED <<hjrVars, diskVars, chainVars, failures>>

(* HostAnnouncePost puts a transaction into siad's pool; it may be there   *)
(* although the call failed.                                               *)
Announce ==
    /\ pc = "announce"
    /\ \/ /\ Goto("tip")
          /\ announced' = TRUE /\ startBH' = 0 /\ pool' = TRUE
          /\ UNCHANGED failures
       \/ Goto("pause") /\ Fails /\ pool' \in {pool, TRUE} /\ UNCHANGED <<announced, startBH>>
    /\ UNCHANGED <<announcedAt, currentBH, bh, diskVars, height, onChain, reorgs>>

NotAnnounced == Goto("loop") /\ announced' = FALSE

(* Mutant: the timeout starts anew with every look at the chain. *)
ReadTipAnew ==
    /\ pc = "tip"
    /\ \/ /\ Goto("scan")
          /\ currentBH' = height /\ startBH' = height /\ bh' = 0
          /\ UNCHANGED <<announced, failures>>
       \/ NotAnnounced /\ Fails /\ UNCHANGED <<currentBH, startBH, bh>>
    /\ UNCHANGED <<announcedAt, diskVars, chainVars>>

(* ConsensusGet in the wait for the announcement. *)
ReadTip ==
    /\ pc = "tip"
    /\ \/ /\ Goto("scan")
          /\ currentBH' = height /\ bh' = 0
          /\ startBH' = IF startBH = 0 THEN height ELSE startBH
          /\ UNCHANGED <<announced, failures>>
       \/ NotAnnounced /\ Fails /\ UNCHANGED <<currentBH, startBH, bh>>
    /\ UNCHANGED <<announcedAt, diskVars, chainVars>>

(* managedAnnouncementTransactionInBlockRange looks at the blocks one by   *)
(* one, from the first, while the chain goes on.                           *)
ScanBlock ==
    /\ pc = "scan"
    /\ \/ /\ bh \in onChain
          /\ Goto("check") /\ announcedAt' = bh
          /\ UNCHANGED <<announced, bh, failures>>
       \/ /\ bh \notin onChain /\ bh < currentBH
          /\ Goto("scan") /\ bh' = bh + 1
          /\ UNCHANGED <<announced, announcedAt, failures>>
       \/ Goto("retry") /\ Fails /\ UNCHANGED <<announced, announcedAt, bh>>
    /\ UNCHANGED <<startBH, currentBH, diskVars, chainVars>>

(* The last block has none either: the wait times out, or is tried again.  *)
NotInChain ==
    /\ pc = "scan" /\ bh \notin onChain /\ bh = currentBH
    /\ IF currentBH > startBH + AnnounceDelay THEN NotAnnounced
                                             ELSE Goto("retry") /\ UNCHANGED announced
    /\ UNCHANGED <<announcedAt, startBH, currentBH, bh, diskVars, chainVars, failures>>

(* Mutant: only an error counts. *)
CheckErrorsOnly ==
    /\ pc = "check"
    /\ Goto("pause") /\ (UNCHANGED failures \/ Fails)
    /\ UNCHANGED <<hjrVars, diskVars, chainVars>>

(* Is the announcement still in the block where it was found?              *)
Check ==
    /\ pc = "check"
    /\ \/ announcedAt \in onChain /\ Goto("pause") /\ UNCHANGED <<announced, failures>>
       \/ announcedAt \notin onChain /\ NotAnnounced /\ UNCHANGED failures
       \/ Goto("pause") /\ Fails /\ UNCHANGED announced
    /\ UNCHANGED <<announcedAt, startBH, currentBH, bh, diskVars, chainVars>>

(* The pauses, with the stop channel in each: between two looks at the     *)
(* chain, and at the end of a round or after an error.                     *)
TimeOut ==
    /\ pc \in {"retry", "pause"}
    /\ Goto(IF pc = "retry" THEN "tip" ELSE "loop")
    /\ UNCHANGED <<hjrVars, diskVars, chainVars, failures>>

SeeStop ==
    /\ stopped
    /\ \/ pc \in {"sync", "coins", "pause"} /\ Goto("done") /\ UNCHANGED announced
       \/ pc = "retry" /\ NotAnnounced
    /\ UNCHANGED <<announcedAt, startBH, currentBH, bh, diskVars, chainVars, failures>>
-----------------------------------------------------------------------------
(* The environment: the chain, and the owner of the ant.                   *)

(* A block, with or without what waits in the pool; a pool may drop it.    *)
MineBlock ==
    /\ height < MaxHeight
    /\ height' = height + 1
    /\ \/ pool /\ onChain' = onChain \cup {height'} /\ pool' = FALSE
       \/ UNCHANGED onChain /\ pool' \in {FALSE, pool}
    /\ UNCHANGED <<pc, hjrVars, diskVars, reorgs, restarts, stopped, failures>>

(* The blocks above the fork are replaced, by no fewer; an announcement    *)
(* among them, or in the pool, is in the new blocks, or waits, or is lost. *)
Reorg ==
    /\ reorgs < MaxReorgs
    /\ reorgs' = reorgs + 1
    /\ height' \in height .. MaxHeight
    /\ \E fork \in 0 .. height - 1 :
         LET kept == onChain \cap 0 .. fork
         IN  \/ onChain' = kept /\ pool' \in {FALSE, pool \/ kept # onChain}
             \/ /\ pool \/ kept # onChain
                /\ \E h \in fork + 1 .. height' : onChain' = kept \cup {h}
                /\ pool' = FALSE
    /\ UNCHANGED <<pc, hjrVars, diskVars, restarts, stopped, failures>>

(* Close, and StartSiad with the same data directory.                      *)
Restart ==
    /\ pc = "done" /\ stopped
    /\ restarts < MaxRestarts /\ restarts' = restarts + 1
    /\ pc' = "begin" /\ stopped' = FALSE
    /\ announced' = FALSE
    /\ announcedAt' = 0 /\ startBH' = 0 /\ currentBH' = 0 /\ bh' = 0
    /\ pool' \in {FALSE, pool}
    /\ UNCHANGED <<diskVars, height, onChain, reorgs, failures>>

JobStep ==
    \/ Begin \/ Synced \/ CoinsDecided \/ Stat \/ AddFolder \/ Configure
    \/ LoopHead \/ Announce \/ ReadTip \/ ScanBlock \/ NotInChain
    \/ Check \/ TimeOut \/ SeeStop
Next == JobStep \/ MineBlock \/ Reorg \/ Restart
=============================================================================
