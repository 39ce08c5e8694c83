----------------------------- MODULE RenterJob -----------------------------
(***************************************************************************)
(* ant/job_renter.go: the goroutine renter prepares the ant (coins,        *)
(* allowance, contracts) and starts an uploader, a downloader and a        *)
(* deleter, which share the list Files of one RenterJob and its mutex.  A  *)
(* test may upload and download through a RenterJob of its own meanwhile;  *)
(* that one has another list, but the same siad and source directory.      *)
(*                                                                         *)
(* Close and StartSiad of the ant (module Ant) stop the goroutines and     *)
(* start them again over what the last run left on disk and in siad.       *)
(***************************************************************************)
EXTENDS Naturals, FiniteSets

CONSTANTS
    Files,               \* files that the temporary file names stand for
    NoFile,
    DeleteFileThreshold, \* deleteFileThreshold, scaled down
    Phases,              \* the phases that a renter is started with
    MaxRestarts          \* bound: restarts of the ant

ASSUME NoFileAssumption == NoFile \notin Files
ASSUME ThresholdAssumption == DeleteFileThreshold \in Nat \ {0}
ASSUME PhasesAssumption == Phases \subseteq {"walletFull", "allowanceSet", "backgroundJobsStarted"}
ASSUME RestartsAssumption == MaxRestarts \in Nat

Background == {"uploader", "downloader", "deleter"}
Threads    == Background \cup {"renter", "caller"}
Uploaders   == {"uploader", "caller"}
Downloaders == {"downloader", "caller"}

VARIABLES
    phase,     \* argument of renter
    pc, file,  \* where each goroutine is; the file it deals with
    files,     \* Files of the RenterJob of the uploader, and of the caller's
    mu,        \* who holds the mutex of the former across a step, or "free"
    source,    \* source files on disk
    dir,       \* does the directory renterSourceFiles exist
    sia,       \* what siad has of each file
    told,      \* files that the caller's Upload said were uploaded
    old,       \* files in the lists of earlier runs
    stopped,   \* StopChan is closed
    restarts   \* restarts so far

diskVars == <<source, dir>>
runVars  == <<phase, old, stopped, restarts>>
vars == <<phase, pc, file, files, mu, source, dir, sia, told, old, stopped, restarts>>

(* The selects that wait for the stop, and the places outside the group.   *)
AtSelect == {"sync", "wallet", "allowance", "sleep", "poll", "loading"}
Outside  == {"none", "spawned", "idle", "done"}
Labels   == AtSelect \cup Outside \cup
            {"ready", "mkdir", "list", "post", "request", "saving",
             "delete", "remove"}

TypeOK ==
    /\ phase \in Phases
    /\ pc \in [Threads -> Labels]
    /\ file \in [Threads -> Files \cup {NoFile}]
    /\ files \in [Uploaders -> SUBSET Files]
    /\ mu \in {"free", "deleter"}
    /\ source \subseteq Files /\ dir \in BOOLEAN
    /\ sia \in [Files -> {"none", "uploading", "available", "complete"}]
    /\ told \subseteq Files /\ old \subseteq Files
    /\ stopped \in BOOLEAN /\ restarts \in 0 .. MaxRestarts
    /\ mu = "deleter" <=> pc["deleter"] \in {"delete", "remove"}
    /\ source # {} => dir

FirstPc == [t \in Threads |-> IF t = "renter" THEN "spawned"
                              ELSE IF t = "caller" THEN "idle" ELSE "none"]

Init ==
    /\ phase \in Phases
    /\ pc = FirstPc
    /\ file = [t \in Threads |-> NoFile]
    /\ files = [t \in Uploaders |-> {}] /\ mu = "free"
    /\ source = {} /\ dir = FALSE
    /\ sia = [f \in Files |-> "none"]
    /\ told = {} /\ old = {}
    /\ stopped = FALSE /\ restarts = 0

(* A temporary file gets a random name that no file has. *)
Fresh(f) == f \notin source /\ \A t \in Threads : file[t] # f

Goto(t, label) == pc' = [pc EXCEPT ![t] = label] /\ UNCHANGED file

(* Return to the loop of a background goroutine, or to the caller. *)
Return(t) ==
    /\ pc' = [pc EXCEPT ![t] = IF t = "caller" THEN "idle" ELSE "sleep"]
    /\ file' = [file EXCEPT ![t] = NoFile]
-----------------------------------------------------------------------------
(* renter.                                                                 *)

(* TG.Add. *)
AddThread(t) ==
    /\ pc[t] = "spawned"
    /\ Goto(t, IF stopped THEN "done"
               ELSE CASE t = "renter"   -> "sync"
                      [] t = "uploader" -> "mkdir"
                      [] OTHER          -> "sleep")
    /\ UNCHANGED <<files, mu, diskVars, sia, told, runVars>>

(* The sync, enough coins, an allowance. *)
Prepare(from, to, until) ==
    /\ pc["renter"] = from
    /\ Goto("renter", IF phase = until THEN "done" ELSE to)
    /\ UNCHANGED <<files, mu, diskVars, sia, told, runVars>>

Synced       == Prepare("sync", "wallet", "none")
WalletFilled == Prepare("wallet", "allowance", "walletFull")
AllowanceSet == Prepare("allowance", "ready", "none")

(* Upload ready in time: the last phase starts the background goroutines. *)
UploadReady ==
    /\ pc["renter"] = "ready"
    /\ pc' = [t \in Threads |-> IF t = "renter" THEN "done"
                                ELSE IF t \in Background /\ phase = "backgroundJobsStarted"
                                     THEN "spawned" ELSE pc[t]]
    /\ UNCHANGED <<file, files, mu, diskVars, sia, told, runVars>>

(* Not upload ready within the timeout: the renter gives up. *)
NeverReady ==
    /\ pc["renter"] = "ready"
    /\ Goto("renter", "done")
    /\ UNCHANGED <<files, mu, diskVars, sia, told, runVars>>
-----------------------------------------------------------------------------
(* The loops.                                                              *)

(* Mutant: a transfer does not look at the stop. *)
SeeStopInLoopOnly(t) ==
    /\ stopped /\ pc[t] \in {"sync", "wallet", "allowance", "sleep"}
    /\ Goto(t, "done")
    /\ UNCHANGED <<files, mu, diskVars, sia, told, runVars>>

(* Each select: the stop channel ends a loop, or the upload or download    *)
(* that the goroutine waits for, which then returns no error (an Upload    *)
(* returns an empty path).                                                 *)
SeeStop(t) ==
    /\ stopped /\ pc[t] \in AtSelect
    /\ IF pc[t] \in {"poll", "loading"} THEN Return(t) ELSE Goto(t, "done")
    /\ UNCHANGED <<files, mu, diskVars, sia, told, runVars>>

(* Mkdir fails when the directory exists, and the uploader returns. *)
MakeDir ==
    /\ pc["uploader"] = "mkdir"
    /\ Goto("uploader", IF dir THEN "done" ELSE "sleep")
    /\ dir' = TRUE
    /\ UNCHANGED <<files, mu, source, sia, told, runVars>>

MakeDirFails ==
    /\ pc["uploader"] = "mkdir"
    /\ Goto("uploader", "done")
    /\ UNCHANGED <<files, mu, diskVars, sia, told, runVars>>

(* managedUpload begins: in the uploader's loop, or by Upload of a test,   *)
(* whose TG.Add fails after the stop.  It creates and fills a file.        *)
MayUpload(t) ==
    \/ t = "uploader" /\ pc[t] = "sleep"
    \/ t = "caller" /\ pc[t] = "idle" /\ ~stopped

CreateTempFile(t) ==
    /\ MayUpload(t)
    /\ dir' = TRUE
    /\ \E f \in Files : Fresh(f) /\ file' = [file EXCEPT ![t] = f] /\ source' = source \cup {f}
    /\ pc' = [pc EXCEPT ![t] = "list"]
    /\ UNCHANGED <<files, mu, sia, told, runVars>>

(* An error may leave a source file, empty or in part, that nobody lists. *)
CreateFails(t) ==
    /\ MayUpload(t)
    /\ dir' = TRUE
    /\ source' \in {source} \cup {source \cup {f} : f \in {g \in Files : Fresh(g)}}
    /\ UNCHANGED <<pc, file, files, mu, sia, told, runVars>>

(* The file is listed, under the mutex, before siad knows it. *)
ListFile(t) ==
    /\ pc[t] = "list" /\ (t = "uploader" => mu = "free")
    /\ files' = [files EXCEPT ![t] = @ \cup {file[t]}]
    /\ Goto(t, "post")
    /\ UNCHANGED <<mu, diskVars, sia, told, runVars>>

PostUpload(t) ==
    /\ pc[t] = "post"
    /\ sia' = [sia EXCEPT ![file[t]] = "uploading"]
    /\ Goto(t, "poll")
    /\ UNCHANGED <<files, mu, diskVars, told, runVars>>

(* A failed call, which siad may have served, or the upload's timeout: the *)
(* file stays listed.                                                      *)
UploadFails(t) ==
    /\ \/ pc[t] \in {"post", "poll"} /\ UNCHANGED sia
       \/ pc[t] = "post" /\ sia' = [sia EXCEPT ![file[t]] = "uploading"]
    /\ Return(t)
    /\ UNCHANGED <<files, mu, diskVars, told, runVars>>

(* The progress that siad shows is 100. *)
Uploaded(t) ==
    /\ pc[t] = "poll"
    /\ sia[file[t]] = "complete"
    /\ told' = IF t = "caller" THEN told \cup {file[t]} ELSE told
    /\ Return(t)
    /\ UNCHANGED <<files, mu, diskVars, sia, runVars>>

(* The world outside: siad uploads what it was given. *)
SiadUploads(f) ==
    /\ \/ sia[f] = "uploading" /\ sia' = [sia EXCEPT ![f] = "available"]
       \/ sia[f] = "available" /\ sia' = [sia EXCEPT ![f] = "complete"]
    /\ UNCHANGED <<pc, file, files, mu, diskVars, told, runVars>>
-----------------------------------------------------------------------------
(* Downloads.                                                              *)

(* managedDownloadRandomFile of the downloader, Download of a test: a file *)
(* that siad says is available.  With none, or on an error, nothing.       *)
BeginDownload(t) ==
    /\ \/ t = "downloader" /\ pc[t] = "sleep"
       \/ t = "caller" /\ pc[t] = "idle" /\ ~stopped
    /\ \E f \in Files :
         /\ sia[f] \in {"available", "complete"}
         /\ file' = [file EXCEPT ![t] = f]
    /\ pc' = [pc EXCEPT ![t] = "request"]
    /\ UNCHANGED <<files, mu, diskVars, sia, told, runVars>>

(* The call to siad, the wait for the download to appear and to complete   *)
(* in siad's list of downloads, and for the file on this disk.             *)
DownloadGoesOn(t) ==
    /\ \/ pc[t] = "request" /\ sia[file[t]] # "none" /\ Goto(t, "loading")
       \/ pc[t] = "loading" /\ Goto(t, "saving")
       \/ pc[t] = "saving"  /\ Return(t)
    /\ UNCHANGED <<files, mu, diskVars, sia, told, runVars>>

(* Each of them may fail, or time out. *)
DownloadFails(t) ==
    /\ pc[t] \in {"request", "loading", "saving"}
    /\ Return(t)
    /\ UNCHANGED <<files, mu, diskVars, sia, told, runVars>>
-----------------------------------------------------------------------------
(* managedDeleteRandom, with the mutex from its first step to its last.    *)

(* Mutant: the random file is one of siad's, not of the list. *)
PickAnyFile ==
    /\ pc["deleter"] = "sleep" /\ mu = "free"
    /\ Cardinality(files["uploader"]) >= DeleteFileThreshold
    /\ \E f \in {g \in Files : sia[g] # "none"} : file' = [file EXCEPT !["deleter"] = f]
    /\ pc' = [pc EXCEPT !["deleter"] = "delete"]
    /\ mu' = "deleter"
    /\ UNCHANGED <<files, diskVars, sia, told, runVars>>

(* With fewer files than the threshold nothing is deleted. *)
PickFile ==
    /\ pc["deleter"] = "sleep" /\ mu = "free"
    /\ Cardinality(files["uploader"]) >= DeleteFileThreshold
    /\ \E f \in files["uploader"] : file' = [file EXCEPT !["deleter"] = f]
    /\ pc' = [pc EXCEPT !["deleter"] = "delete"]
    /\ mu' = "deleter"
    /\ UNCHANGED <<files, diskVars, sia, told, runVars>>

(* Mutant: the source goes first. *)
DeleteSourceFirst ==
    /\ pc["deleter"] = "delete" /\ sia[file["deleter"]] # "none"
    /\ source' = source \ {file["deleter"]}
    /\ Goto("deleter", "remove")
    /\ UNCHANGED <<files, mu, dir, sia, told, runVars>>

(* siad deletes the file; it refuses one that it does not know. *)
DeleteInSiad ==
    /\ pc["deleter"] = "delete" /\ sia[file["deleter"]] # "none"
    /\ sia' = [sia EXCEPT ![file["deleter"]] = "none"]
    /\ Goto("deleter", "remove")
    /\ UNCHANGED <<files, mu, diskVars, told, runVars>>

(* Mutant: an error returns without the unlock. *)
DeleteFailsLocked ==
    /\ pc["deleter"] = "delete"
    /\ sia' \in {sia, [sia EXCEPT ![file["deleter"]] = "none"]}
    /\ Return("deleter")
    /\ UNCHANGED <<files, mu, diskVars, told, runVars>>

(* On an error, after which siad may have deleted the file nonetheless, it *)
(* stays in the list.                                                      *)
DeleteFails ==
    /\ pc["deleter"] = "delete"
    /\ sia' \in {sia, [sia EXCEPT ![file["deleter"]] = "none"]}
    /\ mu' = "free"
    /\ Return("deleter")
    /\ UNCHANGED <<files, diskVars, told, runVars>>

RemoveSource ==
    /\ pc["deleter"] = "remove"
    /\ source' = source \ {file["deleter"]}
    /\ files' = [files EXCEPT !["uploader"] = @ \ {file["deleter"]}]
    /\ mu' = "free"
    /\ Return("deleter")
    /\ UNCHANGED <<dir, sia, told, runVars>>

(* The file stays in the list, and siad has it no more. *)
RemoveFails ==
    /\ pc["deleter"] = "remove"
    /\ mu' = "free"
    /\ Return("deleter")
    /\ UNCHANGED <<files, diskVars, sia, told, runVars>>
-----------------------------------------------------------------------------
(* The ant.                                                                *)

(* The thread group closes StopChan; it is waited for in Restart. *)
Stop ==
    /\ ~stopped
    /\ stopped' = TRUE
    /\ UNCHANGED <<phase, pc, file, files, mu, diskVars, sia, told, old, restarts>>

ThreadGroupEmpty == \A t \in Threads : pc[t] \in Outside

(* StartSiad: a new JobRunner, a new RenterJob, the same disk and the same *)
(* siad directory.  A goroutine spawned too late for the old group ends    *)
(* in its TG.Add, whenever it gets there.                                  *)
Restart ==
    /\ stopped /\ ThreadGroupEmpty /\ restarts < MaxRestarts
    /\ restarts' = restarts + 1
    /\ stopped' = FALSE
    /\ pc' = FirstPc
    /\ old' = old \cup UNION {files[t] : t \in Uploaders}
    /\ files' = [t \in Uploaders |-> {}]
    /\ UNCHANGED <<phase, file, mu, diskVars, sia, told>>

Upload(t)   == \/ CreateTempFile(t) \/ CreateFails(t) \/ ListFile(t)
               \/ PostUpload(t) \/ UploadFails(t) \/ Uploaded(t)
Download(t) == BeginDownload(t) \/ DownloadGoesOn(t) \/ DownloadFails(t)
Deletion    == PickFile \/ DeleteInSiad \/ DeleteFails \/ RemoveSource \/ RemoveFails
Prepares    == Synced \/ WalletFilled \/ AllowanceSet \/ UploadReady \/ NeverReady

Next ==
    \/ Prepares \/ MakeDir \/ MakeDirFails
    \/ \E t \in Threads : AddThread(t) \/ SeeStop(t)
    \/ \E t \in Uploaders : Upload(t)
    \/ \E t \in Downloaders : Download(t)
    \/ Deletion
    \/ \E f \in Files : SiadUploads(f)
    \/ Stop \/ Restart

(* Every call to siad returns, and every wait without a select is bounded. *)
(* A select finds a stop.                                                  *)
GoesOn(t) ==
    \/ AddThread(t) \/ SeeStop(t)
    \/ /\ pc[t] \notin AtSelect \cup Outside
       /\ \/ t = "renter" /\ Prepares
          \/ t = "uploader" /\ (MakeDir \/ MakeDirFails)
          \/ t \in Uploaders /\ Upload(t)
          \/ t \in Downloaders /\ Download(t)
          \/ t = "deleter" /\ Deletion

(* Nothing is assumed of coins, hosts and transfers, nor of the timers of  *)
(* the loops: when one fires together with the stop a loop may go round    *)
(* once more, but not for ever; and the deleter does not withhold the      *)
(* mutex from the uploader for ever.                                       *)
Fairness ==
    /\ \A t \in Threads : WF_vars(GoesOn(t))
    /\ \A t \in Background : SF_vars(pc[t] = "sleep" /\ SeeStop(t))
    /\ SF_vars(ListFile("uploader"))

Spec == Init /\ [][Next]_vars /\ Fairness
-----------------------------------------------------------------------------
(* Properties.                                                             *)

(* siad, the disk and the list of uploaded files do not lose track of each *)
(* other, through every failed call and every race of the uploader with    *)
(* the deleter (managedUpload, managedDeleteRandom): whatever siad holds   *)
(* is in the list of some RenterJob, of this run or of an earlier one; and *)
(* the source from which siad repairs a file is on disk as long as siad    *)
(* has the file or a list names it.                                        *)
Listed == UNION {files[t] : t \in Uploaders}

SiaFilesAreKept ==
    \A f \in Files : /\ sia[f] # "none" => f \in old \cup Listed
                     /\ sia[f] # "none" \/ f \in Listed => f \in source

(* What Upload reports to a test as uploaded is complete, and stays so:    *)
(* the deleter of the background RenterJob never takes it, nor do restarts.*)
ReportedStaysUploaded == \A f \in told : sia[f] = "complete"

(* Why these hold.  A file that an upload has created, and siad does not   *)
(* know yet, is nobody else's, but that the deleter may have picked it from *)
(* the list: siad then refuses to delete it.  What the deleter deals with  *)
(* stays in its list, and is gone from siad when it removes the source.    *)
(* The lists share no file, and the deleter's none with what was told.     *)
(* The background goroutines begin after the renter.  IInv is inductive.   *)
NewFileIsOwn ==
    \A t \in Uploaders : pc[t] \in {"list", "post"} =>
        /\ file[t] \in source /\ sia[file[t]] = "none"
        /\ \A u \in Threads \ {t} : file[u] = file[t] =>
              u = "deleter" /\ pc[u] = "delete" /\ pc[t] = "post"
        /\ IF pc[t] = "list" THEN file[t] \notin Listed ELSE file[t] \in files[t]
CallerPolls == pc["caller"] = "poll" => file["caller"] \in files["caller"]
DeletionIsListed ==
    pc["deleter"] \in {"delete", "remove"} =>
        /\ file["deleter"] \in files["uploader"]
        /\ pc["deleter"] = "remove" => sia[file["deleter"]] = "none"
ListsAreApart == files["uploader"] \cap (files["caller"] \cup told) = {}
BackgroundIsLast ==
    pc["renter"] \in {"spawned", "sync", "wallet", "allowance", "ready"} =>
        \A t \in Background : pc[t] = "none"
IInv == /\ TypeOK /\ SiaFilesAreKept /\ ReportedStaysUploaded
        /\ NewFileIsOwn /\ CallerPolls /\ DeletionIsListed /\ ListsAreApart /\ BackgroundIsLast

(* Stop ends every goroutine of the job and every transfer of a test, so   *)
(* that Close and StartSiad of the ant get through.                        *)
StopEndsRenter == stopped ~> ThreadGroupEmpty

(* "a function that continuously runs for the renter job": but the Mkdir   *)
(* of the uploader fails on the directory of an earlier run, or of a test, *)
(* and the job has no uploader from then on.                               *)
OldDirectoryIsNoObstacle ==
    [][pc["uploader"] = "mkdir" /\ pc'["uploader"] = "done" => ~dir]_vars
=============================================================================
