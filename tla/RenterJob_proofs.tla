-------------------------- MODULE RenterJob_proofs --------------------------
(***************************************************************************)
(* Proofs about RenterJob, for any set of files, any threshold, any number *)
(* of restarts: siad, the disk and the lists keep track of each other, and *)
(* what a test was told is uploaded stays uploaded.                        *)
(***************************************************************************)
EXTENDS RenterJob, TLAPS

LEMMA ListedIsBoth == Listed = files["uploader"] \cup files["caller"]
  BY DEF Listed, Uploaders

LEMMA ListedIsBothNext == Listed' = files'["uploader"] \cup files'["caller"]
  BY DEF Listed, Uploaders

(* The types, one goroutine or one file at a time.                         *)
LEMMA TypeStep == ASSUME IInv, [Next]_vars PROVE TypeOK'
<1> USE DEF IInv, Threads, Background, Uploaders, Downloaders, Labels, AtSelect, Outside
<1>1. CASE UNCHANGED vars
  BY <1>1 DEF vars, TypeOK
<1>2. CASE Synced \/ WalletFilled \/ AllowanceSet \/ NeverReady
  BY <1>2 DEF Synced, WalletFilled, AllowanceSet, NeverReady, Prepare, Goto, TypeOK, diskVars, runVars
<1>3. CASE UploadReady
  <2>1. /\ pc["renter"] = "ready"
        /\ pc' = [t \in Threads |-> IF t = "renter" THEN "done"
                                    ELSE IF t \in Background /\ phase = "backgroundJobsStarted"
                                         THEN "spawned" ELSE pc[t]]
        /\ UNCHANGED <<file, files, mu, source, dir, sia, told, phase, old, stopped, restarts>>
    BY <1>3 DEF UploadReady, diskVars, runVars
  <2>2. pc["deleter"] = "none" /\ pc'["deleter"] \in {"none", "spawned"}
    BY <2>1 DEF BackgroundIsLast
  <2>3. pc' \in [Threads -> Labels]
    BY <2>1 DEF TypeOK
  <2> QED BY <2>1, <2>2, <2>3 DEF TypeOK
<1>4. CASE MakeDir \/ MakeDirFails
  BY <1>4 DEF MakeDir, MakeDirFails, Goto, TypeOK, diskVars, runVars
<1>5. ASSUME NEW t \in Threads, AddThread(t) PROVE TypeOK'
  <2>1. PICK l \in {"done", "sync", "mkdir", "sleep"} : pc' = [pc EXCEPT ![t] = l]
    BY <1>5 DEF AddThread, Goto
  <2> QED BY <1>5, <2>1 DEF AddThread, Goto, TypeOK, diskVars, runVars
<1>6. ASSUME NEW t \in Threads, SeeStop(t) PROVE TypeOK'
  BY <1>6 DEF SeeStop, Return, Goto, TypeOK, diskVars, runVars
<1>7. ASSUME NEW t \in Uploaders, Upload(t) PROVE TypeOK'
  <2>1. CASE CreateTempFile(t)
    BY <2>1 DEF CreateTempFile, MayUpload, TypeOK, runVars
  <2>2. CASE CreateFails(t)
    BY <2>2 DEF CreateFails, TypeOK, runVars
  <2>3. CASE ListFile(t)
    <3>1. file[t] \in Files /\ files[t] \cup {file[t]} \in SUBSET Files
      BY <2>3 DEF ListFile, NewFileIsOwn, TypeOK
    <3> QED BY <2>3, <3>1 DEF ListFile, Goto, TypeOK, diskVars, runVars
  <2>4. CASE PostUpload(t)
    BY <2>4 DEF PostUpload, Goto, TypeOK, diskVars, runVars
  <2>5. CASE UploadFails(t)
    BY <2>5 DEF UploadFails, Return, TypeOK, diskVars, runVars
  <2>6. CASE Uploaded(t)
    <3>1. told' \subseteq Files
      <4>1. t = "caller" => file[t] \in Files
        BY <2>6 DEF Uploaded, CallerPolls, TypeOK
      <4> QED BY <2>6, <4>1 DEF Uploaded, TypeOK
    <3> QED BY <2>6, <3>1 DEF Uploaded, Return, TypeOK, diskVars, runVars
  <2> QED BY <1>7, <2>1, <2>2, <2>3, <2>4, <2>5, <2>6 DEF Upload
<1>8. ASSUME NEW t \in Downloaders, Download(t) PROVE TypeOK'
  <2>1. CASE BeginDownload(t)
    BY <2>1 DEF BeginDownload, TypeOK, diskVars, runVars
  <2>2. CASE DownloadGoesOn(t) \/ DownloadFails(t)
    BY <2>2 DEF DownloadGoesOn, DownloadFails, Return, Goto, TypeOK, diskVars, runVars
  <2> QED BY <1>8, <2>1, <2>2 DEF Download
<1>9. CASE Deletion
  <2>1. CASE PickFile
    BY <2>1 DEF PickFile, TypeOK, diskVars, runVars
  <2>2. CASE DeleteInSiad
    BY <2>2 DEF DeleteInSiad, Goto, TypeOK, diskVars, runVars
  <2>3. CASE DeleteFails \/ RemoveFails
    BY <2>3 DEF DeleteFails, RemoveFails, Return, TypeOK, diskVars, runVars
  <2>4. CASE RemoveSource
    <3>1. files' \in [Uploaders -> SUBSET Files]
      BY <2>4 DEF RemoveSource, TypeOK
    <3> QED BY <2>4, <3>1 DEF RemoveSource, Return, TypeOK, runVars
  <2> QED BY <1>9, <2>1, <2>2, <2>3, <2>4 DEF Deletion
<1>10. ASSUME NEW f \in Files, SiadUploads(f) PROVE TypeOK'
  BY <1>10 DEF SiadUploads, TypeOK, diskVars, runVars
<1>11. CASE Stop
  BY <1>11 DEF Stop, TypeOK, diskVars
<1>12. CASE Restart
  <2>1. /\ pc' = FirstPc /\ pc["deleter"] \in Outside
        /\ old' = old \cup Listed /\ files' = [t \in Uploaders |-> {}]
        /\ stopped' = FALSE /\ restarts' = restarts + 1 /\ restarts < MaxRestarts
        /\ UNCHANGED <<phase, file, mu, source, dir, sia, told>>
    BY <1>12 DEF Restart, ThreadGroupEmpty, diskVars, Listed
  <2>2. pc' \in [Threads -> Labels] /\ pc'["deleter"] = "none"
    BY <2>1 DEF FirstPc
  <2>3. old' \subseteq Files
    BY <2>1, ListedIsBoth DEF TypeOK
  <2>4. restarts' \in 0 .. MaxRestarts
    BY <2>1, RestartsAssumption DEF TypeOK
  <2> QED BY <2>1, <2>2, <2>3, <2>4 DEF TypeOK
<1> QED BY <1>1, <1>2, <1>3, <1>4, <1>5, <1>6, <1>7, <1>8, <1>9, <1>10, <1>11, <1>12 DEF Next, Prepares

(* A step that moves goroutines between places where they have nothing to  *)
(* upload or to delete; it may leave a source that nobody lists.           *)
LEMMA KeepStep ==
  ASSUME IInv, TypeOK', UNCHANGED <<files, sia, told, old>>, source \subseteq source',
         \A t \in Uploaders : pc'[t] \in {"list", "post"} => pc'[t] = pc[t] /\ file'[t] = file[t],
         pc'["caller"] = "poll" => pc["caller"] = "poll" /\ file'["caller"] = file["caller"],
         pc'["deleter"] \in {"delete", "remove"} =>
            pc'["deleter"] = pc["deleter"] /\ file'["deleter"] = file["deleter"],
         \A t \in Threads : \/ file'[t] = NoFile
                            \/ sia[file'[t]] # "none"
                            \/ file'[t] = file[t] /\ (t = "deleter" => pc'[t] = pc[t] \/ pc[t] # "delete"),
         BackgroundIsLast'
  PROVE  IInv'
<1> USE DEF IInv
<1>1. SiaFilesAreKept' /\ ReportedStaysUploaded' /\ ListsAreApart'
  BY DEF SiaFilesAreKept, ReportedStaysUploaded, ListsAreApart, Listed
<1>2. CallerPolls' /\ DeletionIsListed'
  BY DEF CallerPolls, DeletionIsListed
<1>3. NewFileIsOwn'
  <2> SUFFICES ASSUME NEW t \in Uploaders, pc'[t] \in {"list", "post"}
               PROVE  /\ file'[t] \in source' /\ sia[file'[t]] = "none"
                      /\ \A u \in Threads \ {t} : file'[u] = file'[t] =>
                            u = "deleter" /\ pc'[u] = "delete" /\ pc'[t] = "post"
                      /\ IF pc'[t] = "list" THEN file'[t] \notin Listed ELSE file'[t] \in files[t]
    BY DEF NewFileIsOwn, Listed
  <2>1. pc'[t] = pc[t] /\ file'[t] = file[t]
    OBVIOUS
  <2>2. /\ file[t] \in source /\ sia[file[t]] = "none" /\ file[t] # NoFile
        /\ IF pc[t] = "list" THEN file[t] \notin Listed ELSE file[t] \in files[t]
    BY <2>1, NoFileAssumption DEF NewFileIsOwn, TypeOK
  <2>3. ASSUME NEW u \in Threads \ {t}, file'[u] = file[t]
        PROVE  u = "deleter" /\ pc'[u] = "delete" /\ pc[t] = "post"
    <3>1. file'[u] = file[u] /\ (u = "deleter" => pc'[u] = pc[u] \/ pc[u] # "delete")
      BY <2>2, <2>3
    <3>2. u = "deleter" /\ pc[u] = "delete" /\ pc[t] = "post"
      BY <2>1, <2>3, <3>1 DEF NewFileIsOwn
    <3> QED BY <3>1, <3>2
  <2> QED BY <2>1, <2>2, <2>3
<1> QED BY <1>1, <1>2, <1>3

(* The renter, the starts of goroutines, the stop and the downloads.       *)
LEMMA KeepingSteps ==
  ASSUME IInv, TypeOK',
         \/ Prepares \/ MakeDir \/ MakeDirFails \/ Stop \/ UNCHANGED vars
         \/ \E t \in Threads : AddThread(t) \/ SeeStop(t)
         \/ \E t \in Downloaders : Download(t)
  PROVE  IInv'
<1> USE DEF IInv, Threads, Background, Uploaders, Downloaders
<1>1. CASE Stop \/ UNCHANGED vars
  <2>1. UNCHANGED <<pc, file, files, source, sia, told, old>>
    BY <1>1 DEF Stop, vars, diskVars
  <2>2. BackgroundIsLast'
    BY <2>1 DEF BackgroundIsLast
  <2> QED BY <2>1, <2>2, KeepStep
<1>2. CASE Synced \/ WalletFilled \/ AllowanceSet \/ NeverReady
  <2>1. PICK l \in {"done", "wallet", "allowance", "ready"} :
          /\ pc["renter"] \in {"sync", "wallet", "allowance", "ready"}
          /\ pc' = [pc EXCEPT !["renter"] = l]
          /\ UNCHANGED <<file, files, source, sia, told, old>>
    BY <1>2 DEF Synced, WalletFilled, AllowanceSet, NeverReady, Prepare, Goto, diskVars, runVars
  <2>2. \A t \in Threads : t # "renter" => pc'[t] = pc[t]
    BY <2>1 DEF TypeOK
  <2>3. BackgroundIsLast'
    BY <2>1, <2>2 DEF BackgroundIsLast
  <2> QED BY <2>1, <2>2, <2>3, KeepStep
<1>3. CASE UploadReady
  <2>1. /\ pc["renter"] = "ready"
        /\ pc' = [t \in Threads |-> IF t = "renter" THEN "done"
                                    ELSE IF t \in Background /\ phase = "backgroundJobsStarted"
                                         THEN "spawned" ELSE pc[t]]
        /\ UNCHANGED <<file, files, source, sia, told, old>>
    BY <1>3 DEF UploadReady, diskVars, runVars
  <2>2. /\ pc'["renter"] = "done" /\ pc'["caller"] = pc["caller"]
        /\ \A t \in Background : pc[t] = "none" /\ pc'[t] \in {"none", "spawned"}
    BY <2>1 DEF BackgroundIsLast
  <2>3. BackgroundIsLast'
    BY <2>2 DEF BackgroundIsLast
  <2> QED BY <2>1, <2>2, <2>3, KeepStep
<1>4. CASE MakeDir \/ MakeDirFails
  <2>1. PICK l \in {"done", "sleep"} :
          /\ pc["uploader"] = "mkdir"
          /\ pc' = [pc EXCEPT !["uploader"] = l]
          /\ UNCHANGED <<file, files, source, sia, told, old>>
    BY <1>4 DEF MakeDir, MakeDirFails, Goto, diskVars, runVars
  <2>2. pc'["uploader"] = l /\ \A t \in Threads : t # "uploader" => pc'[t] = pc[t]
    BY <2>1 DEF TypeOK
  <2>3. BackgroundIsLast'
    BY <2>1, <2>2 DEF BackgroundIsLast
  <2> QED BY <2>1, <2>2, <2>3, KeepStep
<1>5. ASSUME NEW t \in Threads, AddThread(t) PROVE IInv'
  <2>1. PICK l \in {"done", "sync", "mkdir", "sleep"} :
          /\ pc[t] = "spawned" /\ pc' = [pc EXCEPT ![t] = l]
          /\ l = "sync" => t = "renter"
          /\ t = "renter" => l \in {"sync", "done"}
          /\ UNCHANGED <<file, files, source, sia, told, old>>
    BY <1>5 DEF AddThread, Goto, diskVars, runVars
  <2>2. pc'[t] = l /\ \A u \in Threads : u # t => pc'[u] = pc[u]
    BY <2>1 DEF TypeOK
  <2>3. BackgroundIsLast'
    BY <2>1, <2>2 DEF BackgroundIsLast
  <2> QED BY <2>1, <2>2, <2>3, KeepStep
<1>6. ASSUME NEW t \in Threads, SeeStop(t) PROVE IInv'
  <2>1. PICK l \in {"done", "idle", "sleep"}, g \in {NoFile, file[t]} :
          /\ pc[t] \in AtSelect /\ pc' = [pc EXCEPT ![t] = l]
          /\ file' = [file EXCEPT ![t] = g]
          /\ UNCHANGED <<files, source, sia, told, old>>
    <3>1. pc[t] \in AtSelect /\ UNCHANGED <<files, source, sia, told, old>>
      BY <1>6 DEF SeeStop, diskVars, runVars
    <3>2. CASE Return(t)
      BY <3>1, <3>2 DEF Return
    <3>3. CASE Goto(t, "done")
      <4>1. file' = [file EXCEPT ![t] = file[t]]
        BY <3>3 DEF Goto, TypeOK
      <4> QED BY <3>1, <3>3, <4>1 DEF Goto
    <3> QED BY <1>6, <3>2, <3>3 DEF SeeStop
  <2>2. /\ pc'[t] = l /\ \A u \in Threads : u # t => pc'[u] = pc[u] /\ file'[u] = file[u]
        /\ file'[t] = g
    BY <2>1 DEF TypeOK
  <2>3. BackgroundIsLast'
    BY <2>1, <2>2 DEF BackgroundIsLast, AtSelect
  <2> QED BY <2>1, <2>2, <2>3, KeepStep DEF AtSelect
<1>7. ASSUME NEW t \in Downloaders, Download(t) PROVE IInv'
  <2>1. PICK l \in {"request", "loading", "saving", "idle", "sleep"}, g \in Files \cup {NoFile} :
          /\ pc[t] \in {"sleep", "idle", "request", "loading", "saving"}
          /\ pc' = [pc EXCEPT ![t] = l] /\ file' = [file EXCEPT ![t] = g]
          /\ g = NoFile \/ g = file[t] \/ sia[g] # "none"
          /\ UNCHANGED <<files, source, sia, told, old>>
    <3>1. CASE BeginDownload(t)
      BY <3>1 DEF BeginDownload, diskVars, runVars
    <3>2. CASE DownloadGoesOn(t) /\ pc[t] \in {"request", "loading"}
      <4>1. /\ pc' = [pc EXCEPT ![t] = "loading"] \/ pc' = [pc EXCEPT ![t] = "saving"]
            /\ file' = [file EXCEPT ![t] = file[t]] /\ file[t] \in Files \cup {NoFile}
        BY <3>2 DEF DownloadGoesOn, Goto, TypeOK
      <4> QED BY <3>2, <4>1 DEF DownloadGoesOn, diskVars, runVars
    <3>3. CASE DownloadFails(t) \/ (DownloadGoesOn(t) /\ pc[t] = "saving")
      BY <3>3 DEF DownloadGoesOn, DownloadFails, Return, diskVars, runVars
    <3> QED BY <1>7, <3>1, <3>2, <3>3 DEF Download, DownloadGoesOn
  <2>2. /\ pc'[t] = l /\ file'[t] = g
        /\ \A u \in Threads : u # t => pc'[u] = pc[u] /\ file'[u] = file[u]
    BY <2>1 DEF TypeOK
  <2>3. BackgroundIsLast'
    BY <2>1, <2>2 DEF BackgroundIsLast
  <2> QED BY <2>1, <2>2, <2>3, KeepStep
<1> QED BY <1>1, <1>2, <1>3, <1>4, <1>5, <1>6, <1>7 DEF Prepares

(* An upload begins with a file that is nobody's.                          *)
LEMMA CreateStep ==
  ASSUME IInv, TypeOK', NEW t \in Uploaders, CreateTempFile(t) \/ CreateFails(t)
  PROVE  IInv'
<1> USE DEF IInv, Threads, Background, Uploaders
<1>1. CASE CreateFails(t)
  <2>1. UNCHANGED <<pc, file, files, sia, told, old>> /\ source \subseteq source'
    BY <1>1 DEF CreateFails, runVars
  <2>2. BackgroundIsLast'
    BY <2>1 DEF BackgroundIsLast
  <2> QED BY <2>1, <2>2, KeepStep
<1>2. CASE CreateTempFile(t)
  <2>1. PICK f \in Files : /\ Fresh(f) /\ file' = [file EXCEPT ![t] = f]
                           /\ source' = source \cup {f}
    BY <1>2 DEF CreateTempFile
  <2>2. /\ pc[t] \in {"sleep", "idle"} /\ pc' = [pc EXCEPT ![t] = "list"]
        /\ UNCHANGED <<files, sia, told, old>>
    BY <1>2 DEF CreateTempFile, MayUpload, runVars
  <2>3. /\ pc'[t] = "list" /\ file'[t] = f
        /\ \A u \in Threads : u # t => pc'[u] = pc[u] /\ file'[u] = file[u] /\ file[u] # f
    BY <2>1, <2>2 DEF TypeOK, Fresh
  <2>4. f \notin source /\ sia[f] = "none" /\ f \notin Listed
    BY <2>1 DEF Fresh, SiaFilesAreKept
  <2>5. SiaFilesAreKept' /\ ReportedStaysUploaded' /\ ListsAreApart'
    BY <2>1, <2>2 DEF SiaFilesAreKept, ReportedStaysUploaded, ListsAreApart, Listed
  <2>6. CallerPolls' /\ DeletionIsListed' /\ BackgroundIsLast'
    BY <2>2, <2>3 DEF CallerPolls, DeletionIsListed, BackgroundIsLast
  <2>7. NewFileIsOwn'
    <3> SUFFICES ASSUME NEW r \in Uploaders, pc'[r] \in {"list", "post"}
                 PROVE  /\ file'[r] \in source' /\ sia[file'[r]] = "none"
                        /\ \A u \in Threads \ {r} : file'[u] = file'[r] =>
                              u = "deleter" /\ pc'[u] = "delete" /\ pc'[r] = "post"
                        /\ IF pc'[r] = "list" THEN file'[r] \notin Listed ELSE file'[r] \in files[r]
      BY <2>2 DEF NewFileIsOwn, Listed
    <3>1. CASE r = t
      BY <2>1, <2>3, <2>4, <3>1
    <3>2. CASE r # t
      <4>1. /\ pc'[r] = pc[r] /\ file'[r] = file[r] /\ file[r] # f
        BY <2>3, <3>2
      <4> QED BY <4>1, <2>1, <2>3, <3>2 DEF NewFileIsOwn
    <3> QED BY <3>1, <3>2
  <2> QED BY <2>5, <2>6, <2>7
<1> QED BY <1>1, <1>2

(* The file gets into the list of its uploader.                            *)
LEMMA ListStep ==
  ASSUME IInv, TypeOK', NEW t \in Uploaders, ListFile(t)
  PROVE  IInv'
<1> USE DEF IInv, Threads, Background, Uploaders
<1>1. /\ pc[t] = "list" /\ pc' = [pc EXCEPT ![t] = "post"]
      /\ files' = [files EXCEPT ![t] = @ \cup {file[t]}]
      /\ UNCHANGED <<file, source, sia, told, old>>
  BY DEF ListFile, Goto, diskVars, runVars
<1>2. /\ pc'[t] = "post" /\ \A u \in Threads : u # t => pc'[u] = pc[u]
      /\ files'[t] = files[t] \cup {file[t]} /\ \A u \in Uploaders : u # t => files'[u] = files[u]
  BY <1>1 DEF TypeOK
<1>3. /\ file[t] \in source /\ sia[file[t]] = "none" /\ file[t] \notin Listed
      /\ \A u \in Threads \ {t} : file[u] # file[t]
  BY <1>1 DEF NewFileIsOwn
<1>4. Listed' = Listed \cup {file[t]}
  BY <1>2, ListedIsBoth, ListedIsBothNext
<1>5. SiaFilesAreKept' /\ ReportedStaysUploaded'
  BY <1>1, <1>3, <1>4 DEF SiaFilesAreKept, ReportedStaysUploaded
<1>6. ListsAreApart'
  <2>1. file[t] \notin told
    BY <1>3 DEF ReportedStaysUploaded
  <2> QED BY <2>1, <1>1, <1>2, <1>3, ListedIsBoth DEF ListsAreApart
<1>7. CallerPolls' /\ DeletionIsListed' /\ BackgroundIsLast'
  BY <1>1, <1>2 DEF CallerPolls, DeletionIsListed, BackgroundIsLast
<1>8. NewFileIsOwn'
  <2> SUFFICES ASSUME NEW r \in Uploaders, pc'[r] \in {"list", "post"}
               PROVE  /\ file[r] \in source /\ sia[file[r]] = "none"
                      /\ \A u \in Threads \ {r} : file[u] = file[r] =>
                            u = "deleter" /\ pc'[u] = "delete" /\ pc'[r] = "post"
                      /\ IF pc'[r] = "list" THEN file[r] \notin Listed' ELSE file[r] \in files'[r]
    BY <1>1 DEF NewFileIsOwn
  <2>1. CASE r = t
    BY <1>2, <1>3, <2>1
  <2>2. CASE r # t
    BY <1>2, <1>3, <1>4, <2>2 DEF NewFileIsOwn
  <2> QED BY <2>1, <2>2
<1> QED BY <1>5, <1>6, <1>7, <1>8

(* siad gets to know a listed file: by an upload, or by a failed one.      *)
LEMMA PostStep ==
  ASSUME IInv, TypeOK', NEW t \in Uploaders, pc[t] = "post",
         sia' = [sia EXCEPT ![file[t]] = "uploading"],
         PostUpload(t) \/ UploadFails(t)
  PROVE  IInv'
<1> USE DEF IInv, Threads, Background, Uploaders
<1>1. PICK l \in {"poll", "idle", "sleep"}, g \in {file[t], NoFile} :
        /\ pc' = [pc EXCEPT ![t] = l] /\ file' = [file EXCEPT ![t] = g]
        /\ l = "poll" => g = file[t]
        /\ UNCHANGED <<files, source, told, old>>
  <2>1. CASE PostUpload(t)
    <3>1. file' = [file EXCEPT ![t] = file[t]]
      BY <2>1 DEF PostUpload, Goto, TypeOK
    <3> QED BY <2>1, <3>1 DEF PostUpload, Goto, diskVars, runVars
  <2>2. CASE UploadFails(t)
    BY <2>2 DEF UploadFails, Return, diskVars, runVars
  <2> QED BY <2>1, <2>2
<1>2. /\ pc'[t] = l /\ file'[t] = g
      /\ \A u \in Threads : u # t => pc'[u] = pc[u] /\ file'[u] = file[u]
  BY <1>1 DEF TypeOK
<1>3. /\ file[t] \in files[t] /\ file[t] \in source /\ file[t] \in Files /\ sia[file[t]] = "none"
      /\ \A u \in Threads \ {t} : file[u] = file[t] => u = "deleter" /\ pc[u] = "delete"
  BY DEF NewFileIsOwn, TypeOK
<1>4. \A f \in Files : f # file[t] => sia'[f] = sia[f]
  BY DEF TypeOK
<1>5. SiaFilesAreKept'
  BY <1>1, <1>3, <1>4 DEF SiaFilesAreKept, Listed
<1>6. ReportedStaysUploaded'
  BY <1>1, <1>3, <1>4 DEF ReportedStaysUploaded, TypeOK
<1>7. ListsAreApart' /\ CallerPolls' /\ BackgroundIsLast'
  BY <1>1, <1>2, <1>3 DEF ListsAreApart, CallerPolls, BackgroundIsLast
<1>8. DeletionIsListed'
  <2> SUFFICES ASSUME pc["deleter"] \in {"delete", "remove"}
               PROVE  /\ file["deleter"] \in files["uploader"]
                      /\ pc["deleter"] = "remove" => sia'[file["deleter"]] = "none"
    BY <1>1, <1>2 DEF DeletionIsListed
  <2>1. file["deleter"] \in files["uploader"] /\ (pc["deleter"] = "remove" => sia[file["deleter"]] = "none")
    BY DEF DeletionIsListed
  <2>2. pc["deleter"] = "remove" => file["deleter"] # file[t]
    BY <1>3
  <2> QED BY <2>1, <2>2, <1>4 DEF TypeOK
<1>9. NewFileIsOwn'
  <2> SUFFICES ASSUME NEW r \in Uploaders, pc'[r] \in {"list", "post"}
               PROVE  /\ file'[r] \in source /\ sia'[file'[r]] = "none"
                      /\ \A u \in Threads \ {r} : file'[u] = file'[r] =>
                            u = "deleter" /\ pc'[u] = "delete" /\ pc'[r] = "post"
                      /\ IF pc'[r] = "list" THEN file'[r] \notin Listed ELSE file'[r] \in files[r]
    BY <1>1 DEF NewFileIsOwn, Listed
  <2>1. r # t /\ pc'[r] = pc[r] /\ file'[r] = file[r]
    BY <1>2
  <2>2. file[r] # file[t] /\ file[r] \in Files /\ file[r] # NoFile
    BY <2>1, <1>3, NoFileAssumption DEF NewFileIsOwn, TypeOK
  <2> QED BY <2>1, <2>2, <1>2, <1>4 DEF NewFileIsOwn
<1> QED BY <1>5, <1>6, <1>7, <1>8, <1>9

(* The steps of an upload.                                                 *)
LEMMA UploadStep ==
  ASSUME IInv, TypeOK', NEW t \in Uploaders, Upload(t)
  PROVE  IInv'
<1>1. CASE CreateTempFile(t) \/ CreateFails(t)
  BY <1>1, CreateStep
<1>2. CASE ListFile(t)
  BY <1>2, ListStep
<1>3. CASE \/ PostUpload(t)
           \/ UploadFails(t) /\ pc[t] = "post" /\ sia' = [sia EXCEPT ![file[t]] = "uploading"]
  BY <1>3, PostStep DEF PostUpload
<1>4. CASE (UploadFails(t) /\ UNCHANGED sia) \/ Uploaded(t)
  <2> USE DEF IInv, Threads, Background, Uploaders
  <2>1. /\ pc[t] \in {"post", "poll"}
        /\ pc' = [pc EXCEPT ![t] = IF t = "caller" THEN "idle" ELSE "sleep"]
        /\ file' = [file EXCEPT ![t] = NoFile]
        /\ UNCHANGED <<files, source, sia, old>>
    BY <1>4 DEF UploadFails, Uploaded, Return, diskVars, runVars
  <2>2. /\ pc'[t] \in {"idle", "sleep"} /\ file'[t] = NoFile
        /\ \A u \in Threads : u # t => pc'[u] = pc[u] /\ file'[u] = file[u]
    BY <2>1 DEF TypeOK
  <2>3. BackgroundIsLast'
    BY <2>1, <2>2 DEF BackgroundIsLast
  <2>4. CASE UNCHANGED told
    BY <2>1, <2>2, <2>3, <2>4, KeepStep
  <2>5. CASE Uploaded(t) /\ t = "caller"
    <3>1. /\ told' = told \cup {file["caller"]} /\ sia[file["caller"]] = "complete"
          /\ file["caller"] \in files["caller"]
      BY <2>5 DEF Uploaded, CallerPolls
    <3>2. SiaFilesAreKept' /\ ReportedStaysUploaded' /\ ListsAreApart'
      BY <2>1, <3>1 DEF SiaFilesAreKept, ReportedStaysUploaded, ListsAreApart, Listed
    <3>3. CallerPolls' /\ DeletionIsListed'
      BY <2>1, <2>2 DEF CallerPolls, DeletionIsListed
    <3>4. NewFileIsOwn'
      <4> SUFFICES ASSUME NEW r \in Uploaders, pc'[r] \in {"list", "post"}
                   PROVE  /\ file'[r] \in source /\ sia[file'[r]] = "none"
                          /\ \A u \in Threads \ {r} : file'[u] = file'[r] =>
                                u = "deleter" /\ pc'[u] = "delete" /\ pc'[r] = "post"
                          /\ IF pc'[r] = "list" THEN file'[r] \notin Listed ELSE file'[r] \in files[r]
        BY <2>1 DEF NewFileIsOwn, Listed
      <4>1. r # t /\ pc'[r] = pc[r] /\ file'[r] = file[r]
        BY <2>2
      <4>2. file[r] # NoFile
        BY <4>1, NoFileAssumption DEF NewFileIsOwn, TypeOK
      <4> QED BY <4>1, <4>2, <2>2 DEF NewFileIsOwn
    <3> QED BY <2>3, <3>2, <3>3, <3>4
  <2> QED BY <1>4, <2>4, <2>5 DEF UploadFails, Uploaded
<1> QED BY <1>1, <1>2, <1>3, <1>4 DEF Upload, UploadFails

(* What the deleter takes out of siad is listed, and was told to nobody.   *)
LEMMA SiadForgetsStep ==
  ASSUME IInv, TypeOK', pc["deleter"] = "delete", sia[file["deleter"]] # "none",
         sia' = [sia EXCEPT ![file["deleter"]] = "none"],
         UNCHANGED <<files, source, told, old>>,
         \A u \in Threads : u # "deleter" => pc'[u] = pc[u] /\ file'[u] = file[u],
         \/ pc'["deleter"] = "remove" /\ file'["deleter"] = file["deleter"]
         \/ pc'["deleter"] = "sleep" /\ file'["deleter"] = NoFile
  PROVE  IInv'
<1> USE DEF IInv, Threads, Background, Uploaders
<1>1. /\ file["deleter"] \in files["uploader"] /\ file["deleter"] \in Files
      /\ file["deleter"] \notin told
  BY DEF DeletionIsListed, ListsAreApart, TypeOK
<1>2. /\ sia'[file["deleter"]] = "none"
      /\ \A f \in Files : f # file["deleter"] => sia'[f] = sia[f]
  BY <1>1 DEF TypeOK
<1>3. SiaFilesAreKept' /\ ReportedStaysUploaded' /\ ListsAreApart'
  BY <1>1, <1>2 DEF SiaFilesAreKept, ReportedStaysUploaded, ListsAreApart, Listed, TypeOK
<1>4. CallerPolls' /\ DeletionIsListed' /\ BackgroundIsLast'
  BY <1>1, <1>2 DEF CallerPolls, DeletionIsListed, BackgroundIsLast
<1>5. NewFileIsOwn'
  <2> SUFFICES ASSUME NEW r \in Uploaders, pc[r] \in {"list", "post"}
               PROVE  /\ file[r] \in source /\ sia'[file[r]] = "none"
                      /\ \A u \in Threads \ {r} : file'[u] = file[r] =>
                            u = "deleter" /\ pc'[u] = "delete" /\ pc[r] = "post"
                      /\ IF pc[r] = "list" THEN file[r] \notin Listed ELSE file[r] \in files[r]
    BY DEF NewFileIsOwn, Listed
  <2>1. file[r] \in Files /\ file[r] # NoFile /\ file[r] # file["deleter"]
    BY NoFileAssumption DEF NewFileIsOwn, TypeOK
  <2> QED BY <2>1, <1>2 DEF NewFileIsOwn
<1> QED BY <1>3, <1>4, <1>5

(* The steps of managedDeleteRandom.                                       *)
LEMMA DeletionStep == ASSUME IInv, TypeOK', Deletion PROVE IInv'
<1> USE DEF IInv, Threads, Background, Uploaders
<1>1. CASE PickFile
  <2>1. PICK f \in files["uploader"] :
          /\ pc["deleter"] = "sleep" /\ pc' = [pc EXCEPT !["deleter"] = "delete"]
          /\ file' = [file EXCEPT !["deleter"] = f]
          /\ UNCHANGED <<files, source, sia, told, old>>
    BY <1>1 DEF PickFile, diskVars, runVars
  <2>2. /\ pc'["deleter"] = "delete" /\ file'["deleter"] = f
        /\ \A u \in Threads : u # "deleter" => pc'[u] = pc[u] /\ file'[u] = file[u]
    BY <2>1 DEF TypeOK
  <2>3. SiaFilesAreKept' /\ ReportedStaysUploaded' /\ ListsAreApart'
    BY <2>1 DEF SiaFilesAreKept, ReportedStaysUploaded, ListsAreApart, Listed
  <2>4. CallerPolls' /\ DeletionIsListed' /\ BackgroundIsLast'
    BY <2>1, <2>2 DEF CallerPolls, DeletionIsListed, BackgroundIsLast
  <2>5. NewFileIsOwn'
    <3> SUFFICES ASSUME NEW r \in Uploaders, pc[r] \in {"list", "post"}
                 PROVE  /\ file[r] \in source /\ sia[file[r]] = "none"
                        /\ \A u \in Threads \ {r} : file'[u] = file[r] =>
                              u = "deleter" /\ pc'[u] = "delete" /\ pc[r] = "post"
                        /\ IF pc[r] = "list" THEN file[r] \notin Listed ELSE file[r] \in files[r]
      BY <2>1, <2>2 DEF NewFileIsOwn, Listed
    <3>1. f \in Listed
      BY ListedIsBoth
    <3> QED BY <3>1, <2>2 DEF NewFileIsOwn
  <2> QED BY <2>3, <2>4, <2>5
<1>2. CASE DeleteInSiad \/ DeleteFails \/ RemoveFails
  <2>1. /\ pc["deleter"] \in {"delete", "remove"}
        /\ UNCHANGED <<files, source, told, old>>
        /\ \A u \in Threads : u # "deleter" => pc'[u] = pc[u] /\ file'[u] = file[u]
        /\ \/ pc'["deleter"] = "remove" /\ file'["deleter"] = file["deleter"]
           \/ pc'["deleter"] = "sleep" /\ file'["deleter"] = NoFile
    BY <1>2 DEF DeleteInSiad, DeleteFails, RemoveFails, Goto, Return, diskVars, runVars, TypeOK
  <2>2. CASE /\ pc["deleter"] = "delete" /\ sia[file["deleter"]] # "none"
             /\ sia' = [sia EXCEPT ![file["deleter"]] = "none"]
    BY <2>1, <2>2, SiadForgetsStep
  <2>3. CASE UNCHANGED sia /\ ~DeleteInSiad
    <3>1. pc'["deleter"] = "sleep" /\ file'["deleter"] = NoFile
      BY <1>2, <2>3 DEF DeleteFails, RemoveFails, Return, TypeOK
    <3>2. BackgroundIsLast'
      BY <2>1, <3>1 DEF BackgroundIsLast
    <3> QED BY <2>1, <2>3, <3>1, <3>2, KeepStep
  <2>4. sia[file["deleter"]] = "none" /\ sia' = [sia EXCEPT ![file["deleter"]] = "none"] => sia' = sia
    BY DEF TypeOK
  <2> QED BY <1>2, <2>2, <2>3, <2>4 DEF DeleteInSiad, DeleteFails, RemoveFails
<1>3. CASE RemoveSource
  <2> DEFINE d == file["deleter"]
  <2>1. /\ pc["deleter"] = "remove" /\ pc' = [pc EXCEPT !["deleter"] = "sleep"]
        /\ file' = [file EXCEPT !["deleter"] = NoFile]
        /\ source' = source \ {d}
        /\ files' = [files EXCEPT !["uploader"] = @ \ {d}]
        /\ UNCHANGED <<sia, told, old>>
    BY <1>3 DEF RemoveSource, Return, runVars
  <2>2. /\ pc'["deleter"] = "sleep" /\ file'["deleter"] = NoFile
        /\ \A u \in Threads : u # "deleter" => pc'[u] = pc[u] /\ file'[u] = file[u]
        /\ files'["uploader"] = files["uploader"] \ {d} /\ files'["caller"] = files["caller"]
    BY <2>1 DEF TypeOK
  <2>3. d \in files["uploader"] /\ sia[d] = "none" /\ d \notin files["caller"]
    BY <2>1 DEF DeletionIsListed, ListsAreApart
  <2>4. Listed' = Listed \ {d}
    BY <2>2, <2>3, ListedIsBoth, ListedIsBothNext
  <2>5. SiaFilesAreKept' /\ ReportedStaysUploaded' /\ ListsAreApart'
    BY <2>1, <2>2, <2>3, <2>4 DEF SiaFilesAreKept, ReportedStaysUploaded, ListsAreApart
  <2>6. CallerPolls' /\ DeletionIsListed' /\ BackgroundIsLast'
    BY <2>1, <2>2 DEF CallerPolls, DeletionIsListed, BackgroundIsLast
  <2>7. NewFileIsOwn'
    <3> SUFFICES ASSUME NEW r \in Uploaders, pc[r] \in {"list", "post"}
                 PROVE  /\ file[r] \in source' /\ sia[file[r]] = "none"
                        /\ \A u \in Threads \ {r} : file'[u] = file[r] =>
                              u = "deleter" /\ pc'[u] = "delete" /\ pc[r] = "post"
                        /\ IF pc[r] = "list" THEN file[r] \notin Listed' ELSE file[r] \in files'[r]
      BY <2>1, <2>2 DEF NewFileIsOwn
    <3>1. file[r] # d /\ file[r] # NoFile
      BY <2>1, NoFileAssumption DEF NewFileIsOwn, TypeOK
    <3> QED BY <3>1, <2>1, <2>2, <2>4 DEF NewFileIsOwn
  <2> QED BY <2>5, <2>6, <2>7
<1> QED BY <1>1, <1>2, <1>3 DEF Deletion

LEMMA InvStep == ASSUME IInv, [Next]_vars PROVE IInv'
<1>0. TypeOK'
  BY TypeStep
<1>1. CASE \/ Prepares \/ MakeDir \/ MakeDirFails \/ Stop \/ UNCHANGED vars
           \/ \E t \in Threads : AddThread(t) \/ SeeStop(t)
           \/ \E t \in Downloaders : Download(t)
  BY <1>0, <1>1, KeepingSteps
<1>2. ASSUME NEW t \in Uploaders, Upload(t) PROVE IInv'
  BY <1>0, <1>2, UploadStep
<1>3. CASE Deletion
  BY <1>0, <1>3, DeletionStep
<1>4. ASSUME NEW f \in Files, SiadUploads(f) PROVE IInv'
  <2> USE DEF IInv
  <2>1. /\ sia[f] \in {"uploading", "available"} /\ sia'[f] # "none"
        /\ sia[f] # "complete" /\ \A g \in Files : g # f => sia'[g] = sia[g]
        /\ UNCHANGED <<pc, file, files, source, told, old>>
    BY <1>4 DEF SiadUploads, TypeOK, diskVars, runVars
  <2>2. SiaFilesAreKept' /\ ReportedStaysUploaded' /\ ListsAreApart'
    BY <2>1 DEF SiaFilesAreKept, ReportedStaysUploaded, ListsAreApart, Listed, TypeOK
  <2>3. CallerPolls' /\ BackgroundIsLast'
    BY <2>1 DEF CallerPolls, BackgroundIsLast
  <2>4. DeletionIsListed'
    BY <2>1 DEF DeletionIsListed, TypeOK, Uploaders
  <2>5. NewFileIsOwn'
    BY <2>1 DEF NewFileIsOwn, TypeOK, Listed
  <2> QED BY <1>0, <2>2, <2>3, <2>4, <2>5
<1>5. CASE Restart
  <2> USE DEF IInv
  <2>1. /\ pc' = FirstPc /\ old' = old \cup Listed /\ files' = [t \in Uploaders |-> {}]
        /\ UNCHANGED <<file, source, sia, told>>
    BY <1>5 DEF Restart, diskVars, Listed
  <2>2. \A t \in Threads : pc'[t] = IF t = "renter" THEN "spawned"
                                    ELSE IF t = "caller" THEN "idle" ELSE "none"
    BY <2>1 DEF FirstPc
  <2>3. Listed' = {} /\ files'["uploader"] = {}
    BY <2>1, ListedIsBothNext DEF Uploaders
  <2>4. SiaFilesAreKept' /\ ReportedStaysUploaded' /\ ListsAreApart'
    BY <2>1, <2>3 DEF SiaFilesAreKept, ReportedStaysUploaded, ListsAreApart
  <2>5. NewFileIsOwn' /\ CallerPolls' /\ DeletionIsListed' /\ BackgroundIsLast'
    BY <2>2 DEF NewFileIsOwn, CallerPolls, DeletionIsListed, BackgroundIsLast,
       Threads, Background, Uploaders
  <2> QED BY <1>0, <2>4, <2>5
<1> QED BY <1>1, <1>2, <1>3, <1>4, <1>5 DEF Next

(* IInv holds in every reachable state. *)
THEOREM Invariant == Spec => []IInv
<1>1. Init => IInv
  <2> SUFFICES ASSUME Init PROVE IInv
    OBVIOUS
  <2>1. \A t \in Threads : pc[t] = IF t = "renter" THEN "spawned"
                                   ELSE IF t = "caller" THEN "idle" ELSE "none"
    BY DEF Init, FirstPc
  <2>2. TypeOK
    <3>1. /\ pc \in [Threads -> Labels] /\ file \in [Threads -> Files \cup {NoFile}]
          /\ files \in [Uploaders -> SUBSET Files]
          /\ sia \in [Files -> {"none", "uploading", "available", "complete"}]
      BY DEF Init, FirstPc, Labels, Outside
    <3>2. pc["deleter"] = "none" /\ restarts \in 0 .. MaxRestarts
      BY <2>1, RestartsAssumption DEF Init, Threads, Background
    <3> QED BY <3>1, <3>2 DEF Init, TypeOK
  <2>3. Listed = {} /\ files["uploader"] = {}
    BY ListedIsBoth DEF Init, Uploaders
  <2>4. SiaFilesAreKept /\ ReportedStaysUploaded /\ ListsAreApart
    BY <2>3 DEF Init, SiaFilesAreKept, ReportedStaysUploaded, ListsAreApart
  <2>5. NewFileIsOwn /\ CallerPolls /\ DeletionIsListed /\ BackgroundIsLast
    BY <2>1 DEF NewFileIsOwn, CallerPolls, DeletionIsListed, BackgroundIsLast,
       Threads, Background, Uploaders
  <2> QED BY <2>2, <2>4, <2>5 DEF IInv
<1>2. IInv /\ [Next]_vars => IInv'
  BY InvStep
<1> QED BY <1>1, <1>2, PTL DEF Spec

(* Every variable keeps its type; the mutex is held exactly while the      *)
(* deleter deletes, and no source is outside its directory.                *)
THEOREM TypeCorrect == Spec => []TypeOK
<1>1. IInv => TypeOK
  BY DEF IInv
<1> QED BY <1>1, Invariant, PTL

(* No file of siad is lost from the lists, and none is without its source. *)
THEOREM NothingLost == Spec => []SiaFilesAreKept
<1>1. IInv => SiaFilesAreKept
  BY DEF IInv
<1> QED BY <1>1, Invariant, PTL

(* What Upload reported stays complete in siad.                            *)
THEOREM ReportIsFinal == Spec => []ReportedStaysUploaded
<1>1. IInv => ReportedStaysUploaded
  BY DEF IInv
<1> QED BY <1>1, Invariant, PTL
=============================================================================
