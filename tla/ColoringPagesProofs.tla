------------------------- MODULE ColoringPagesProofs -------------------------
(* Theorems about ColoringPages: for every number of pages, uploads, batches   *)
(* and requests, every set of faults, and containers that end whenever they    *)
(* like, or never.                                                             *)
EXTENDS ColoringPages, FiniteSetTheorems, TLAPS

-----------------------------------------------------------------------------
(* The inductive invariant.                                                    *)

\* What the files of a page are to its catalogue entry, its record and its container. A container
\* only ever runs for an id that is neither live nor restorable.
SoundAt(i) ==
    /\ Live(i) => originals[i] = catalog[i] /\ media[i] = catalog[i]
    /\ Restorable(i) => originals[i] = record[i].art /\ media[i] = record[i].art
    /\ importer[i] # None => inbox[i] = importer[i].art
    /\ importer[i] # None /\ importer[i].at = "files" => originals[i] = None /\ media[i] = None
    /\ importer[i] # None /\ importer[i].at = "catalog" =>
          originals[i] = importer[i].art /\ media[i] = importer[i].art
    /\ Running(i) => ~Live(i) /\ ~Restorable(i)
    /\ \A a, b \in ArtsOf(i) \ {None} : a = b

StoreSound == \A i \in Id : SoundAt(i)

\* Each holder of the publication lock knows that it has it.
Locked ==
    /\ lock = "job" <=> worker.at \in {"allocate", "stage", "import"}
    /\ lock = "ingest" <=> bridge.at \in {"download", "preserved", "import"}
    /\ lock = "handler" <=> handler.at # "none"
    /\ ~up => worker.at = "none" /\ handler.at = "none"

\* A container that somebody waits for is that of the one who waits; one that nobody waits for
\* is forgotten when it ends.
JobWaits(i)    == worker.at = "import" /\ PageId = i
IngestWaits(i) == bridge.at = "import" /\ Activity.id = i

Waited ==
    /\ \A i \in Id : importer[i] # None /\ importer[i].waited => JobWaits(i) \/ IngestWaits(i)
    /\ \A i \in Id : importer[i] # None /\ ~Running(i) => importer[i].waited

\* The thread works on the one active job, page by page.
WorkerFacts ==
    /\ worker.at = "none" <=> worker.job = 0
    /\ worker.job # 0 => worker.job \in ActiveJobs
    /\ \A j, k \in ActiveJobs : j = k
    /\ \A j \in Jobs : jobs[j].results <= Len(Uploads[j]) /\ (jobs[j].status = "none" => jobs[j].results = 0)
    /\ worker.at \in {"queued", "allocate"} => jobs[worker.job].results = 0
    /\ worker.at \in {"stage", "import"} =>
          /\ worker.ids \in [1 .. Len(Uploads[worker.job]) -> Id]
          /\ Page <= Len(Uploads[worker.job])

\* A thread that has written the end of its job has nothing left to change but its status.
EndingFacts == \A j \in ending : jobs[j].status = "published"

\* The ingest works on an activity that is left, on an id without files and receipt.
BridgeFacts ==
    /\ bridge.at = "none" <=> bridge.batch = 0
    /\ bridge.at \in {"download", "preserved", "import", "exit"} => Remaining
    /\ bridge.at \in {"download", "preserved"} => NoFiles(Activity.id)
    /\ bridge.at \in {"download", "preserved", "import"} =>
          /\ receipt[Activity.id] = None
          /\ ingest[Activity.id] = "handed" <=> bridge.at = "import"

\* Who waits for a container finds it, with the drawing that was handed over.
OwnContainer ==
    /\ worker.at = "import" =>
          /\ importer[PageId] # None /\ importer[PageId].waited /\ importer[PageId].art = PageArt
          /\ importer[PageId].at = "done" => catalog[PageId] = PageArt
    /\ bridge.at = "import" =>
          /\ importer[Activity.id] # None /\ importer[Activity.id].waited
          /\ importer[Activity.id].art = Activity.art

\* A request past the lock: until it has written the catalogue, what it loaded is still there;
\* what it restores or deletes has no container.
HandlerFacts ==
    /\ handler.op = "none" <=> handler.at = "none"
    /\ handler.at # "none" => handler.id \in Id /\ handler.base # None
    /\ handler.at \in {"prepare", "check", "replace"} =>
          \A i \in Id : handler.base[i] # None => catalog[i] = handler.base[i]
    /\ handler.op = "edit" =>
          /\ handler.at \in {"check", "replace", "record"} /\ handler.base[handler.id] # None
    /\ handler.op = "archive" =>
          /\ handler.at \in {"prepare", "check", "replace", "record"} /\ handler.base[handler.id] # None
          /\ handler.at # "prepare" =>
                record[handler.id] = [state |-> "prepared", art |-> handler.base[handler.id]]
    /\ handler.op = "restore" =>
          /\ handler.at \in {"check", "replace", "record"} /\ Restorable(handler.id)
          /\ handler.at # "record" => ~Live(handler.id)
    /\ handler.op = "delete" =>
          /\ handler.at \in {"mark", "media", "originals", "inbox", "tombstone"}
          /\ ~Live(handler.id) /\ importer[handler.id] = None
          /\ ArchiveState(handler.id) = IF handler.at = "mark" THEN "archived" ELSE "delete-prepared"

IInv ==
    /\ TypeOK /\ StoreSound /\ Locked /\ Waited
    /\ WorkerFacts /\ EndingFacts /\ BridgeFacts /\ OwnContainer /\ HandlerFacts

-----------------------------------------------------------------------------
(* What the page of a job and the activity of a batch are.                     *)

LEMMA ElementInside ==
  ASSUME NEW S, NEW s \in Seq(S), NEW n \in 1 .. Len(s)
  PROVE  s[n] \in S
  OBVIOUS

LEMMA PageInside ==
  ASSUME TypeOK, WorkerFacts, worker.at \in {"stage", "import"}
  PROVE  /\ worker.job \in Jobs /\ jobs[worker.job].status \in Active
         /\ Page \in 1 .. Len(Uploads[worker.job]) /\ PageId \in Id /\ PageArt \in Art
  <1>1. worker.job \in Jobs /\ jobs[worker.job].status \in Active /\ jobs[worker.job].results \in Nat
    BY DEF TypeOK, AdminTypeOK, WorkerFacts, ActiveJobs
  <1>2. Uploads[worker.job] \in Seq(Art)
    BY <1>1, AdminAssumption DEF Jobs
  <1>3. Page \in 1 .. Len(Uploads[worker.job])
    BY <1>1, <1>2 DEF WorkerFacts, Page
  <1>4. PageId \in Id
    BY <1>3 DEF WorkerFacts, PageId
  <1>5. PageArt \in Art
    BY <1>2, <1>3 DEF PageArt
  <1>6. QED
    BY <1>1, <1>3, <1>4, <1>5

LEMMA ActivityInside ==
  ASSUME TypeOK, BridgeFacts, bridge.at # "none", Remaining
  PROVE  /\ bridge.batch \in BatchIds /\ bridge.succeeded + 1 \in 1 .. Len(Batches[bridge.batch])
         /\ Activity \in [id : Id, art : Art]
  <1>1. bridge.batch \in BatchIds /\ bridge.succeeded \in Nat
    BY DEF TypeOK, DriveTypeOK, BridgeFacts
  <1>2. Batches[bridge.batch] \in Seq([id : Id, art : Art])
    BY <1>1, BatchesAssumption DEF BatchIds
  <1>3. bridge.succeeded + 1 \in 1 .. Len(Batches[bridge.batch])
    BY <1>1, <1>2 DEF Remaining
  <1>4. Batches[bridge.batch][bridge.succeeded + 1] \in [id : Id, art : Art]
    BY <1>2, <1>3, ElementInside
  <1>5. QED
    BY <1>1, <1>3, <1>4 DEF Activity

-----------------------------------------------------------------------------
(* What a step can do to the store. The proofs about pages go through these     *)
(* effects, of which there are fewer than actions.                              *)

Files == <<catalog, record, inbox, originals, media>>

\* No page changes, and a container at most ends or loses who waited for it.
Quiet ==
    /\ UNCHANGED Files
    /\ importer' \in [Id -> Maybe(Containers)]
    /\ \A i \in Id : importer'[i] # None =>
          /\ importer[i] # None /\ importer'[i].art = importer[i].art
          /\ importer'[i].at \in {importer[i].at, "done", "failed"}

\* A page enters the inbox under an id of which there is no trace that counts.
HandsOver(i, a) ==
    /\ HandOver(i, a)
    /\ NoFiles(i) /\ ~Live(i) /\ ~Restorable(i) /\ importer[i] = None
    /\ UNCHANGED <<catalog, record, originals, media>>

DeleteFiles == DeleteMedia \/ DeleteOriginals \/ DeleteInbox
HandlerWrites ==
    PrepareArchive \/ ReplaceCatalog \/ FinishRecord \/ MarkDelete \/ DeleteFiles \/ WriteTombstone

Effect ==
    \/ Quiet
    \/ \E i \in Id, a \in Art : HandsOver(i, a)
    \/ \E i \in Id : ImportFiles(i) \/ ImportCatalog(i)
    \/ HandlerWrites

LEMMA QuietUnchanged ==
  ASSUME TypeOK, UNCHANGED <<catalog, record, inbox, originals, media, importer>>
  PROVE  Quiet
  BY DEF TypeOK, StoreTypeOK, Quiet, Files

LEMMA QuietAbandoned ==
  ASSUME TypeOK, NEW i \in Id, UNCHANGED Files, importer' = Abandoned(i)
  PROVE  Quiet
  <1>1. importer \in [Id -> Maybe(Containers)]
    BY DEF TypeOK, StoreTypeOK
  <1>2. \A k \in Id : importer[k] # None => importer[k] \in Containers
    BY <1>1 DEF Maybe
  <1>3. \A k \in Id : importer'[k] = IF k # i THEN importer[k]
                                   ELSE IF Running(i) THEN [importer[i] EXCEPT !.waited = FALSE] ELSE None
    BY <1>1 DEF Abandoned
  <1>4. \A c \in Containers : [c EXCEPT !.waited = FALSE] \in Containers
                              /\ [c EXCEPT !.waited = FALSE].art = c.art /\ [c EXCEPT !.waited = FALSE].at = c.at
    BY DEF Containers
  <1>5. importer' \in [Id -> Maybe(Containers)]
    <2>1. importer' = [k \in Id |-> importer'[k]]
      BY <1>1 DEF Abandoned
    <2>2. \A k \in Id : importer'[k] \in Maybe(Containers)
      BY <1>1, <1>2, <1>3, <1>4 DEF Maybe, Running
    <2>3. QED
      BY <2>1, <2>2
  <1>6. ASSUME NEW k \in Id, importer'[k] # None
        PROVE  /\ importer[k] # None /\ importer'[k].art = importer[k].art
               /\ importer'[k].at = importer[k].at
    <2>1. CASE k # i
      BY <1>3, <1>6, <2>1
    <2>2. CASE k = i
      <3>1. Running(i) /\ importer'[i] = [importer[i] EXCEPT !.waited = FALSE]
        BY <1>3, <1>6, <2>2
      <3>2. importer[i] \in Containers
        BY <1>2, <3>1 DEF Running
      <3>3. QED
        BY <1>4, <2>2, <3>1, <3>2 DEF Running
    <2>3. QED
      BY <2>1, <2>2
  <1>7. QED
    BY <1>5, <1>6 DEF Quiet

LEMMA EndedFacts ==
  ASSUME TypeOK, NEW i \in Id, Running(i), NEW how \in {"done", "failed"}, Ended(i, how)
  PROVE  /\ importer' \in [Id -> Maybe(Containers)]
         /\ \A k \in Id \ {i} : importer'[k] = importer[k]
         /\ ~importer[i].waited => importer'[i] = None
         /\ importer[i].waited => importer'[i] = [importer[i] EXCEPT !.at = how] /\ importer'[i] # None
         /\ importer'[i] # None => importer'[i].art = importer[i].art /\ importer'[i].at = how
                                   /\ importer'[i].waited = importer[i].waited
  <1>1. importer \in [Id -> Maybe(Containers)] /\ importer[i] \in Containers
    BY DEF TypeOK, StoreTypeOK, Running, Maybe
  <1>2. importer' = [importer EXCEPT ![i] = IF importer[i].waited THEN [importer[i] EXCEPT !.at = how] ELSE None]
    BY DEF Ended
  <1>3. \A c \in Containers : /\ [c EXCEPT !.at = how] \in Containers
                              /\ [c EXCEPT !.at = how].art = c.art /\ [c EXCEPT !.at = how].at = how
                              /\ [c EXCEPT !.at = how].waited = c.waited
    BY DEF Containers
  <1>4. \A c \in Containers : c # None
    BY StoreAssumption
  <1>5. QED
    BY <1>1, <1>2, <1>3, <1>4 DEF Maybe

LEMMA QuietFails ==
  ASSUME TypeOK, NEW i \in Id, ImporterFails(i)
  PROVE  Quiet
  <1>1. Running(i) /\ Ended(i, "failed") /\ UNCHANGED Files
    BY DEF ImporterFails, Files
  <1>2. /\ importer' \in [Id -> Maybe(Containers)]
        /\ \A k \in Id \ {i} : importer'[k] = importer[k]
        /\ importer'[i] # None => importer'[i].art = importer[i].art /\ importer'[i].at = "failed"
    BY <1>1, EndedFacts
  <1>3. QED
    BY <1>1, <1>2 DEF Quiet, Running

\* A handler that changes pages has the lock, and then no container is waited for.
LEMMA NobodyWaits ==
  ASSUME TypeOK, Locked, Waited, NEW i \in Id,
         lock \notin {"job", "ingest"}
  PROVE  importer[i] # None => Running(i) /\ ~importer[i].waited
  BY DEF Locked, Waited, JobWaits, IngestWaits

LEMMA HandedByJob ==
  ASSUME IInv, HandOverPage
  PROVE  HandsOver(PageId, PageArt) /\ PageId \in Id /\ PageArt \in Art
  <1>1. PageId \in Id /\ PageArt \in Art
    BY PageInside DEF IInv, HandOverPage
  <1>2. importer[PageId] = None
    <2>1. SoundAt(PageId) /\ inbox[PageId] = None
      BY <1>1 DEF IInv, StoreSound, HandOverPage, NoFiles
    <2>2. importer[PageId] # None => importer[PageId].art \in Art
      BY <1>1 DEF IInv, TypeOK, StoreTypeOK, Maybe, Containers
    <2>3. QED
      BY <2>1, <2>2, StoreAssumption DEF SoundAt
  <1>3. ~Live(PageId) /\ ~Restorable(PageId)
    BY <1>1 DEF HandOverPage, Reserved, Restorable, ArchiveState
  <1>4. QED
    BY <1>1, <1>2, <1>3 DEF HandOverPage, HandsOver

LEMMA HandedByIngest ==
  ASSUME IInv, HandOverDownload
  PROVE  HandsOver(Activity.id, Activity.art) /\ Activity.id \in Id /\ Activity.art \in Art
  <1>1. Activity.id \in Id /\ Activity.art \in Art
    BY ActivityInside DEF IInv, BridgeFacts, HandOverDownload
  <1>2. NoFiles(Activity.id)
    BY DEF IInv, BridgeFacts, HandOverDownload
  <1>3. SoundAt(Activity.id)
    BY <1>1 DEF IInv, StoreSound
  <1>4. importer[Activity.id] = None
    <2>1. importer[Activity.id] # None => importer[Activity.id].art \in Art
      BY <1>1 DEF IInv, TypeOK, StoreTypeOK, Maybe, Containers
    <2>2. QED
      BY <1>2, <1>3, <2>1, StoreAssumption DEF SoundAt, NoFiles
  <1>5. ~Live(Activity.id)
    BY <1>2, <1>3 DEF SoundAt, NoFiles, Live
  <1>6. ~Restorable(Activity.id)
    <2>1. Restorable(Activity.id) => record[Activity.id].art \in Art
      BY <1>1 DEF IInv, TypeOK, StoreTypeOK, Restorable, ArchiveState, Maybe, Records
    <2>2. QED
      BY <1>2, <1>3, <2>1, StoreAssumption DEF SoundAt, NoFiles
  <1>7. QED
    BY <1>1, <1>2, <1>4, <1>5, <1>6 DEF HandOverDownload, HandsOver

\* The steps as they change the store.
Moves ==
    \/ Quiet
    \/ HandOverPage \/ HandOverDownload
    \/ \E i \in Id : ImportFiles(i) \/ ImportCatalog(i)
    \/ HandlerWrites

LEMMA StepMoves ==
  ASSUME IInv, Next
  PROVE  Moves
  <1>0. TypeOK
    BY DEF IInv
  <1>1. CASE AdminNext
    <2>1. CASE \E j \in Jobs : CreateJob(j)
      BY <1>0, <2>1, QuietUnchanged DEF CreateJob, storeVars, Moves
    <2>2. CASE StartJob \/ AllocateIds \/ PublishJob \/ (\E j \in Jobs : EndThread(j))
      BY <1>0, <2>2, QuietUnchanged DEF StartJob, AllocateIds, PublishJob, EndThread, storeVars, Moves
    <2>3. CASE HandOverPage
      BY <2>3 DEF Moves
    <2>4. CASE PageImported
      <3>1. PageId \in Id
        BY <2>4, PageInside DEF IInv, PageImported
      <3>2. UNCHANGED Files /\ importer' = Abandoned(PageId)
        BY <2>4 DEF PageImported, Files
      <3>3. QED
        BY <1>0, <3>1, <3>2, QuietAbandoned DEF Moves
    <2>5. CASE JobFails \/ Crash
      <3>1. UNCHANGED Files /\ importer' = LeftByWorker
        BY <2>5 DEF JobFails, Crash, Files
      <3>2. CASE worker.at = "import"
        BY <1>0, <3>1, <3>2, PageInside, QuietAbandoned DEF IInv, LeftByWorker, Moves
      <3>3. CASE worker.at # "import"
        BY <1>0, <3>1, <3>3, QuietUnchanged DEF LeftByWorker, Files, Moves
      <3>4. QED
        BY <3>2, <3>3
    <2>6. CASE Request
      BY <1>0, <2>6, QuietUnchanged DEF Request, Edit, Archive, Restore, Delete, Admit, Moves
    <2>7. CASE HandlerStep
      BY <1>0, <2>7, QuietUnchanged
         DEF HandlerStep, CheckCatalog, HandlerFails, storeVars, HandlerWrites, DeleteFiles, Moves
    <2>8. CASE Restart
      BY <1>0, <2>8, QuietUnchanged DEF Restart, storeVars, Moves
    <2>9. QED
      BY <1>1, <2>1, <2>2, <2>3, <2>4, <2>5, <2>6, <2>7, <2>8 DEF AdminNext, JobStep
  <1>2. CASE DriveNext
    <2>1. CASE \E b \in BatchIds : ClaimMarker(b)
      BY <1>0, <2>1, QuietUnchanged DEF ClaimMarker, storeVars, Moves
    <2>2. CASE ClaimRequest \/ AlreadyProcessed \/ StartIngest \/ Preserve \/ IngestExits \/ BatchPasses
      BY <1>0, <2>2, QuietUnchanged
         DEF ClaimRequest, AlreadyProcessed, StartIngest, Preserve, IngestExits, BatchPasses, storeVars, Moves
    <2>3. CASE HandOverDownload
      BY <2>3 DEF Moves
    <2>4. CASE WriteReceipt
      <3>1. Activity.id \in Id
        BY <2>4, ActivityInside DEF IInv, BridgeFacts, WriteReceipt
      <3>2. UNCHANGED Files /\ importer' = Abandoned(Activity.id)
        BY <2>4 DEF WriteReceipt, Files
      <3>3. QED
        BY <1>0, <3>1, <3>2, QuietAbandoned DEF Moves
    <2>5. CASE BatchFails \/ BridgeDies
      <3>1. UNCHANGED Files /\ importer' = LeftByIngest
        BY <2>5 DEF BatchFails, BridgeDies, Files
      <3>2. CASE bridge.at = "import"
        <4>1. Activity.id \in Id
          BY <3>2, ActivityInside DEF IInv, BridgeFacts
        <4>2. QED
          BY <1>0, <3>1, <3>2, <4>1, QuietAbandoned DEF LeftByIngest, Moves
      <3>3. CASE bridge.at # "import"
        BY <1>0, <3>1, <3>3, QuietUnchanged DEF LeftByIngest, Files, Moves
      <3>4. QED
        BY <3>2, <3>3
    <2>6. QED
      BY <1>2, <2>1, <2>2, <2>3, <2>4, <2>5 DEF DriveNext, BridgeStep
  <1>3. CASE Importer
    BY <1>0, <1>3, QuietFails DEF Importer, Moves
  <1>4. QED
    BY <1>1, <1>2, <1>3 DEF Next

\* Every step has one of the effects.
LEMMA StepEffect ==
  ASSUME IInv, Next
  PROVE  Effect
  BY StepMoves, HandedByJob, HandedByIngest DEF Moves, Effect

-----------------------------------------------------------------------------
(* What handlers know when they write.                                         *)

\* The record of the page a handler works on, where it has one.
LEMMA HandlerPage ==
  ASSUME TypeOK, HandlerFacts, handler.at # "none"
  PROVE  /\ handler.id \in Id /\ handler.base \in [Id -> Maybe(Art)]
         /\ handler.op \in {"restore", "delete"} \/ (handler.op = "archive" /\ handler.at # "prepare") =>
               record[handler.id] # None /\ record[handler.id] \in Records
  <1>1. handler.id \in Id /\ handler.base \in [Id -> Maybe(Art)]
    BY DEF TypeOK, AdminTypeOK, HandlerFacts, Maybe
  <1>2. record[handler.id] \in Maybe(Records)
    BY <1>1 DEF TypeOK, StoreTypeOK
  <1>3. ASSUME handler.op \in {"restore", "delete"}
        PROVE  record[handler.id] # None
    BY <1>3 DEF HandlerFacts, Restorable, ArchiveState
  <1>4. ASSUME handler.op = "archive", handler.at # "prepare"
        PROVE  record[handler.id] # None
    <2>1. handler.base[handler.id] \in Art
      BY <1>1, <1>4 DEF HandlerFacts, Maybe
    <2>2. record[handler.id] = [state |-> "prepared", art |-> handler.base[handler.id]]
      BY <1>4 DEF HandlerFacts
    <2>3. record[handler.id] \in Records
      BY <2>1, <2>2 DEF Records, ArchiveStates
    <2>4. QED
      BY <2>3, StoreAssumption
  <1>5. QED
    BY <1>1, <1>2, <1>3, <1>4 DEF Maybe

\* What a handler writes into the catalogue: for its page what the operation says, for the others
\* what it loaded.
LEMMA CandidatePages ==
  ASSUME TypeOK, HandlerFacts, handler.at \in {"replace", "record"}
  PROVE  /\ Candidate \in [Id -> Maybe(Art)]
         /\ \A i \in Id \ {handler.id} : Candidate[i] = handler.base[i]
         /\ handler.op = "edit" => Candidate[handler.id] = handler.base[handler.id]
         /\ handler.op = "archive" => Candidate[handler.id] = None
         /\ handler.op = "restore" => Candidate[handler.id] = record[handler.id].art
                                      /\ record[handler.id].art \in Art
         /\ handler.op \in {"edit", "archive", "restore"}
  <1>1. handler.op \in {"edit", "archive", "restore"}
    BY DEF TypeOK, AdminTypeOK, HandlerFacts
  <1>2. handler.id \in Id /\ handler.base \in [Id -> Maybe(Art)]
    BY HandlerPage
  <1>3. CASE handler.op = "edit"
    BY <1>2, <1>3 DEF Candidate
  <1>4. CASE handler.op = "archive"
    BY <1>2, <1>4 DEF Candidate, Maybe
  <1>5. CASE handler.op = "restore"
    <2>1. record[handler.id].art \in Art
      BY <1>5, HandlerPage DEF Records
    <2>2. QED
      BY <1>2, <1>5, <2>1 DEF Candidate, Maybe
  <1>6. QED
    BY <1>1, <1>3, <1>4, <1>5

\* A record that a handler changes keeps its drawing.
LEMMA SetRecordFacts ==
  ASSUME TypeOK, NEW i \in Id, record[i] # None, NEW state \in ArchiveStates,
         record' = [record EXCEPT ![i].state = state]
  PROVE  /\ record' \in [Id -> Maybe(Records)]
         /\ \A k \in Id \ {i} : record'[k] = record[k]
         /\ record'[i] # None /\ record'[i].state = state /\ record'[i].art = record[i].art
         /\ record[i].art \in Art
         /\ record'[i] = [state |-> state, art |-> record[i].art]
  <1>1. record \in [Id -> Maybe(Records)] /\ record[i] \in Records
    BY DEF TypeOK, StoreTypeOK, Maybe
  <1>2. \A r \in Records : /\ [r EXCEPT !.state = state] \in Records
                           /\ [r EXCEPT !.state = state] = [state |-> state, art |-> r.art]
                           /\ r.art \in Art
    BY DEF Records
  <1>3. \A r \in Records : r # None
    BY StoreAssumption
  <1>4. record'[i] = [record[i] EXCEPT !.state = state]
    BY <1>1
  <1>5. QED
    BY <1>1, <1>2, <1>3, <1>4 DEF Maybe

\* What the three actions that change the state of a record make of it.
Becomes ==
    IF handler.op = "archive" THEN "archived" ELSE IF handler.op = "restore" THEN "restored"
    ELSE IF handler.at = "mark" THEN "delete-prepared" ELSE "deleted"

LEMMA RecordSet ==
  ASSUME TypeOK, HandlerFacts, FinishRecord \/ MarkDelete \/ WriteTombstone
  PROVE  \/ handler.op = "edit" /\ UNCHANGED record
         \/ /\ handler.op \in {"archive", "restore", "delete"} /\ handler.id \in Id
            /\ record[handler.id] # None
            /\ record' \in [Id -> Maybe(Records)]
            /\ \A k \in Id \ {handler.id} : record'[k] = record[k]
            /\ record'[handler.id] # None
            /\ record'[handler.id] = [state |-> Becomes, art |-> record[handler.id].art]
  <1>1. handler.id \in Id
    BY HandlerPage DEF FinishRecord, MarkDelete, WriteTombstone
  <1>2. CASE FinishRecord
    <2>1. handler.op \in {"edit", "archive", "restore"} /\ handler.at = "record"
      BY <1>2, CandidatePages DEF FinishRecord
    <2>2. CASE handler.op = "edit"
      BY <1>2, <2>2 DEF FinishRecord
    <2>3. CASE handler.op = "archive"
      <3>1. record[handler.id] # None /\ SetRecord("archived")
        BY <1>2, <2>1, <2>3, HandlerPage DEF FinishRecord
      <3>2. Becomes = "archived" /\ "archived" \in ArchiveStates
        BY <2>3 DEF Becomes, ArchiveStates
      <3>3. QED
        BY <1>1, <2>3, <3>1, <3>2, SetRecordFacts, ZenonT(60) DEF SetRecord
    <2>4. CASE handler.op = "restore"
      <3>1. record[handler.id] # None /\ SetRecord("restored")
        BY <1>2, <2>1, <2>4, HandlerPage DEF FinishRecord
      <3>2. Becomes = "restored" /\ "restored" \in ArchiveStates
        BY <2>4 DEF Becomes, ArchiveStates
      <3>3. QED
        BY <1>1, <2>4, <3>1, <3>2, SetRecordFacts, ZenonT(60) DEF SetRecord
    <2>5. QED
      BY <2>1, <2>2, <2>3, <2>4
  <1>3. CASE MarkDelete \/ WriteTombstone
    <2>1. handler.op = "delete" /\ handler.at \in {"mark", "tombstone"}
      BY <1>3 DEF MarkDelete, WriteTombstone, HandlerFacts, TypeOK, AdminTypeOK
    <2>2. record[handler.id] # None
      BY <2>1, HandlerPage
    <2>3. SetRecord(Becomes)
      BY <1>3, <2>1 DEF MarkDelete, WriteTombstone, Becomes
    <2>4. Becomes \in ArchiveStates
      BY DEF Becomes, ArchiveStates
    <2>5. QED
      BY <1>1, <2>1, <2>2, <2>3, <2>4, SetRecordFacts DEF SetRecord
  <1>4. QED
    BY <1>2, <1>3

-----------------------------------------------------------------------------
(* Types.                                                                      *)

LEMMA HandsOverFacts ==
  ASSUME TypeOK, NEW i \in Id, NEW a \in Art, HandsOver(i, a)
  PROVE  /\ inbox' \in [Id -> Maybe(Art)] /\ importer' \in [Id -> Maybe(Containers)]
         /\ \A k \in Id \ {i} : inbox'[k] = inbox[k] /\ importer'[k] = importer[k]
         /\ inbox'[i] = a /\ importer'[i] = [art |-> a, at |-> "files", waited |-> TRUE]
         /\ importer'[i] # None /\ importer'[i].art = a /\ importer'[i].at = "files" /\ importer'[i].waited
  <1>1. inbox \in [Id -> Maybe(Art)] /\ importer \in [Id -> Maybe(Containers)]
    BY DEF TypeOK, StoreTypeOK
  <1>2. [art |-> a, at |-> "files", waited |-> TRUE] \in Containers
    BY DEF Containers
  <1>3. importer'[i] = [art |-> a, at |-> "files", waited |-> TRUE]
    BY <1>1 DEF HandsOver, HandOver
  <1>4. importer'[i].art = a /\ importer'[i].at = "files" /\ importer'[i].waited
    BY <1>3
  <1>5. QED
    BY <1>1, <1>2, <1>3, <1>4, StoreAssumption DEF HandsOver, HandOver, Maybe

LEMMA ImportFilesFacts ==
  ASSUME TypeOK, NEW i \in Id, ImportFiles(i)
  PROVE  /\ originals' \in [Id -> Maybe(Art)] /\ media' \in [Id -> Maybe(Art)]
         /\ importer' \in [Id -> Maybe(Containers)]
         /\ \A k \in Id \ {i} :
               originals'[k] = originals[k] /\ media'[k] = media[k] /\ importer'[k] = importer[k]
         /\ originals'[i] = importer[i].art /\ media'[i] = importer[i].art
         /\ importer'[i] # None /\ importer'[i].art = importer[i].art /\ importer'[i].at = "catalog"
         /\ importer'[i].waited = importer[i].waited
         /\ importer[i].art \in Art
  <1>1. /\ originals \in [Id -> Maybe(Art)] /\ media \in [Id -> Maybe(Art)]
        /\ importer \in [Id -> Maybe(Containers)] /\ importer[i] \in Containers
    BY DEF TypeOK, StoreTypeOK, ImportFiles, Running, Maybe
  <1>2. \A c \in Containers : /\ [c EXCEPT !.at = "catalog"] \in Containers
                              /\ [c EXCEPT !.at = "catalog"].art = c.art
                              /\ [c EXCEPT !.at = "catalog"].at = "catalog"
                              /\ [c EXCEPT !.at = "catalog"].waited = c.waited /\ c.art \in Art
    BY DEF Containers
  <1>3. importer'[i] = [importer[i] EXCEPT !.at = "catalog"]
    BY <1>1 DEF ImportFiles
  <1>4. \A c \in Containers : c # None
    BY StoreAssumption
  <1>5. originals' \in [Id -> Maybe(Art)] /\ media' \in [Id -> Maybe(Art)]
    BY <1>1, <1>2 DEF ImportFiles, Maybe
  <1>6. importer' \in [Id -> Maybe(Containers)]
    BY <1>1, <1>2 DEF ImportFiles, Maybe
  <1>7. QED
    BY <1>1, <1>2, <1>3, <1>4, <1>5, <1>6 DEF ImportFiles

LEMMA ImportCatalogFacts ==
  ASSUME TypeOK, NEW i \in Id, ImportCatalog(i)
  PROVE  /\ catalog' \in [Id -> Maybe(Art)] /\ importer[i].art \in Art
         /\ \A k \in Id \ {i} : catalog'[k] = catalog[k]
         /\ catalog'[i] = importer[i].art
         /\ Ended(i, "done") /\ Running(i)
  <1>1. catalog \in [Id -> Maybe(Art)] /\ importer[i].art \in Art
    BY DEF TypeOK, StoreTypeOK, ImportCatalog, Running, Maybe, Containers
  <1>2. QED
    BY <1>1 DEF ImportCatalog, Maybe

LEMMA StoreTypes ==
  ASSUME IInv, Effect
  PROVE  /\ catalog' \in [Id -> Maybe(Art)] /\ record' \in [Id -> Maybe(Records)]
         /\ inbox' \in [Id -> Maybe(Art)] /\ originals' \in [Id -> Maybe(Art)] /\ media' \in [Id -> Maybe(Art)]
         /\ importer' \in [Id -> Maybe(Containers)]
  <1>0. TypeOK /\ HandlerFacts
    BY DEF IInv
  <1>a. /\ catalog \in [Id -> Maybe(Art)] /\ record \in [Id -> Maybe(Records)]
        /\ inbox \in [Id -> Maybe(Art)] /\ originals \in [Id -> Maybe(Art)] /\ media \in [Id -> Maybe(Art)]
        /\ importer \in [Id -> Maybe(Containers)]
    BY DEF IInv, TypeOK, StoreTypeOK
  <1>1. CASE Quiet
    BY <1>a, <1>1 DEF Quiet, Files
  <1>2. CASE \E i \in Id, a \in Art : HandsOver(i, a)
    BY <1>0, <1>a, <1>2, HandsOverFacts DEF HandsOver
  <1>3. ASSUME NEW i \in Id, ImportFiles(i)
        PROVE  /\ UNCHANGED <<catalog, record, inbox>>
               /\ originals' \in [Id -> Maybe(Art)] /\ media' \in [Id -> Maybe(Art)]
               /\ importer' \in [Id -> Maybe(Containers)]
    <2>1. UNCHANGED <<catalog, record, inbox>>
      BY <1>3 DEF ImportFiles
    <2>2. QED
      BY <1>0, <1>3, <2>1, ImportFilesFacts
  <1>4. ASSUME NEW i \in Id, ImportCatalog(i)
        PROVE  /\ UNCHANGED <<record, inbox, originals, media>>
               /\ catalog' \in [Id -> Maybe(Art)] /\ importer' \in [Id -> Maybe(Containers)]
    <2>1. UNCHANGED <<record, inbox, originals, media>>
      BY <1>4 DEF ImportCatalog
    <2>2. QED
      BY <1>0, <1>4, <2>1, ImportCatalogFacts, EndedFacts
  <1>5. CASE PrepareArchive
    <2>1. handler.id \in Id /\ handler.base[handler.id] \in Art
      BY <1>0, <1>5, HandlerPage DEF PrepareArchive, HandlerFacts, TypeOK, AdminTypeOK, Maybe
    <2>2. [state |-> "prepared", art |-> handler.base[handler.id]] \in Records
      BY <2>1 DEF Records, ArchiveStates
    <2>3. QED
      BY <1>a, <1>5, <2>1, <2>2 DEF PrepareArchive, Maybe
  <1>6. CASE ReplaceCatalog
    BY <1>0, <1>a, <1>6, CandidatePages DEF ReplaceCatalog
  <1>7. CASE FinishRecord \/ MarkDelete \/ WriteTombstone
    <2>1. UNCHANGED <<catalog, inbox, originals, media, importer>>
      BY <1>7 DEF FinishRecord, MarkDelete, WriteTombstone
    <2>2. record' \in [Id -> Maybe(Records)]
      BY <1>0, <1>a, <1>7, RecordSet
    <2>3. QED
      BY <1>a, <2>1, <2>2
  <1>8. CASE DeleteFiles
    BY <1>a, <1>8 DEF DeleteFiles, DeleteMedia, DeleteOriginals, DeleteInbox, Maybe
  <1>9. QED
    BY <1>a, <1>1, <1>2, <1>3, <1>4, <1>5, <1>6, <1>7, <1>8 DEF Effect, HandlerWrites

-----------------------------------------------------------------------------
(* StoreSound.                                                                 *)

LEMMA SoundFrame ==
  ASSUME NEW k \in Id, SoundAt(k),
         catalog'[k] = catalog[k], record'[k] = record[k], inbox'[k] = inbox[k],
         originals'[k] = originals[k], media'[k] = media[k], importer'[k] = importer[k]
  PROVE  SoundAt(k)'
  BY DEF SoundAt, Live, Restorable, ArchiveState, Running, ArtsOf

\* Containers that nobody waits for change nothing here by ending.
LEMMA SoundQuiet ==
  ASSUME NEW k \in Id, SoundAt(k), Quiet
  PROVE  SoundAt(k)'
  <1>1. /\ catalog'[k] = catalog[k] /\ record'[k] = record[k] /\ inbox'[k] = inbox[k]
        /\ originals'[k] = originals[k] /\ media'[k] = media[k]
    BY DEF Quiet, Files
  <1>2. (Live(k)' <=> Live(k)) /\ (Restorable(k)' <=> Restorable(k))
    BY <1>1 DEF Live, Restorable, ArchiveState
  <1>3. importer'[k] # None =>
          /\ importer[k] # None /\ importer'[k].art = importer[k].art
          /\ importer'[k].at \in {importer[k].at, "done", "failed"}
    BY DEF Quiet
  <1>4. Running(k)' => Running(k)
    BY <1>3 DEF Running
  <1>5. ArtsOf(k)' \subseteq ArtsOf(k)
    BY <1>1, <1>2, <1>3 DEF ArtsOf
  <1>6. QED
    BY <1>1, <1>2, <1>3, <1>4, <1>5 DEF SoundAt

\* A handler never writes an entry for a page with a running container, and only drawings
\* that are the page's already.
LEMMA SoundHandler ==
  ASSUME IInv, HandlerWrites, NEW k \in Id
  PROVE  SoundAt(k)'
  <1>0. TypeOK /\ HandlerFacts /\ SoundAt(k)
    BY DEF IInv, StoreSound
  <1>1. CASE PrepareArchive
    <2>1. handler.op = "archive" /\ UNCHANGED <<catalog, inbox, originals, media, importer>>
      BY <1>0, <1>1 DEF PrepareArchive, HandlerFacts, TypeOK, AdminTypeOK
    <2>2. CASE k # handler.id
      BY <1>0, <1>1, <2>1, <2>2, SoundFrame DEF PrepareArchive
    <2>3. CASE k = handler.id
      <3>1. handler.base[k] # None /\ catalog[k] = handler.base[k]
        BY <1>0, <1>1, <2>1, <2>3 DEF HandlerFacts, PrepareArchive
      <3>2. record'[k] = [state |-> "prepared", art |-> catalog[k]]
        BY <1>1, <2>3, <3>1 DEF PrepareArchive, IInv, TypeOK, StoreTypeOK
      <3>3. ArtsOf(k)' \subseteq ArtsOf(k)
        BY <2>1, <3>2 DEF ArtsOf, Restorable, ArchiveState
      <3>4. Live(k) /\ Live(k)' /\ ~Running(k) /\ ~Running(k)'
        BY <1>0, <2>1, <3>1 DEF SoundAt, Live, Running
      <3>5. QED
        BY <1>0, <2>1, <3>2, <3>3, <3>4 DEF SoundAt
    <2>4. QED
      BY <2>2, <2>3
  <1>2. CASE ReplaceCatalog
    <2>1. UNCHANGED <<record, inbox, originals, media, importer>> /\ catalog' = Candidate
      BY <1>2 DEF ReplaceCatalog
    <2>2. \/ catalog'[k] \in {catalog[k], None}
          \/ Restorable(k) /\ catalog'[k] = record[k].art
      BY <1>0, <1>2, <2>1, CandidatePages DEF HandlerFacts, ReplaceCatalog
    <2>3. (Restorable(k)' <=> Restorable(k)) /\ (Running(k)' <=> Running(k))
      BY <2>1 DEF Restorable, ArchiveState, Running
    <2>4. ArtsOf(k)' \subseteq ArtsOf(k) \cup {None}
      BY <2>1, <2>2, <2>3 DEF ArtsOf
    <2>5. QED
      BY <1>0, <2>1, <2>2, <2>3, <2>4 DEF SoundAt, Live
  <1>3. CASE FinishRecord \/ MarkDelete \/ WriteTombstone
    <2>1. UNCHANGED <<catalog, inbox, originals, media, importer>>
      BY <1>3 DEF FinishRecord, MarkDelete, WriteTombstone
    <2>2. \/ record'[k] = record[k]
          \/ /\ k = handler.id /\ handler.op \in {"archive", "restore", "delete"}
             /\ record'[k] # None /\ record'[k] = [state |-> Becomes, art |-> record[k].art]
      BY <1>0, <1>3, RecordSet
    <2>3. CASE record'[k] = record[k]
      BY <1>0, <2>1, <2>3, SoundFrame
    <2>4. CASE /\ k = handler.id /\ handler.op \in {"archive", "restore", "delete"}
               /\ record'[k] # None /\ record'[k] = [state |-> Becomes, art |-> record[k].art]
      <3>1. Restorable(k)' => Restorable(k)
        <4>1. CASE handler.op = "archive"
          <5>1. record[k] = [state |-> "prepared", art |-> handler.base[k]] /\ record[k] # None
            BY <1>0, <1>3, <2>4, <4>1, HandlerPage DEF HandlerFacts, FinishRecord, MarkDelete, WriteTombstone
          <5>2. QED
            BY <5>1 DEF Restorable, ArchiveState
        <4>2. CASE handler.op # "archive"
          BY <2>4, <4>2 DEF Restorable, ArchiveState, Becomes
        <4>3. QED
          BY <4>1, <4>2
      <3>2. ArtsOf(k)' \subseteq ArtsOf(k) /\ record'[k].art = record[k].art
        BY <2>1, <2>4, <3>1 DEF ArtsOf
      <3>3. (Live(k)' <=> Live(k)) /\ (Running(k)' <=> Running(k))
        BY <2>1 DEF Live, Running
      <3>4. QED
        BY <1>0, <2>1, <3>1, <3>2, <3>3 DEF SoundAt
    <2>5. QED
      BY <2>2, <2>3, <2>4
  <1>4. CASE DeleteFiles
    <2>1. /\ handler.op = "delete" /\ handler.id \in Id /\ handler.at # "mark"
          /\ UNCHANGED <<catalog, record, importer>>
      BY <1>0, <1>4, HandlerPage
         DEF DeleteFiles, DeleteMedia, DeleteOriginals, DeleteInbox, HandlerFacts, TypeOK, AdminTypeOK
    <2>2. /\ inbox'[k] \in {inbox[k], None} /\ originals'[k] \in {originals[k], None}
          /\ media'[k] \in {media[k], None}
          /\ k # handler.id => inbox'[k] = inbox[k] /\ originals'[k] = originals[k] /\ media'[k] = media[k]
      BY <1>4, <2>1 DEF DeleteFiles, DeleteMedia, DeleteOriginals, DeleteInbox, IInv, TypeOK, StoreTypeOK
    <2>3. CASE k # handler.id
      BY <1>0, <2>1, <2>2, <2>3, SoundFrame
    <2>4. CASE k = handler.id
      <3>1. ~Live(k) /\ ~Restorable(k) /\ importer[k] = None
        BY <1>0, <2>1, <2>4 DEF HandlerFacts, Restorable
      <3>2. ~Live(k)' /\ ~Restorable(k)' /\ importer'[k] = None
        BY <2>1, <3>1 DEF Live, Restorable, ArchiveState
      <3>3. ArtsOf(k)' \subseteq ArtsOf(k) \cup {None}
        BY <2>1, <2>2, <3>1, <3>2 DEF ArtsOf
      <3>4. QED
        BY <1>0, <3>1, <3>2, <3>3 DEF SoundAt, Running
    <2>5. QED
      BY <2>3, <2>4
  <1>5. QED
    BY <1>1, <1>2, <1>3, <1>4 DEF HandlerWrites

LEMMA SoundStep ==
  ASSUME IInv, Effect
  PROVE  StoreSound'
  <1>0. TypeOK /\ \A k \in Id : SoundAt(k)
    BY DEF IInv, StoreSound
  <1> SUFFICES ASSUME NEW k \in Id PROVE SoundAt(k)'
    BY DEF StoreSound
  <1>1. CASE Quiet
    BY <1>0, <1>1, SoundQuiet
  <1>2. ASSUME NEW i \in Id, NEW a \in Art, HandsOver(i, a)
        PROVE  SoundAt(k)'
    <2>1. CASE k # i
      BY <1>0, <1>2, <2>1, HandsOverFacts, SoundFrame DEF HandsOver
    <2>2. CASE k = i
      <3>1. /\ originals'[k] = None /\ media'[k] = None /\ ~Live(k)' /\ ~Restorable(k)' /\ catalog'[k] = None
        BY <1>2, <2>2 DEF HandsOver, NoFiles, Live, Restorable, ArchiveState
      <3>2. inbox'[k] = a /\ importer'[k] = [art |-> a, at |-> "files", waited |-> TRUE] /\ importer'[k] # None
        BY <1>0, <1>2, <2>2, HandsOverFacts
      <3>3. ArtsOf(k)' \subseteq {a, None}
        BY <3>1, <3>2 DEF ArtsOf
      <3>4. QED
        BY <3>1, <3>2, <3>3 DEF SoundAt, Running
    <2>3. QED
      BY <2>1, <2>2
  <1>3. ASSUME NEW i \in Id, ImportFiles(i)
        PROVE  SoundAt(k)'
    <2>0. UNCHANGED <<catalog, record, inbox>> /\ Running(i)
      BY <1>3 DEF ImportFiles
    <2>1. CASE k # i
      BY <1>0, <1>3, <2>0, <2>1, ImportFilesFacts, SoundFrame
    <2>2. CASE k = i
      <3>1. ~Live(k) /\ ~Restorable(k) /\ inbox[k] = importer[k].art
        BY <1>0, <2>0, <2>2 DEF SoundAt, Running
      <3>2. ~Live(k)' /\ ~Restorable(k)' /\ catalog'[k] = None
        BY <2>0, <3>1 DEF Live, Restorable, ArchiveState
      <3>3. /\ originals'[k] = importer[k].art /\ media'[k] = importer[k].art /\ inbox'[k] = importer[k].art
            /\ importer'[k] # None /\ importer'[k].art = importer[k].art /\ importer'[k].at = "catalog"
        BY <1>0, <1>3, <2>0, <2>2, <3>1, ImportFilesFacts
      <3>4. ArtsOf(k)' \subseteq {importer[k].art, None}
        BY <3>2, <3>3 DEF ArtsOf
      <3>5. QED
        BY <3>2, <3>3, <3>4 DEF SoundAt
    <2>3. QED
      BY <2>1, <2>2
  <1>4. ASSUME NEW i \in Id, ImportCatalog(i)
        PROVE  SoundAt(k)'
    <2>0. UNCHANGED <<record, inbox, originals, media>> /\ importer[i].at = "catalog"
      BY <1>4 DEF ImportCatalog
    <2>a. Running(i) /\ Ended(i, "done")
      BY <1>4 DEF ImportCatalog
    <2>1. CASE k # i
      <3>1. catalog'[k] = catalog[k]
        BY <1>0, <1>4, <2>1, ImportCatalogFacts
      <3>2. importer'[k] = importer[k]
        BY <1>0, <2>a, <2>1, EndedFacts
      <3>3. QED
        BY <1>0, <2>0, <3>1, <3>2, SoundFrame
    <2>2. CASE k = i
      <3>1. /\ ~Restorable(k) /\ inbox[k] = importer[k].art /\ originals[k] = importer[k].art
            /\ media[k] = importer[k].art
        BY <1>0, <2>0, <2>a, <2>2 DEF SoundAt, Running
      <3>2. catalog'[k] = importer[k].art
        BY <1>0, <1>4, <2>2, ImportCatalogFacts
      <3>3. importer'[k] # None => importer'[k].art = importer[k].art /\ importer'[k].at = "done"
        BY <1>0, <2>a, <2>2, EndedFacts
      <3>4. ~Restorable(k)' /\ ~Running(k)'
        BY <2>0, <3>1, <3>3 DEF Restorable, ArchiveState, Running
      <3>5. ArtsOf(k)' \subseteq {importer[k].art, None}
        BY <2>0, <3>1, <3>2, <3>3, <3>4 DEF ArtsOf
      <3>6. QED
        BY <2>0, <3>1, <3>2, <3>3, <3>4, <3>5 DEF SoundAt, Live
    <2>3. QED
      BY <2>1, <2>2
  <1>5. CASE HandlerWrites
    BY <1>5, SoundHandler
  <1>6. QED
    BY <1>1, <1>2, <1>3, <1>4, <1>5 DEF Effect

-----------------------------------------------------------------------------
(* Types of the programs' own state.                                           *)

LEMMA RecordTypes ==
  ASSUME TypeOK
  PROVE  /\ NoWorker \in [job : Jobs \cup {0}, ids : Seq(Id),
                          at : {"none", "queued", "allocate", "stage", "import", "verify"}]
         /\ NoHandler \in [op : {"none", "edit", "archive", "restore", "delete"},
                           id : Maybe(Id), base : Maybe([Id -> Maybe(Art)]),
                           at : {"none", "prepare", "check", "replace", "record",
                                 "mark", "media", "originals", "inbox", "tombstone"}]
         /\ NoBridge \in [batch : BatchIds \cup {0}, succeeded : Nat,
                          at : {"none", "claim", "activity", "download", "preserved", "import", "exit"}]
  BY DEF NoWorker, NoHandler, NoBridge, Maybe

JobRecords == [status : {"none", "failed", "published"} \cup Active, results : Nat]

LEMMA JobTypes ==
  ASSUME TypeOK, NEW j \in Jobs
  PROVE  /\ \A status \in {"failed", "published"} \cup Active :
               [jobs EXCEPT ![j].status = status] \in [Jobs -> JobRecords]
         /\ [jobs EXCEPT ![j].results = @ + 1] \in [Jobs -> JobRecords]
  <1>1. jobs \in [Jobs -> JobRecords]
    BY DEF TypeOK, AdminTypeOK, JobRecords
  <1>2. \A r \in JobRecords : /\ [r EXCEPT !.results = r.results + 1] \in JobRecords
                              /\ \A status \in {"failed", "published"} \cup Active :
                                    [r EXCEPT !.status = status] \in JobRecords
    BY DEF JobRecords
  <1>3. QED
    BY <1>1, <1>2

LEMMA JobFields ==
  ASSUME TypeOK, NEW j \in Jobs
  PROVE  /\ \A status \in {"failed", "published"} \cup Active :
               jobs' = [jobs EXCEPT ![j].status = status] =>
                  /\ jobs'[j].status = status /\ jobs'[j].results = jobs[j].results
                  /\ \A k \in Jobs \ {j} : jobs'[k] = jobs[k]
         /\ jobs' = [jobs EXCEPT ![j].results = @ + 1] =>
               /\ jobs'[j].status = jobs[j].status /\ jobs'[j].results = jobs[j].results + 1
               /\ \A k \in Jobs \ {j} : jobs'[k] = jobs[k]
         /\ jobs[j].results \in Nat
  <1>1. jobs \in [Jobs -> JobRecords]
    BY DEF TypeOK, AdminTypeOK, JobRecords
  <1>2. \A r \in JobRecords :
          /\ r.results \in Nat
          /\ [r EXCEPT !.results = r.results + 1].status = r.status
          /\ [r EXCEPT !.results = r.results + 1].results = r.results + 1
          /\ \A status \in {"failed", "published"} \cup Active :
               [r EXCEPT !.status = status].status = status /\ [r EXCEPT !.status = status].results = r.results
    BY DEF JobRecords
  <1>3. ASSUME NEW status \in {"failed", "published"} \cup Active,
               jobs' = [jobs EXCEPT ![j].status = status]
        PROVE  /\ jobs'[j].status = status /\ jobs'[j].results = jobs[j].results
               /\ \A k \in Jobs \ {j} : jobs'[k] = jobs[k]
    <2>1. jobs'[j] = [jobs[j] EXCEPT !.status = status] /\ \A k \in Jobs \ {j} : jobs'[k] = jobs[k]
      BY <1>1, <1>3
    <2>2. QED
      BY <1>1, <1>2, <2>1
  <1>4. ASSUME jobs' = [jobs EXCEPT ![j].results = @ + 1]
        PROVE  /\ jobs'[j].status = jobs[j].status /\ jobs'[j].results = jobs[j].results + 1
               /\ \A k \in Jobs \ {j} : jobs'[k] = jobs[k]
    <2>1. jobs'[j] = [jobs[j] EXCEPT !.results = jobs[j].results + 1] /\ \A k \in Jobs \ {j} : jobs'[k] = jobs[k]
      BY <1>1, <1>4
    <2>2. QED
      BY <1>1, <1>2, <2>1
  <1>5. QED
    BY <1>1, <1>2, <1>3, <1>4

\* The end of a thread whose job is published: it can turn that job's status, nothing else.
LEMMA ThreadEnds ==
  ASSUME TypeOK, WorkerFacts, EndingFacts, NEW j \in Jobs, EndThread(j)
  PROVE  /\ UNCHANGED <<storeVars, up, worker, handler, handled>> /\ ending' = ending \ {j}
         /\ jobs' \in [Jobs -> JobRecords] /\ \A k \in Jobs \ {j} : jobs'[k] = jobs[k]
         /\ \A k \in Jobs : jobs'[k].results = jobs[k].results
         /\ jobs[j].status = "published" /\ jobs'[j].status \in {"published", "failed"}
         /\ worker.job # j
         /\ worker.at # "none" => Page' = Page /\ PageId' = PageId /\ PageArt' = PageArt
  <1>1. /\ UNCHANGED <<storeVars, up, worker, handler, handled>> /\ ending' = ending \ {j} /\ j \in ending
        /\ UNCHANGED jobs \/ jobs' = [jobs EXCEPT ![j].status = "failed"]
    BY DEF EndThread
  <1>2. jobs[j].status = "published"
    BY <1>1 DEF EndingFacts
  <1>3. worker.job # j
    <2>1. j # 0
      BY AdminAssumption DEF Jobs
    <2>2. j \notin ActiveJobs
      BY <1>2 DEF ActiveJobs, Active
    <2>3. QED
      BY <2>1, <2>2 DEF WorkerFacts
  <1>4. jobs' \in [Jobs -> JobRecords]
    <2>1. jobs \in [Jobs -> JobRecords]
      BY DEF TypeOK, AdminTypeOK, JobRecords
    <2>2. [jobs EXCEPT ![j].status = "failed"] \in [Jobs -> JobRecords]
      BY JobTypes
    <2>3. QED
      BY <1>1, <2>1, <2>2
  <1>5. /\ \A k \in Jobs \ {j} : jobs'[k] = jobs[k]
        /\ \A k \in Jobs : jobs'[k].results = jobs[k].results
        /\ jobs'[j].status \in {"published", "failed"}
    <2>1. CASE UNCHANGED jobs
      BY <1>2, <2>1
    <2>2. CASE jobs' = [jobs EXCEPT ![j].status = "failed"]
      BY <2>2, JobFields
    <2>3. QED
      BY <1>1, <2>1, <2>2
  <1>6. ASSUME worker.at # "none"
        PROVE  Page' = Page /\ PageId' = PageId /\ PageArt' = PageArt
    <2>1. worker.job \in Jobs
      BY <1>6 DEF WorkerFacts, TypeOK, AdminTypeOK
    <2>2. jobs'[worker.job] = jobs[worker.job] /\ UNCHANGED worker
      BY <1>1, <1>3, <1>5, <2>1
    <2>3. QED
      BY <2>2 DEF Page, PageId, PageArt
  <1>7. QED
    BY <1>1, <1>2, <1>3, <1>4, <1>5, <1>6

LEMMA AdminTypes ==
  ASSUME IInv, AdminNext
  PROVE  AdminTypeOK' /\ lock' \in Maybe(Holders)
  <1>0. TypeOK /\ AdminTypeOK /\ HandlerFacts /\ WorkerFacts /\ EndingFacts /\ lock \in Maybe(Holders)
    BY DEF IInv, TypeOK, StoreTypeOK
  <1>1. /\ NoWorker \in [job : Jobs \cup {0}, ids : Seq(Id),
                         at : {"none", "queued", "allocate", "stage", "import", "verify"}]
        /\ NoHandler \in [op : {"none", "edit", "archive", "restore", "delete"},
                          id : Maybe(Id), base : Maybe([Id -> Maybe(Art)]),
                          at : {"none", "prepare", "check", "replace", "record",
                                "mark", "media", "originals", "inbox", "tombstone"}]
    BY <1>0, RecordTypes
  <1>2. ASSUME NEW j \in Jobs, CreateJob(j)
        PROVE  AdminTypeOK' /\ lock' \in Maybe(Holders)
    BY <1>0, <1>1, <1>2 DEF CreateJob, NoWorker, AdminTypeOK, storeVars, Active
  <1>3. CASE StartJob
    BY <1>0, <1>3 DEF StartJob, AdminTypeOK, Active, Maybe, Holders
  <1>4. CASE AllocateIds
    <2>1. PICK ids \in [1 .. Len(Uploads[worker.job]) -> Id \ Reserved] :
             worker' = [worker EXCEPT !.at = "stage", !.ids = ids]
      BY <1>4 DEF AllocateIds
    <2>2. worker.job \in Jobs
      BY <1>0, <1>4 DEF AllocateIds, WorkerFacts, AdminTypeOK
    <2>3. Len(Uploads[worker.job]) \in Nat
      BY <2>2, AdminAssumption DEF Jobs
    <2>4. ids \in Seq(Id)
      BY <2>1, <2>3
    <2>5. QED
      BY <1>0, <1>4, <2>1, <2>4 DEF AllocateIds, AdminTypeOK, storeVars
  <1>5. CASE HandOverPage
    BY <1>0, <1>5 DEF HandOverPage, AdminTypeOK
  <1>6. CASE PageImported
    <2>1. worker' \in [job : Jobs \cup {0}, ids : Seq(Id),
                       at : {"none", "queued", "allocate", "stage", "import", "verify"}]
      BY <1>0, <1>6 DEF PageImported, AdminTypeOK
    <2>2. jobs' \in [Jobs -> [status : {"none", "failed", "published"} \cup Active, results : Nat]]
      BY <1>0, <1>6, JobTypes DEF PageImported, AdminTypeOK, WorkerFacts, JobRecords
    <2>3. lock' \in Maybe(Holders) /\ UNCHANGED <<up, ending, handler, handled>>
      BY <1>0, <1>6 DEF PageImported, Maybe
    <2>4. QED
      BY <1>0, <2>1, <2>2, <2>3 DEF AdminTypeOK
  <1>7. CASE PublishJob \/ JobFails
    <2>1. worker.job \in Jobs
      BY <1>0, <1>7 DEF PublishJob, JobFails, WorkerFacts, AdminTypeOK
    <2>2. jobs' \in [Jobs -> [status : {"none", "failed", "published"} \cup Active, results : Nat]]
      <3>1. \/ UNCHANGED jobs
            \/ \E status \in {"failed", "published"} : jobs' = [jobs EXCEPT ![worker.job].status = status]
        BY <1>7 DEF PublishJob, JobFails
      <3>2. jobs' \in [Jobs -> JobRecords]
        <4>1. jobs \in [Jobs -> JobRecords]
          BY <1>0 DEF AdminTypeOK, JobRecords
        <4>2. QED
          <5>1. \A status \in {"failed", "published"} :
                   [jobs EXCEPT ![worker.job].status = status] \in [Jobs -> JobRecords]
            BY <1>0, <2>1, JobTypes
          <5>2. QED
            BY <3>1, <4>1, <5>1
      <3>3. QED
        BY <3>2 DEF JobRecords
    <2>3. lock' \in Maybe(Holders) /\ worker' = NoWorker /\ ending' \subseteq Jobs /\ UNCHANGED <<up, handler, handled>>
      BY <1>0, <1>7, <2>1 DEF PublishJob, JobFails, LetGo, Maybe, storeVars, AdminTypeOK
    <2>4. QED
      BY <1>0, <1>1, <2>2, <2>3 DEF AdminTypeOK
  <1>8. CASE Request
    <2>1. PICK op \in {"edit", "archive", "restore", "delete"}, i \in Id, place \in {"check", "prepare", "mark"} :
             Admit(op, i, place)
      BY <1>8 DEF Request, Edit, Archive, Restore, Delete
    <2>2. catalog \in [Id -> Maybe(Art)] /\ MaxHandled \in Nat
      BY <1>0, AdminAssumption DEF TypeOK, StoreTypeOK
    <2>3. handler' \in [op : {"none", "edit", "archive", "restore", "delete"},
                        id : Maybe(Id), base : Maybe([Id -> Maybe(Art)]),
                        at : {"none", "prepare", "check", "replace", "record",
                              "mark", "media", "originals", "inbox", "tombstone"}]
      BY <2>1, <2>2 DEF Admit, Maybe
    <2>4. handled' \in 0 .. MaxHandled /\ lock' = "handler" /\ UNCHANGED <<up, jobs, worker, ending>>
      BY <1>0, <2>1, <2>2 DEF Admit, AdminTypeOK
    <2>5. QED
      BY <1>0, <2>3, <2>4 DEF AdminTypeOK, Maybe, Holders
  <1>9. CASE HandlerStep
    <2>1. UNCHANGED <<up, jobs, worker, ending, handled>>
      BY <1>9 DEF HandlerStep, PrepareArchive, CheckCatalog, ReplaceCatalog, FinishRecord, MarkDelete,
         DeleteMedia, DeleteOriginals, DeleteInbox, WriteTombstone, HandlerFails
    <2>2. lock' \in Maybe(Holders)
      BY <1>0, <1>9 DEF HandlerStep, PrepareArchive, CheckCatalog, ReplaceCatalog, FinishRecord, MarkDelete,
         DeleteMedia, DeleteOriginals, DeleteInbox, WriteTombstone, HandlerFails, Release, storeVars, Maybe
    <2>3. \/ \E place \in {"check", "replace", "record", "media", "originals", "inbox", "tombstone"} : At(place)
          \/ handler' = NoHandler
      BY <1>9 DEF HandlerStep, PrepareArchive, CheckCatalog, ReplaceCatalog, FinishRecord, MarkDelete,
         DeleteMedia, DeleteOriginals, DeleteInbox, WriteTombstone, HandlerFails, Release
    <2>4. handler' \in [op : {"none", "edit", "archive", "restore", "delete"},
                        id : Maybe(Id), base : Maybe([Id -> Maybe(Art)]),
                        at : {"none", "prepare", "check", "replace", "record",
                              "mark", "media", "originals", "inbox", "tombstone"}]
      BY <1>0, <1>1, <2>3 DEF At, AdminTypeOK
    <2>5. QED
      BY <1>0, <2>1, <2>2, <2>4 DEF AdminTypeOK
  <1>10. CASE Crash
    <2>1. UNCHANGED <<jobs, handled>> /\ up' = FALSE /\ worker' = NoWorker /\ ending' = {} /\ handler' = NoHandler
      BY <1>10 DEF Crash
    <2>2. lock' = lock \/ lock' = None
      BY <1>10 DEF Crash
    <2>3. lock' \in Maybe(Holders)
      BY <1>0, <2>2 DEF Maybe
    <2>4. QED
      BY <1>0, <1>1, <2>1, <2>3 DEF AdminTypeOK
  <1>11. CASE Restart
    BY <1>0, <1>11 DEF Restart, AdminTypeOK, storeVars
  <1>12. ASSUME NEW j \in Jobs, EndThread(j)
         PROVE  AdminTypeOK' /\ lock' \in Maybe(Holders)
    BY <1>0, <1>12, ThreadEnds DEF AdminTypeOK, JobRecords, storeVars
  <1>13. QED
    BY <1>2, <1>3, <1>4, <1>5, <1>6, <1>7, <1>8, <1>9, <1>10, <1>11, <1>12 DEF AdminNext, JobStep

LEMMA DriveTypes ==
  ASSUME IInv, DriveNext
  PROVE  DriveTypeOK' /\ lock' \in Maybe(Holders)
  <1>0. TypeOK /\ DriveTypeOK /\ BridgeFacts /\ lock \in Maybe(Holders)
    BY DEF IInv, TypeOK, StoreTypeOK
  <1>1. /\ NoBridge \in [batch : BatchIds \cup {0}, succeeded : Nat,
                         at : {"none", "claim", "activity", "download", "preserved", "import", "exit"}]
        /\ NoBridge.batch = 0 /\ NoBridge.succeeded = 0
    BY <1>0, RecordTypes DEF NoBridge
  <1>2. \A b \in BatchIds : b # 0 /\ Len(Batches[b]) \in Nat
    BY BatchesAssumption DEF BatchIds
  <1>3. ASSUME NEW b \in BatchIds, ClaimMarker(b)
        PROVE  DriveTypeOK' /\ lock' \in Maybe(Holders)
    <2>1. /\ bridge' \in [batch : BatchIds \cup {0}, succeeded : Nat,
                  at : {"none", "claim", "activity", "download", "preserved", "import", "exit"}]
          /\ bridge'.batch = b /\ bridge'.succeeded = 0
      BY <1>1, <1>3 DEF ClaimMarker, NoBridge
    <2>2. batch' \in [BatchIds -> [request : {"ready", "marked", "claimed"}, result : Maybe(Results)]]
      BY <1>0, <1>3 DEF ClaimMarker, DriveTypeOK
    <2>3. UNCHANGED <<ingest, receipt, lock>>
      BY <1>3 DEF ClaimMarker, storeVars
    <2>4. QED
      BY <1>0, <1>2, <2>1, <2>2, <2>3 DEF DriveTypeOK
  <1>4. CASE ClaimRequest \/ Preserve
    BY <1>0, <1>4 DEF ClaimRequest, Preserve, DriveTypeOK, storeVars
  <1>5. CASE AlreadyProcessed \/ IngestExits
    <2>1. Remaining /\ bridge.batch \in BatchIds
      BY <1>0, <1>5 DEF AlreadyProcessed, IngestExits, BridgeFacts, DriveTypeOK
    <2>2. /\ bridge'.batch = bridge.batch /\ bridge'.succeeded = bridge.succeeded + 1
          /\ bridge' \in [batch : BatchIds \cup {0}, succeeded : Nat,
                  at : {"none", "claim", "activity", "download", "preserved", "import", "exit"}]
          /\ UNCHANGED <<batch, ingest, receipt, lock>>
      <3>1. bridge \in [batch : BatchIds \cup {0}, succeeded : Nat,
                        at : {"none", "claim", "activity", "download", "preserved", "import", "exit"}]
        BY <1>0 DEF DriveTypeOK
      <3>2. bridge.succeeded + 1 \in Nat
        BY <3>1
      <3>3. \/ bridge' = [bridge EXCEPT !.succeeded = bridge.succeeded + 1]
            \/ bridge' = [bridge EXCEPT !.at = "activity", !.succeeded = bridge.succeeded + 1]
        BY <1>5 DEF AlreadyProcessed, IngestExits
      <3>4. UNCHANGED <<batch, ingest, receipt, lock>>
        BY <1>5 DEF AlreadyProcessed, IngestExits, storeVars
      <3>5. CASE bridge' = [bridge EXCEPT !.succeeded = bridge.succeeded + 1]
        BY <3>1, <3>2, <3>4, <3>5
      <3>6. CASE bridge' = [bridge EXCEPT !.at = "activity", !.succeeded = bridge.succeeded + 1]
        BY <3>1, <3>2, <3>4, <3>6
      <3>7. QED
        BY <3>3, <3>5, <3>6
    <2>3. bridge'.succeeded <= IF bridge'.batch = 0 THEN 0 ELSE Len(Batches[bridge'.batch])
      BY <1>0, <1>2, <2>1, <2>2 DEF Remaining, DriveTypeOK
    <2>4. QED
      BY <1>0, <2>2, <2>3 DEF DriveTypeOK
  <1>6. CASE StartIngest
    BY <1>0, <1>6 DEF StartIngest, DriveTypeOK, Maybe, Holders
  <1>7. CASE HandOverDownload
    BY <1>0, <1>7 DEF HandOverDownload, DriveTypeOK
  <1>8. CASE WriteReceipt
    <2>1. Activity.art \in Art
      BY <1>0, <1>8, ActivityInside DEF WriteReceipt, BridgeFacts
    <2>2. receipt' \in [Id -> Maybe(Art)] /\ ingest' \in [Id -> {"none", "partial", "preserved", "handed"}]
      BY <1>0, <1>8, <2>1 DEF WriteReceipt, DriveTypeOK, Maybe
    <2>3. QED
      BY <1>0, <1>8, <2>2 DEF WriteReceipt, DriveTypeOK, Maybe
  <1>9. CASE BatchPasses \/ BatchFails
    <2>1. [verdict |-> "PASS", succeeded |-> bridge.succeeded] \in Results
          /\ [verdict |-> "FAIL", succeeded |-> bridge.succeeded] \in Results
      BY <1>0 DEF DriveTypeOK, Results
    <2>2. batch' \in [BatchIds -> [request : {"ready", "marked", "claimed"}, result : Maybe(Results)]]
      BY <1>0, <1>9, <2>1 DEF BatchPasses, BatchFails, DriveTypeOK, Maybe
    <2>3. QED
      BY <1>0, <1>1, <1>9, <2>2 DEF BatchPasses, BatchFails, Ending, DriveTypeOK, Maybe, storeVars
  <1>10. CASE BridgeDies
    BY <1>0, <1>1, <1>10 DEF BridgeDies, Ending, DriveTypeOK, Maybe
  <1>11. QED
    BY <1>3, <1>4, <1>5, <1>6, <1>7, <1>8, <1>9, <1>10 DEF DriveNext, BridgeStep

LEMMA TypesStep ==
  ASSUME IInv, Next
  PROVE  TypeOK'
  <1>1. /\ catalog' \in [Id -> Maybe(Art)] /\ record' \in [Id -> Maybe(Records)]
        /\ inbox' \in [Id -> Maybe(Art)] /\ originals' \in [Id -> Maybe(Art)] /\ media' \in [Id -> Maybe(Art)]
        /\ importer' \in [Id -> Maybe(Containers)]
    BY StepEffect, StoreTypes
  <1>2. AdminTypeOK /\ DriveTypeOK /\ lock \in Maybe(Holders)
    BY DEF IInv, TypeOK, StoreTypeOK
  <1>3. CASE AdminNext /\ UNCHANGED driveVars
    <2>1. AdminTypeOK' /\ lock' \in Maybe(Holders) /\ DriveTypeOK'
      BY <1>2, <1>3, AdminTypes DEF driveVars, DriveTypeOK
    <2>2. QED
      BY <1>1, <2>1 DEF TypeOK, StoreTypeOK
  <1>4. CASE DriveNext /\ UNCHANGED adminVars
    <2>1. DriveTypeOK' /\ lock' \in Maybe(Holders) /\ AdminTypeOK'
      BY <1>2, <1>4, DriveTypes DEF adminVars, AdminTypeOK
    <2>2. QED
      BY <1>1, <2>1 DEF TypeOK, StoreTypeOK
  <1>5. CASE Importer /\ UNCHANGED <<adminVars, driveVars>>
    <2>1. UNCHANGED lock
      BY <1>5 DEF Importer, ImportFiles, ImportCatalog, ImporterFails
    <2>2. AdminTypeOK' /\ DriveTypeOK'
      BY <1>2, <1>5 DEF adminVars, driveVars, AdminTypeOK, DriveTypeOK
    <2>3. QED
      BY <1>1, <1>2, <2>1, <2>2 DEF TypeOK, StoreTypeOK
  <1>6. QED
    BY <1>3, <1>4, <1>5 DEF Next

-----------------------------------------------------------------------------
(* The lock, and who waits for a container.                                    *)

\* What becomes of the dispatcher while it works on its batch.
LEMMA BridgeMoves ==
  ASSUME DriveTypeOK
  PROVE  /\ ClaimRequest => bridge'.at = "activity" /\ bridge'.succeeded = bridge.succeeded
         /\ StartIngest => bridge'.at = "download" /\ bridge'.succeeded = bridge.succeeded
         /\ Preserve => bridge'.at = "preserved" /\ bridge'.succeeded = bridge.succeeded
         /\ HandOverDownload => bridge'.at = "import" /\ bridge'.succeeded = bridge.succeeded
         /\ WriteReceipt => bridge'.at = "exit" /\ bridge'.succeeded = bridge.succeeded
         /\ AlreadyProcessed => bridge'.at = "activity" /\ bridge'.succeeded = bridge.succeeded + 1
         /\ IngestExits => bridge'.at = "activity" /\ bridge'.succeeded = bridge.succeeded + 1
         /\ ClaimRequest \/ StartIngest \/ Preserve \/ HandOverDownload \/ WriteReceipt
            \/ AlreadyProcessed \/ IngestExits => bridge'.batch = bridge.batch
  <1>0. bridge \in [batch : BatchIds \cup {0}, succeeded : Nat,
                    at : {"none", "claim", "activity", "download", "preserved", "import", "exit"}]
    BY DEF DriveTypeOK
  <1>1. \A place \in {"activity", "download", "preserved", "import", "exit"} :
           bridge' = [bridge EXCEPT !.at = place] =>
              bridge'.at = place /\ bridge'.batch = bridge.batch /\ bridge'.succeeded = bridge.succeeded
    BY <1>0
  <1>2. ASSUME ClaimRequest PROVE bridge' = [bridge EXCEPT !.at = "activity"]
    BY <1>2 DEF ClaimRequest
  <1>3. ASSUME StartIngest PROVE bridge' = [bridge EXCEPT !.at = "download"]
    BY <1>3 DEF StartIngest
  <1>4. ASSUME Preserve PROVE bridge' = [bridge EXCEPT !.at = "preserved"]
    BY <1>4 DEF Preserve
  <1>5. ASSUME HandOverDownload PROVE bridge' = [bridge EXCEPT !.at = "import"]
    BY <1>5 DEF HandOverDownload
  <1>6. ASSUME WriteReceipt PROVE bridge' = [bridge EXCEPT !.at = "exit"]
    BY <1>6 DEF WriteReceipt
  <1>7. ASSUME AlreadyProcessed
        PROVE  /\ bridge'.at = "activity" /\ bridge'.batch = bridge.batch
               /\ bridge'.succeeded = bridge.succeeded + 1
    <2>1. bridge' = [bridge EXCEPT !.succeeded = bridge.succeeded + 1] /\ bridge.at = "activity"
      BY <1>7 DEF AlreadyProcessed
    <2>2. QED
      BY <1>0, <2>1
  <1>8. ASSUME IngestExits
        PROVE  /\ bridge'.at = "activity" /\ bridge'.batch = bridge.batch
               /\ bridge'.succeeded = bridge.succeeded + 1
    <2>1. bridge' = [bridge EXCEPT !.at = "activity", !.succeeded = bridge.succeeded + 1]
      BY <1>8 DEF IngestExits
    <2>2. QED
      BY <1>0, <2>1
  <1>9. QED
    BY <1>1, <1>2, <1>3, <1>4, <1>5, <1>6, <1>7, <1>8

LEMMA LockedStep ==
  ASSUME IInv, Next
  PROVE  Locked'
  <1>0. TypeOK /\ Locked /\ AdminTypeOK /\ DriveTypeOK /\ lock \in Maybe(Holders) /\ HandlerFacts
    BY DEF IInv, TypeOK, StoreTypeOK
  <1>a. None \notin Holders
    BY StoreAssumption
  <1>1. CASE AdminNext /\ UNCHANGED driveVars
    <2>0. UNCHANGED bridge
      BY <1>1 DEF driveVars
    <2>1. CASE \E j \in Jobs : CreateJob(j)
      <3>1. worker.job = 0
        BY <2>1 DEF CreateJob, IInv, WorkerFacts
      <3>2. worker.at = "none" /\ worker'.at = "queued" /\ UNCHANGED <<lock, handler, up>> /\ up
        BY <2>1, <3>1 DEF CreateJob, NoWorker, storeVars, IInv, WorkerFacts
      <3>3. QED
        BY <1>0, <2>0, <3>2 DEF Locked
    <2>2. CASE StartJob
      <3>1. lock = None /\ lock' = "job" /\ worker'.at = "allocate" /\ UNCHANGED <<handler, up>> /\ worker.at = "queued"
        BY <1>0, <2>2 DEF StartJob, AdminTypeOK
      <3>2. QED
        BY <1>0, <1>a, <2>0, <3>1 DEF Locked, Holders
    <2>3. CASE AllocateIds \/ HandOverPage
      <3>1. worker.at \in {"allocate", "stage"} /\ worker'.at \in {"stage", "import"} /\ UNCHANGED <<lock, handler, up>>
        BY <1>0, <2>3 DEF AllocateIds, HandOverPage, AdminTypeOK, storeVars
      <3>2. QED
        BY <1>0, <2>0, <3>1 DEF Locked
    <2>4. CASE PageImported
      <3>1. /\ worker.at = "import" /\ UNCHANGED <<handler, up>>
            /\ \/ lock' = None /\ worker'.at = "verify"
               \/ UNCHANGED lock /\ worker'.at = "stage"
        BY <1>0, <2>4 DEF PageImported, AdminTypeOK
      <3>2. QED
        BY <1>0, <1>a, <2>0, <3>1 DEF Locked, Holders
    <2>a. CASE \E j \in Jobs : EndThread(j)
      <3>1. UNCHANGED <<lock, worker, handler, up>>
        BY <2>a DEF EndThread, storeVars
      <3>2. QED
        BY <1>0, <2>0, <3>1 DEF Locked
    <2>5. CASE PublishJob
      <3>1. worker.at = "verify" /\ worker'.at = "none" /\ UNCHANGED <<lock, handler, up>>
        BY <2>5 DEF PublishJob, NoWorker, storeVars
      <3>2. QED
        BY <1>0, <2>0, <3>1 DEF Locked
    <2>6. CASE JobFails
      <3>1. worker'.at = "none" /\ lock' = (IF lock = "job" THEN None ELSE lock) /\ UNCHANGED <<handler, up>>
        BY <2>6 DEF JobFails, LetGo, NoWorker
      <3>2. QED
        BY <1>0, <1>a, <2>0, <3>1 DEF Locked, Holders
    <2>7. CASE Request
      <3>1. /\ lock = None /\ lock' = "handler" /\ up /\ UNCHANGED <<up, worker>>
            /\ handler'.at \in {"prepare", "check", "mark"}
        BY <2>7 DEF Request, Edit, Archive, Restore, Delete, Admit
      <3>2. QED
        BY <1>0, <1>a, <2>0, <3>1 DEF Locked, Holders
    <2>8. CASE HandlerStep
      <3>1. /\ handler.at # "none" /\ UNCHANGED <<up, worker>>
            /\ \/ lock' = None /\ handler'.at = "none"
               \/ UNCHANGED lock /\ handler'.at # "none"
        <4>1. /\ handler.at # "none" /\ UNCHANGED <<up, worker>>
              /\ \/ Release
                 \/ UNCHANGED lock /\ \E place \in {"check", "replace", "record", "media", "originals", "inbox",
                                                  "tombstone"} : At(place)
          BY <2>8 DEF HandlerStep, PrepareArchive, CheckCatalog, ReplaceCatalog, FinishRecord, MarkDelete,
             DeleteMedia, DeleteOriginals, DeleteInbox, WriteTombstone, HandlerFails, storeVars
        <4>2. QED
          BY <1>0, <4>1 DEF Release, At, NoHandler, AdminTypeOK
      <3>2. QED
        BY <1>0, <1>a, <2>0, <3>1 DEF Locked, Holders
    <2>9. CASE Crash
      <3>1. /\ worker'.at = "none" /\ handler'.at = "none"
            /\ lock' = IF lock \in {"handler", "job"} THEN None ELSE lock
        BY <2>9 DEF Crash, NoWorker, NoHandler
      <3>2. QED
        BY <1>0, <1>a, <2>0, <3>1 DEF Locked, Holders
    <2>10. CASE Restart
      <3>1. up' = TRUE /\ UNCHANGED <<lock, worker, handler>>
        BY <2>10 DEF Restart, storeVars
      <3>2. QED
        BY <1>0, <2>0, <3>1 DEF Locked
    <2>11. QED
      BY <1>1, <2>1, <2>2, <2>3, <2>4, <2>5, <2>6, <2>7, <2>8, <2>9, <2>10, <2>a DEF AdminNext, JobStep
  <1>2. CASE DriveNext /\ UNCHANGED adminVars
    <2>0. UNCHANGED <<worker, handler, up>>
      BY <1>2 DEF adminVars
    <2>1. CASE (\E b \in BatchIds : ClaimMarker(b)) \/ ClaimRequest \/ AlreadyProcessed \/ IngestExits \/ BatchPasses
      <3>1. /\ bridge.at \in {"none", "claim", "activity", "exit"} /\ UNCHANGED lock
            /\ bridge'.at \in {"none", "claim", "activity", "exit"}
        <4>1. CASE \E b \in BatchIds : ClaimMarker(b)
          BY <4>1 DEF ClaimMarker, NoBridge, storeVars
        <4>2. CASE ClaimRequest \/ IngestExits \/ BatchPasses
          <5>1. bridge.at \in {"claim", "exit", "activity"} /\ UNCHANGED lock
            BY <4>2 DEF ClaimRequest, IngestExits, BatchPasses, storeVars
          <5>2. bridge'.at \in {"activity", "none"}
            BY <1>0, <4>2, BridgeMoves DEF BatchPasses, NoBridge
          <5>3. QED
            BY <5>1, <5>2
        <4>3. CASE AlreadyProcessed
          <5>1. /\ bridge.at = "activity" /\ UNCHANGED lock
                /\ bridge' = [bridge EXCEPT !.succeeded = bridge.succeeded + 1]
            BY <4>3 DEF AlreadyProcessed, storeVars
          <5>2. bridge'.at = bridge.at
            BY <1>0, <5>1 DEF DriveTypeOK
          <5>3. QED
            BY <5>1, <5>2
        <4>4. QED
          BY <2>1, <4>1, <4>2, <4>3
      <3>2. QED
        BY <1>0, <2>0, <3>1 DEF Locked
    <2>2. CASE StartIngest
      <3>1. bridge.at = "activity" /\ lock = None /\ lock' = "ingest" /\ bridge'.at = "download"
        BY <1>0, <2>2 DEF StartIngest, DriveTypeOK
      <3>2. QED
        BY <1>0, <1>a, <2>0, <3>1 DEF Locked, Holders
    <2>3. CASE Preserve \/ HandOverDownload
      <3>1. bridge.at \in {"download", "preserved"} /\ UNCHANGED lock /\ bridge'.at \in {"preserved", "import"}
        BY <1>0, <2>3 DEF Preserve, HandOverDownload, DriveTypeOK, storeVars
      <3>2. QED
        BY <1>0, <2>0, <3>1 DEF Locked
    <2>4. CASE WriteReceipt
      <3>1. bridge.at = "import" /\ lock' = None /\ bridge'.at = "exit"
        BY <1>0, <2>4 DEF WriteReceipt, DriveTypeOK
      <3>2. QED
        BY <1>0, <1>a, <2>0, <3>1 DEF Locked, Holders
    <2>5. CASE BatchFails \/ BridgeDies
      <3>1. bridge'.at = "none" /\ lock' = IF lock = "ingest" THEN None ELSE lock
        BY <2>5 DEF BatchFails, BridgeDies, Ending, NoBridge
      <3>2. QED
        BY <1>0, <1>a, <2>0, <3>1 DEF Locked, Holders
    <2>6. QED
      BY <1>2, <2>1, <2>2, <2>3, <2>4, <2>5 DEF DriveNext, BridgeStep
  <1>3. CASE Importer /\ UNCHANGED <<adminVars, driveVars>>
    <2>1. UNCHANGED <<lock, worker, handler, up, bridge>>
      BY <1>3 DEF Importer, ImportFiles, ImportCatalog, ImporterFails, adminVars, driveVars
    <2>2. QED
      BY <1>0, <2>1 DEF Locked
  <1>4. QED
    BY <1>1, <1>2, <1>3 DEF Next

\* What becomes of the containers when one is left alone, or goes a step by itself.
LEMMA AbandonedFacts ==
  ASSUME TypeOK, NEW i \in Id, importer' = Abandoned(i)
  PROVE  /\ \A k \in Id \ {i} : importer'[k] = importer[k]
         /\ importer'[i] # None => importer'[i].at \in {"files", "catalog"} /\ ~importer'[i].waited
  <1>1. importer \in [Id -> Maybe(Containers)]
    BY DEF TypeOK, StoreTypeOK
  <1>2. /\ \A k \in Id \ {i} : importer'[k] = importer[k]
        /\ importer'[i] = IF Running(i) THEN [importer[i] EXCEPT !.waited = FALSE] ELSE None
    BY <1>1 DEF Abandoned
  <1>3. Running(i) => importer[i] \in Containers
    BY <1>1 DEF Running, Maybe
  <1>4. \A c \in Containers : [c EXCEPT !.waited = FALSE].at = c.at /\ [c EXCEPT !.waited = FALSE].waited = FALSE
    BY DEF Containers
  <1>5. QED
    BY <1>2, <1>3, <1>4 DEF Running

LEMMA ContainerSteps ==
  ASSUME TypeOK, NEW i \in Id, ImportFiles(i) \/ ImportCatalog(i) \/ ImporterFails(i)
  PROVE  /\ \A k \in Id \ {i} : importer'[k] = importer[k]
         /\ importer[i] # None /\ UNCHANGED lock
         /\ importer'[i] # None => /\ importer'[i].art = importer[i].art
                                   /\ importer'[i].waited = importer[i].waited
                                   /\ importer'[i].at \notin {"files", "catalog"} => importer[i].waited
         /\ importer[i].waited => importer'[i] # None
  <1>1. CASE ImportFiles(i)
    BY <1>1, ImportFilesFacts DEF ImportFiles, Running
  <1>2. CASE ImportCatalog(i) \/ ImporterFails(i)
    <2>1. PICK how \in {"done", "failed"} : Ended(i, how)
      BY <1>2 DEF ImportCatalog, ImporterFails
    <2>2. Running(i) /\ UNCHANGED lock
      BY <1>2 DEF ImportCatalog, ImporterFails
    <2>3. QED
      BY <2>1, <2>2, EndedFacts DEF Running
  <1>3. QED
    BY <1>1, <1>2

\* What a step of the admin publisher does to containers and to the thread's waiting.
LEMMA AdminWaits ==
  ASSUME IInv, AdminNext
  PROVE  \/ /\ UNCHANGED importer
            /\ \/ UNCHANGED <<worker, PageId, PageArt>>
               \/ worker.at # "import" /\ worker'.at # "import"
         \/ /\ HandOverPage /\ worker'.at = "import" /\ PageId' = PageId /\ PageArt' = PageArt
            /\ worker'.job = worker.job /\ Page' = Page
         \/ worker.at = "import" /\ worker'.at # "import" /\ importer' = Abandoned(PageId)
  <1>0. TypeOK /\ WorkerFacts /\ EndingFacts /\ AdminTypeOK /\ Locked
    BY DEF IInv, TypeOK
  <1>1. CASE \E j \in Jobs : CreateJob(j)
    BY <1>0, <1>1 DEF CreateJob, NoWorker, storeVars, WorkerFacts
  <1>2. CASE StartJob
    <2>1. worker.at = "queued" /\ worker'.at = "allocate" /\ UNCHANGED importer
      BY <1>0, <1>2 DEF StartJob, AdminTypeOK
    <2>2. QED
      BY <2>1
  <1>3. CASE AllocateIds
    <2>1. worker.at = "allocate" /\ worker'.at = "stage" /\ UNCHANGED importer
      BY <1>0, <1>3 DEF AllocateIds, AdminTypeOK, storeVars
    <2>2. QED
      BY <2>1
  <1>4. CASE HandOverPage
    BY <1>0, <1>4 DEF HandOverPage, PageId, PageArt, Page, AdminTypeOK
  <1>5. CASE PageImported
    BY <1>0, <1>5 DEF PageImported, AdminTypeOK
  <1>6. CASE PublishJob
    BY <1>6 DEF PublishJob, NoWorker, storeVars
  <1>7. CASE JobFails \/ Crash
    <2>1. worker'.at = "none" /\ importer' = LeftByWorker
      BY <1>7 DEF JobFails, Crash, NoWorker
    <2>2. QED
      BY <2>1 DEF LeftByWorker
  <1>8. CASE Request \/ HandlerStep
    <2>1. UNCHANGED <<importer, worker, jobs>>
      BY <1>8 DEF Request, Edit, Archive, Restore, Delete, Admit, HandlerStep, PrepareArchive, CheckCatalog,
         ReplaceCatalog, FinishRecord, MarkDelete, DeleteMedia, DeleteOriginals, DeleteInbox, WriteTombstone,
         HandlerFails, storeVars
    <2>2. QED
      BY <2>1 DEF PageId, PageArt, Page
  <1>9. CASE Restart
    BY <1>0, <1>9 DEF Restart, storeVars, Locked
  <1>10. ASSUME NEW j \in Jobs, EndThread(j)
         PROVE  UNCHANGED <<importer, worker>> /\ (worker.at = "import" => UNCHANGED <<PageId, PageArt>>)
    BY <1>0, <1>10, ThreadEnds DEF storeVars
  <1>11. QED
    BY <1>1, <1>2, <1>3, <1>4, <1>5, <1>6, <1>7, <1>8, <1>9, <1>10 DEF AdminNext, JobStep

\* The same of the dispatcher and its ingest.
LEMMA DriveWaits ==
  ASSUME IInv, DriveNext
  PROVE  \/ UNCHANGED importer /\ bridge.at # "import" /\ bridge'.at # "import"
         \/ HandOverDownload /\ bridge'.at = "import" /\ Activity' = Activity
         \/ bridge.at = "import" /\ bridge'.at # "import" /\ importer' = Abandoned(Activity.id)
  <1>0. DriveTypeOK
    BY DEF IInv, TypeOK
  <1>1. CASE \E b \in BatchIds : ClaimMarker(b)
    BY <1>1 DEF ClaimMarker, NoBridge, storeVars
  <1>2. CASE ClaimRequest \/ AlreadyProcessed \/ StartIngest \/ Preserve \/ IngestExits
    <2>1. bridge'.at # "import"
      BY <1>0, <1>2, BridgeMoves
    <2>2. UNCHANGED importer /\ bridge.at # "import"
      BY <1>2 DEF ClaimRequest, AlreadyProcessed, StartIngest, Preserve, IngestExits, storeVars
    <2>3. QED
      BY <2>1, <2>2
  <1>3. CASE HandOverDownload
    BY <1>0, <1>3, BridgeMoves DEF Activity
  <1>4. CASE WriteReceipt
    BY <1>0, <1>4, BridgeMoves DEF WriteReceipt
  <1>5. CASE BatchPasses
    BY <1>5 DEF BatchPasses, NoBridge, storeVars
  <1>6. CASE BatchFails \/ BridgeDies
    <2>1. bridge'.at = "none" /\ importer' = LeftByIngest
      BY <1>6 DEF BatchFails, BridgeDies, NoBridge
    <2>2. QED
      BY <2>1 DEF LeftByIngest
  <1>7. QED
    BY <1>1, <1>2, <1>3, <1>4, <1>5, <1>6 DEF DriveNext, BridgeStep

LEMMA WaitedStep ==
  ASSUME IInv, Next
  PROVE  Waited'
  <1>0. TypeOK /\ Waited /\ Locked
    BY DEF IInv
  <1>1. CASE AdminNext /\ UNCHANGED driveVars
    <2>0. \A i \in Id : IngestWaits(i)' <=> IngestWaits(i)
      BY <1>1 DEF driveVars, IngestWaits, Activity
    <2>1. CASE /\ UNCHANGED importer
               /\ \/ UNCHANGED <<worker, PageId, PageArt>>
                  \/ worker.at # "import" /\ worker'.at # "import"
      <3>1. \A i \in Id : JobWaits(i)' <=> JobWaits(i)
        BY <2>1 DEF JobWaits
      <3>2. QED
        BY <1>0, <2>0, <2>1, <3>1 DEF Waited, Running
    <2>2. CASE /\ HandOverPage /\ worker'.at = "import" /\ PageId' = PageId
      <3>1. HandsOver(PageId, PageArt) /\ PageId \in Id /\ PageArt \in Art
        BY <2>2, HandedByJob
      <3>2. /\ \A k \in Id \ {PageId} : importer'[k] = importer[k]
            /\ importer'[PageId] # None /\ importer'[PageId].at = "files" /\ importer'[PageId].waited
        BY <1>0, <3>1, HandsOverFacts
      <3>3. worker.at # "import"
        BY <2>2 DEF HandOverPage
      <3>4. JobWaits(PageId)'
        BY <2>2 DEF JobWaits
      <3>5. QED
        <4>1. ASSUME NEW i \in Id, i # PageId
              PROVE  /\ importer'[i] # None /\ importer'[i].waited => JobWaits(i)' \/ IngestWaits(i)'
                     /\ importer'[i] # None /\ ~Running(i)' => importer'[i].waited
          BY <1>0, <2>0, <3>2, <3>3, <4>1 DEF Waited, Running, JobWaits
        <4>2. /\ importer'[PageId] # None /\ importer'[PageId].waited => JobWaits(PageId)'
              /\ importer'[PageId] # None /\ ~Running(PageId)' => importer'[PageId].waited
          BY <3>2, <3>4
        <4>3. QED
          BY <2>2, <3>1, <4>1, <4>2 DEF Waited, Running, JobWaits
    <2>3. CASE worker.at = "import" /\ worker'.at # "import" /\ importer' = Abandoned(PageId)
      <3>1. PageId \in Id
        BY <2>3, PageInside DEF IInv
      <3>2. /\ \A k \in Id \ {PageId} : importer'[k] = importer[k]
            /\ importer'[PageId] # None => /\ importer'[PageId].at \in {"files", "catalog"}
                                           /\ ~importer'[PageId].waited
        BY <1>0, <2>3, <3>1, AbandonedFacts
      <3>3. QED
        BY <1>0, <2>0, <3>1, <3>2 DEF Waited, Running, JobWaits
    <2>4. QED
      BY <1>1, <2>1, <2>2, <2>3, AdminWaits
  <1>2. CASE DriveNext /\ UNCHANGED adminVars
    <2>0. \A i \in Id : JobWaits(i)' <=> JobWaits(i)
      BY <1>2 DEF adminVars, JobWaits, PageId, Page
    <2>1. CASE UNCHANGED importer /\ bridge.at # "import" /\ bridge'.at # "import"
      BY <1>0, <2>0, <2>1 DEF Waited, Running, IngestWaits
    <2>2. CASE HandOverDownload /\ bridge'.at = "import" /\ Activity' = Activity
      <3>1. HandsOver(Activity.id, Activity.art) /\ Activity.id \in Id /\ Activity.art \in Art
        BY <2>2, HandedByIngest
      <3>2. /\ \A k \in Id \ {Activity.id} : importer'[k] = importer[k]
            /\ importer'[Activity.id] # None /\ importer'[Activity.id].at = "files" /\ importer'[Activity.id].waited
        <4>1. PICK i \in Id, a \in Art : i = Activity.id /\ HandsOver(i, a)
          BY <3>1
        <4>2. /\ \A k \in Id \ {i} : importer'[k] = importer[k]
              /\ importer'[i] # None /\ importer'[i].at = "files" /\ importer'[i].waited
          <5>1. \A k \in Id \ {i} : inbox'[k] = inbox[k] /\ importer'[k] = importer[k]
            BY <1>0, <4>1, HandsOverFacts
          <5>2. importer'[i] # None
            BY <1>0, <4>1, HandsOverFacts
          <5>3. importer'[i].at = "files"
            BY <1>0, <4>1, HandsOverFacts
          <5>4. importer'[i].waited
            BY <1>0, <4>1, HandsOverFacts
          <5>5. QED
            BY <5>1, <5>2, <5>3, <5>4
        <4>3. QED
          BY <4>1, <4>2
      <3>3. bridge.at # "import"
        BY <2>2 DEF HandOverDownload
      <3>4. IngestWaits(Activity.id)'
        BY <2>2 DEF IngestWaits
      <3>5. QED
        <4>1. ASSUME NEW i \in Id, i # Activity.id
              PROVE  /\ importer'[i] # None /\ importer'[i].waited => JobWaits(i)' \/ IngestWaits(i)'
                     /\ importer'[i] # None /\ ~Running(i)' => importer'[i].waited
          BY <1>0, <2>0, <3>2, <3>3, <4>1 DEF Waited, Running, IngestWaits
        <4>2. /\ importer'[Activity.id] # None /\ importer'[Activity.id].waited => IngestWaits(Activity.id)'
              /\ importer'[Activity.id] # None /\ ~Running(Activity.id)' => importer'[Activity.id].waited
          BY <3>2, <3>4
        <4>3. QED
          BY <2>2, <3>1, <4>1, <4>2 DEF Waited, Running, IngestWaits
    <2>3. CASE bridge.at = "import" /\ bridge'.at # "import" /\ importer' = Abandoned(Activity.id)
      <3>1. Activity.id \in Id
        BY <2>3, ActivityInside DEF IInv, BridgeFacts
      <3>2. /\ \A k \in Id \ {Activity.id} : importer'[k] = importer[k]
            /\ importer'[Activity.id] # None => /\ importer'[Activity.id].at \in {"files", "catalog"}
                                                /\ ~importer'[Activity.id].waited
        BY <1>0, <2>3, <3>1, AbandonedFacts
      <3>3. QED
        BY <1>0, <2>0, <3>1, <3>2 DEF Waited, Running, IngestWaits
    <2>4. QED
      BY <1>2, <2>1, <2>2, <2>3, DriveWaits
  <1>3. CASE Importer /\ UNCHANGED <<adminVars, driveVars>>
    <2>0. \A i \in Id : (JobWaits(i)' <=> JobWaits(i)) /\ (IngestWaits(i)' <=> IngestWaits(i))
      BY <1>3 DEF adminVars, driveVars, JobWaits, PageId, Page, IngestWaits, Activity
    <2>1. PICK i \in Id : ImportFiles(i) \/ ImportCatalog(i) \/ ImporterFails(i)
      BY <1>3 DEF Importer
    <2>2. /\ \A k \in Id \ {i} : importer'[k] = importer[k]
          /\ importer[i] # None
          /\ importer'[i] # None => /\ importer'[i].waited = importer[i].waited
                                    /\ importer'[i].at \notin {"files", "catalog"} => importer[i].waited
      BY <1>0, <2>1, ContainerSteps
    <2>3. QED
      BY <1>0, <2>0, <2>1, <2>2 DEF Waited, Running
  <1>4. QED
    BY <1>1, <1>2, <1>3 DEF Next

-----------------------------------------------------------------------------
(* The job and its thread.                                                     *)

\* What the three ways to change a job's file do.
\* A job that ends, with or without a note of it.
LEMMA JobEnds ==
  ASSUME TypeOK, WorkerFacts, worker.job \in Jobs, worker' = NoWorker,
         \/ UNCHANGED jobs
         \/ \E status \in {"failed", "published"} : jobs' = [jobs EXCEPT ![worker.job].status = status]
  PROVE  WorkerFacts'
  <1>1. worker'.at = "none" /\ worker'.job = 0
    BY DEF NoWorker
  <1>2. CASE UNCHANGED jobs
    BY <1>1, <1>2 DEF WorkerFacts, ActiveJobs
  <1>3. CASE \E status \in {"failed", "published"} : jobs' = [jobs EXCEPT ![worker.job].status = status]
    <2>1. /\ jobs'[worker.job].status \in {"failed", "published"}
          /\ jobs'[worker.job].results = jobs[worker.job].results
          /\ \A k \in Jobs \ {worker.job} : jobs'[k] = jobs[k]
      BY <1>3, JobFields
    <2>2. \A j, k \in ActiveJobs' : j = k
      BY <2>1 DEF WorkerFacts, ActiveJobs, Active
    <2>3. \A j \in Jobs : jobs'[j].results <= Len(Uploads[j]) /\ (jobs'[j].status = "none" => jobs'[j].results = 0)
      BY <2>1 DEF WorkerFacts
    <2>4. QED
      BY <1>1, <2>2, <2>3 DEF WorkerFacts
  <1>4. QED
    BY <1>2, <1>3

LEMMA WorkerStep ==
  ASSUME IInv, Next
  PROVE  WorkerFacts'
  <1>0. TypeOK /\ WorkerFacts /\ EndingFacts /\ AdminTypeOK /\ Locked
    BY DEF IInv, TypeOK
  <1>a. \A j \in Jobs : Len(Uploads[j]) \in Nat \ {0} /\ j # 0
    BY AdminAssumption DEF Jobs
  <1>1. ASSUME NEW j \in Jobs, CreateJob(j)
        PROVE  WorkerFacts'
    <2>1. jobs[j].status = "none" /\ ActiveJobs = {} /\ jobs' = [jobs EXCEPT ![j].status = "queued"]
          /\ worker' = [NoWorker EXCEPT !.job = j, !.at = "queued"]
      BY <1>1 DEF CreateJob
    <2>2. worker'.job = j /\ worker'.at = "queued"
      BY <2>1 DEF NoWorker
    <2>3. /\ jobs'[j].status = "queued" /\ jobs'[j].results = jobs[j].results
          /\ \A k \in Jobs \ {j} : jobs'[k] = jobs[k]
      BY <1>0, <2>1, JobFields DEF Active
    <2>4. ActiveJobs' = {j}
      BY <2>1, <2>3 DEF ActiveJobs, Active
    <2>5. QED
      BY <1>0, <1>a, <2>1, <2>2, <2>3, <2>4 DEF WorkerFacts
  <1>2. CASE StartJob
    <2>1. worker.at = "queued" /\ worker.job \in Jobs
      BY <1>0, <1>2 DEF StartJob, WorkerFacts, AdminTypeOK
    <2>2. /\ jobs'[worker.job].status = "running" /\ jobs'[worker.job].results = jobs[worker.job].results
          /\ \A k \in Jobs \ {worker.job} : jobs'[k] = jobs[k]
      BY <1>0, <1>2, <2>1, JobFields DEF StartJob, Active
    <2>3. worker'.at = "allocate" /\ worker'.job = worker.job
      BY <1>0, <1>2 DEF StartJob, AdminTypeOK
    <2>4. ActiveJobs' = ActiveJobs
      BY <1>0, <2>1, <2>2 DEF ActiveJobs, Active, WorkerFacts
    <2>5. QED
      BY <1>0, <1>a, <2>1, <2>2, <2>3, <2>4 DEF WorkerFacts
  <1>3. CASE AllocateIds
    <2>1. worker.at = "allocate" /\ worker.job \in Jobs /\ UNCHANGED jobs
      BY <1>0, <1>3 DEF AllocateIds, WorkerFacts, AdminTypeOK
    <2>2. PICK ids \in [1 .. Len(Uploads[worker.job]) -> Id \ Reserved] :
             worker' = [worker EXCEPT !.at = "stage", !.ids = ids]
      BY <1>3 DEF AllocateIds
    <2>3. worker'.at = "stage" /\ worker'.job = worker.job /\ worker'.ids = ids
      BY <1>0, <2>2 DEF AdminTypeOK
    <2>4. ids \in [1 .. Len(Uploads[worker.job]) -> Id]
      BY <2>2
    <2>5. Page' <= Len(Uploads[worker.job])
      BY <1>0, <1>a, <2>1, <2>3 DEF WorkerFacts, Page
    <2>6. QED
      BY <1>0, <1>a, <2>1, <2>3, <2>4, <2>5 DEF WorkerFacts, ActiveJobs
  <1>4. CASE HandOverPage
    <2>1. /\ worker.at = "stage" /\ worker'.at = "import" /\ worker'.job = worker.job
          /\ worker'.ids = worker.ids /\ UNCHANGED jobs
      BY <1>0, <1>4 DEF HandOverPage, AdminTypeOK
    <2>2. QED
      BY <1>0, <2>1 DEF WorkerFacts, ActiveJobs, Page
  <1>5. CASE PageImported
    <2>1. worker.job \in Jobs /\ Page \in 1 .. Len(Uploads[worker.job]) /\ worker.at = "import"
      BY <1>0, <1>5, PageInside DEF PageImported
    <2>2. /\ jobs'[worker.job].status = jobs[worker.job].status
          /\ jobs'[worker.job].results = jobs[worker.job].results + 1
          /\ \A k \in Jobs \ {worker.job} : jobs'[k] = jobs[k]
          /\ jobs[worker.job].results \in Nat
      BY <1>0, <1>5, <2>1, JobFields DEF PageImported
    <2>3. /\ worker'.job = worker.job /\ worker'.ids = worker.ids
          /\ worker'.at = IF Page = Len(Uploads[worker.job]) THEN "verify" ELSE "stage"
      BY <1>0, <1>5 DEF PageImported, AdminTypeOK
    <2>4. ActiveJobs' = ActiveJobs
      BY <2>1, <2>2 DEF ActiveJobs
    <2>5. \A j \in Jobs : jobs'[j].results <= Len(Uploads[j]) /\ (jobs'[j].status = "none" => jobs'[j].results = 0)
      <3>1. jobs[worker.job].status # "none"
        BY <1>0, <2>1 DEF WorkerFacts, ActiveJobs, Active
      <3>2. QED
        BY <1>0, <2>1, <2>2, <3>1 DEF WorkerFacts, Page
    <2>6. worker'.at = "stage" => Page' <= Len(Uploads[worker.job])
      BY <1>a, <2>1, <2>2, <2>3 DEF Page
    <2>7. QED
      BY <1>0, <2>1, <2>3, <2>4, <2>5, <2>6 DEF WorkerFacts
  <1>6. CASE PublishJob \/ JobFails
    <2>1. worker.job \in Jobs /\ worker' = NoWorker
      BY <1>0, <1>6 DEF PublishJob, JobFails, WorkerFacts, AdminTypeOK
    <2>2. \/ UNCHANGED jobs
          \/ \E status \in {"failed", "published"} : jobs' = [jobs EXCEPT ![worker.job].status = status]
      BY <1>6 DEF PublishJob, JobFails
    <2>3. QED
      BY <1>0, <2>1, <2>2, JobEnds
  <1>7. CASE Request \/ HandlerStep
    <2>1. UNCHANGED <<worker, jobs>>
      BY <1>7 DEF Request, Edit, Archive, Restore, Delete, Admit, HandlerStep, PrepareArchive, CheckCatalog,
         ReplaceCatalog, FinishRecord, MarkDelete, DeleteMedia, DeleteOriginals, DeleteInbox, WriteTombstone,
         HandlerFails
    <2>2. QED
      BY <1>0, <2>1 DEF WorkerFacts, ActiveJobs, Page
  <1>8. CASE Crash
    BY <1>0, <1>8 DEF Crash, NoWorker, WorkerFacts, ActiveJobs
  <1>9. CASE Restart
    <2>1. worker.at = "none" /\ worker.job = 0 /\ UNCHANGED worker
      BY <1>0, <1>9 DEF Restart, Locked, WorkerFacts
    <2>2. \A j \in Jobs : /\ jobs'[j].status = IF jobs[j].status \in Active THEN "failed" ELSE jobs[j].status
                          /\ jobs'[j].results = jobs[j].results
      BY <1>0, <1>9 DEF Restart, AdminTypeOK
    <2>3. ActiveJobs' = {}
      BY <2>2 DEF ActiveJobs, Active
    <2>4. \A j \in Jobs : jobs'[j].results <= Len(Uploads[j]) /\ (jobs'[j].status = "none" => jobs'[j].results = 0)
      BY <1>0, <2>2 DEF WorkerFacts, Active
    <2>5. QED
      BY <2>1, <2>3, <2>4 DEF WorkerFacts
  <1>10. CASE UNCHANGED adminVars
    BY <1>0, <1>10 DEF adminVars, WorkerFacts, ActiveJobs, Page
  <1>11. ASSUME NEW j \in Jobs, EndThread(j)
         PROVE  WorkerFacts'
    <2>1. /\ UNCHANGED worker /\ \A k \in Jobs \ {j} : jobs'[k] = jobs[k]
          /\ \A k \in Jobs : jobs'[k].results = jobs[k].results
          /\ jobs[j].status = "published" /\ jobs'[j].status \in {"published", "failed"}
          /\ worker.at # "none" => Page' = Page
      BY <1>0, <1>11, ThreadEnds
    <2>2. ActiveJobs' = ActiveJobs
      BY <2>1 DEF ActiveJobs, Active
    <2>3. \A k \in Jobs : jobs'[k].results <= Len(Uploads[k]) /\ (jobs'[k].status = "none" => jobs'[k].results = 0)
      BY <1>0, <2>1 DEF WorkerFacts
    <2>4. worker.job # 0 => worker.job \in Jobs
      BY <1>0 DEF AdminTypeOK
    <2>5. QED
      BY <1>0, <2>1, <2>2, <2>3, <2>4 DEF WorkerFacts
  <1>12. QED
    BY <1>1, <1>2, <1>3, <1>4, <1>5, <1>6, <1>7, <1>8, <1>9, <1>10, <1>11 DEF Next, AdminNext, JobStep

\* What has ended stays so: a job is queued, started and worked on while it is active or new.
LEMMA EndingStep ==
  ASSUME IInv, Next
  PROVE  EndingFacts'
  <1>0. TypeOK /\ WorkerFacts /\ EndingFacts /\ AdminTypeOK
    BY DEF IInv, TypeOK
  <1>a. worker.at # "none" => worker.job \in Jobs /\ jobs[worker.job].status \in Active
    BY <1>0 DEF WorkerFacts, ActiveJobs
  <1>1. ASSUME NEW j \in Jobs, CreateJob(j)
        PROVE  EndingFacts'
    <2>1. UNCHANGED ending /\ jobs[j].status = "none" /\ \A k \in Jobs \ {j} : jobs'[k] = jobs[k]
      BY <1>0, <1>1, JobFields DEF CreateJob, Active
    <2>2. QED
      BY <1>0, <2>1 DEF EndingFacts, AdminTypeOK
  <1>2. CASE StartJob \/ PageImported \/ PublishJob \/ JobFails
    <2>1. worker.job \in Jobs /\ jobs[worker.job].status \in Active
      BY <1>a, <1>2 DEF StartJob, PageImported, PublishJob, JobFails
    <2>2. \/ UNCHANGED jobs
          \/ \E status \in {"failed", "published"} \cup Active : jobs' = [jobs EXCEPT ![worker.job].status = status]
          \/ jobs' = [jobs EXCEPT ![worker.job].results = @ + 1]
      BY <1>2 DEF StartJob, PageImported, PublishJob, JobFails, Active
    <2>3. \A k \in Jobs \ {worker.job} : jobs'[k] = jobs[k]
      BY <1>0, <2>1, <2>2, JobFields
    <2>4. /\ ending' \in {ending, ending \cup {worker.job}}
          /\ worker.job \in ending' => worker.job \in ending \/ jobs'[worker.job].status = "published"
      BY <1>0, <1>2, <2>1, JobFields DEF StartJob, PageImported, PublishJob, JobFails
    <2>5. worker.job \notin ending
      BY <1>0, <2>1 DEF EndingFacts, Active
    <2>6. QED
      BY <1>0, <2>3, <2>4, <2>5 DEF EndingFacts, AdminTypeOK
  <1>3. ASSUME NEW j \in Jobs, EndThread(j)
        PROVE  EndingFacts'
    BY <1>0, <1>3, ThreadEnds DEF EndingFacts, AdminTypeOK
  <1>4. CASE AllocateIds \/ HandOverPage \/ Request \/ HandlerStep \/ UNCHANGED adminVars
    <2>1. UNCHANGED <<jobs, ending>>
      BY <1>4 DEF AllocateIds, HandOverPage, Request, Edit, Archive, Restore, Delete, Admit, HandlerStep,
         PrepareArchive, CheckCatalog, ReplaceCatalog, FinishRecord, MarkDelete, DeleteMedia, DeleteOriginals,
         DeleteInbox, WriteTombstone, HandlerFails, adminVars
    <2>2. QED
      BY <1>0, <2>1 DEF EndingFacts
  <1>5. CASE Crash
    BY <1>5 DEF Crash, EndingFacts
  <1>6. CASE Restart
    BY <1>0, <1>6 DEF Restart, EndingFacts, AdminTypeOK, Active
  <1>7. QED
    BY <1>1, <1>2, <1>3, <1>4, <1>5, <1>6 DEF Next, AdminNext, JobStep

-----------------------------------------------------------------------------
(* The ingest, and the containers that are waited for.                         *)

\* The admin publisher only changes pages with the lock.
LEMMA AdminFiles ==
  ASSUME AdminNext
  PROVE  UNCHANGED Files \/ HandOverPage \/ handler.at # "none"
  <1>1. CASE (\E j \in Jobs : CreateJob(j) \/ EndThread(j)) \/ StartJob \/ AllocateIds \/ PublishJob
    BY <1>1 DEF CreateJob, EndThread, StartJob, AllocateIds, PublishJob, storeVars, Files
  <1>2. CASE PageImported \/ JobFails \/ Crash \/ Restart
    BY <1>2 DEF PageImported, JobFails, Crash, Restart, storeVars, Files
  <1>3. CASE Request
    BY <1>3 DEF Request, Edit, Archive, Restore, Delete, Admit, Files
  <1>4. CASE HandlerStep
    BY <1>4 DEF HandlerStep, PrepareArchive, CheckCatalog, ReplaceCatalog, FinishRecord, MarkDelete,
       DeleteMedia, DeleteOriginals, DeleteInbox, WriteTombstone, HandlerFails
  <1>5. QED
    BY <1>1, <1>2, <1>3, <1>4 DEF AdminNext, JobStep

\* While the ingest has the lock, nobody gives its id a file.
LEMMA NoFilesStay ==
  ASSUME IInv, bridge.at \in {"download", "preserved"}, UNCHANGED bridge,
         AdminNext \/ Importer
  PROVE  NoFiles(Activity.id)'
  <1>0. TypeOK /\ BridgeFacts /\ Locked /\ Activity' = Activity
    BY DEF IInv, Activity
  <1>1. Activity.id \in Id /\ NoFiles(Activity.id) /\ lock = "ingest"
    BY <1>0, ActivityInside DEF BridgeFacts, Locked
  <1>2. CASE AdminNext
    <2>1. ~HandOverPage /\ handler.at = "none"
      BY <1>0, <1>1 DEF Locked, HandOverPage
    <2>2. UNCHANGED Files
      BY <1>2, <2>1, AdminFiles
    <2>3. QED
      BY <1>0, <1>1, <2>2 DEF NoFiles, Files
  <1>3. CASE Importer
    <2>1. PICK i \in Id : ImportFiles(i) \/ ImportCatalog(i) \/ ImporterFails(i)
      BY <1>3 DEF Importer
    <2>2. CASE ImportFiles(i)
      <3>1. i # Activity.id
        <4>1. importer[i] # None /\ inbox[i] = importer[i].art /\ importer[i].art \in Art
          BY <1>0, <2>2, ImportFilesFacts DEF IInv, StoreSound, SoundAt, ImportFiles, Running
        <4>2. QED
          BY <1>1, <4>1, StoreAssumption DEF NoFiles
      <3>2. originals'[Activity.id] = originals[Activity.id] /\ media'[Activity.id] = media[Activity.id]
        BY <1>0, <1>1, <2>2, <3>1, ImportFilesFacts
      <3>3. UNCHANGED inbox
        BY <2>2 DEF ImportFiles
      <3>4. QED
        BY <1>0, <1>1, <3>2, <3>3 DEF NoFiles
    <2>3. CASE ImportCatalog(i) \/ ImporterFails(i)
      BY <1>0, <1>1, <2>3 DEF NoFiles, ImportCatalog, ImporterFails
    <2>4. QED
      BY <2>1, <2>2, <2>3
  <1>4. QED
    BY <1>2, <1>3

LEMMA BridgeStepFacts ==
  ASSUME IInv, Next
  PROVE  BridgeFacts'
  <1>0. TypeOK /\ BridgeFacts /\ DriveTypeOK
    BY DEF IInv, TypeOK
  <1>1. CASE (AdminNext \/ Importer) /\ UNCHANGED driveVars
    <2>1. UNCHANGED <<bridge, receipt, ingest>> /\ Activity' = Activity /\ (Remaining' <=> Remaining)
      BY <1>1 DEF driveVars, Activity, Remaining
    <2>2. bridge.at \in {"download", "preserved"} => NoFiles(Activity.id)'
      BY <1>1, <2>1, NoFilesStay
    <2>3. QED
      BY <1>0, <2>1, <2>2 DEF BridgeFacts
  <1>2. CASE DriveNext
    <2>0. \A b \in BatchIds : b # 0
      BY BatchesAssumption DEF BatchIds
    <2>1. ASSUME NEW b \in BatchIds, ClaimMarker(b)
          PROVE  BridgeFacts'
      <3>1. bridge'.at = "claim" /\ bridge'.batch = b
        BY <2>1 DEF ClaimMarker, NoBridge
      <3>2. QED
        BY <2>0, <3>1 DEF BridgeFacts
    <2>2. CASE ClaimRequest \/ AlreadyProcessed \/ IngestExits
      <3>1. bridge'.at = "activity" /\ bridge'.batch = bridge.batch
        BY <1>0, <2>2, BridgeMoves
      <3>2. bridge.at # "none"
        BY <2>2 DEF ClaimRequest, AlreadyProcessed, IngestExits
      <3>3. QED
        BY <1>0, <3>1, <3>2 DEF BridgeFacts
    <2>3. CASE StartIngest
      <3>1. /\ bridge'.at = "download" /\ bridge'.batch = bridge.batch /\ bridge'.succeeded = bridge.succeeded
            /\ bridge.at = "activity" /\ Remaining
        BY <1>0, <2>3, BridgeMoves DEF StartIngest
      <3>2. Activity' = Activity /\ (Remaining' <=> Remaining)
        BY <3>1 DEF Activity, Remaining
      <3>3. Activity.id \in Id
        BY <1>0, <3>1, ActivityInside
      <3>4. /\ receipt[Activity.id] = None /\ NoFiles(Activity.id)
            /\ ingest' = [ingest EXCEPT ![Activity.id] = "partial"]
            /\ UNCHANGED <<receipt, inbox, originals, media>>
        BY <2>3 DEF StartIngest
      <3>5. ingest'[Activity.id] = "partial"
        BY <1>0, <3>3, <3>4 DEF DriveTypeOK
      <3>6. QED
        BY <1>0, <3>1, <3>2, <3>4, <3>5 DEF BridgeFacts, NoFiles
    <2>4. CASE Preserve \/ HandOverDownload
      <3>1. /\ bridge'.batch = bridge.batch /\ bridge'.succeeded = bridge.succeeded
            /\ Preserve => bridge.at = "download" /\ bridge'.at = "preserved"
            /\ HandOverDownload => bridge.at = "preserved" /\ bridge'.at = "import"
        BY <1>0, <2>4, BridgeMoves DEF Preserve, HandOverDownload
      <3>2. Activity' = Activity /\ (Remaining' <=> Remaining) /\ Remaining
        BY <1>0, <2>4, <3>1 DEF Activity, Remaining, BridgeFacts
      <3>3. Activity.id \in Id
        BY <1>0, <2>4, <3>1, <3>2, ActivityInside
      <3>4. /\ UNCHANGED receipt
            /\ Preserve => /\ ingest' = [ingest EXCEPT ![Activity.id] = "preserved"]
                           /\ UNCHANGED <<inbox, originals, media>>
            /\ HandOverDownload => ingest' = [ingest EXCEPT ![Activity.id] = "handed"]
        BY <2>4 DEF Preserve, HandOverDownload, storeVars
      <3>5. /\ Preserve => ingest'[Activity.id] = "preserved"
            /\ HandOverDownload => ingest'[Activity.id] = "handed"
        BY <1>0, <3>3, <3>4 DEF DriveTypeOK
      <3>6. QED
        BY <1>0, <2>4, <3>1, <3>2, <3>4, <3>5 DEF BridgeFacts, NoFiles
    <2>5. CASE WriteReceipt
      <3>1. bridge'.at = "exit" /\ bridge'.batch = bridge.batch /\ bridge'.succeeded = bridge.succeeded
        BY <1>0, <2>5, BridgeMoves
      <3>2. Remaining' /\ bridge.at = "import"
        BY <1>0, <2>5, <3>1 DEF Remaining, BridgeFacts, WriteReceipt
      <3>3. QED
        BY <1>0, <3>1, <3>2 DEF BridgeFacts
    <2>6. CASE BatchPasses \/ BatchFails \/ BridgeDies
      <3>1. bridge'.at = "none" /\ bridge'.batch = 0
        BY <2>6 DEF BatchPasses, BatchFails, BridgeDies, NoBridge
      <3>2. QED
        BY <3>1 DEF BridgeFacts
    <2>7. QED
      BY <1>2, <2>1, <2>2, <2>3, <2>4, <2>5, <2>6 DEF DriveNext, BridgeStep
  <1>3. QED
    BY <1>1, <1>2 DEF Next

\* A page's entry is only changed by a handler and by its own container.
LEMMA CatalogWritten ==
  ASSUME IInv, Effect, NEW k \in Id
  PROVE  \/ catalog'[k] = catalog[k]
         \/ handler.at = "replace" /\ catalog' = Candidate
         \/ ImportCatalog(k) /\ catalog'[k] = importer[k].art
  <1>0. TypeOK
    BY DEF IInv
  <1>1. CASE Quiet \/ \E i \in Id, a \in Art : HandsOver(i, a)
    BY <1>1 DEF Quiet, Files, HandsOver
  <1>2. ASSUME NEW i \in Id, ImportFiles(i) \/ ImportCatalog(i)
        PROVE  catalog'[k] = catalog[k] \/ (ImportCatalog(k) /\ catalog'[k] = importer[k].art)
    <2>1. CASE ImportFiles(i)
      BY <2>1 DEF ImportFiles
    <2>2. CASE ImportCatalog(i)
      BY <1>0, <2>2, ImportCatalogFacts
    <2>3. QED
      BY <1>2, <2>1, <2>2
  <1>3. CASE HandlerWrites
    BY <1>3 DEF HandlerWrites, PrepareArchive, ReplaceCatalog, FinishRecord, MarkDelete, DeleteFiles, DeleteMedia,
       DeleteOriginals, DeleteInbox, WriteTombstone
  <1>4. QED
    BY <1>1, <1>2, <1>3 DEF Effect

LEMMA OwnContainerStep ==
  ASSUME IInv, Next
  PROVE  OwnContainer'
  <1>0. TypeOK /\ OwnContainer /\ Locked /\ Effect
    BY StepEffect DEF IInv
  \* While the thread waits for a page, the page's entry can only become the page.
  <1>a. ASSUME worker.at = "import"
        PROVE  /\ PageId \in Id /\ PageArt \in Art /\ catalog'[PageId] \in {catalog[PageId], PageArt}
               /\ handler.at = "none" /\ bridge.at \notin {"preserved", "import"}
    <2>1. PageId \in Id /\ PageArt \in Art
      BY <1>a, PageInside DEF IInv
    <2>2. handler.at = "none" /\ bridge.at \notin {"preserved", "import"}
      BY <1>0, <1>a DEF Locked
    <2>3. catalog'[PageId] \in {catalog[PageId], importer[PageId].art}
      BY <1>0, <2>1, <2>2, CatalogWritten
    <2>4. QED
      BY <1>0, <1>a, <2>1, <2>2, <2>3 DEF OwnContainer
  <1>b. ASSUME bridge.at = "import"
        PROVE  Activity.id \in Id /\ worker.at \notin {"stage", "import"}
    <2>1. Activity.id \in Id
      BY <1>b, ActivityInside DEF IInv, BridgeFacts
    <2>2. QED
      BY <1>0, <1>b, <2>1 DEF Locked
  <1>1. CASE AdminNext /\ UNCHANGED driveVars
    <2>0. UNCHANGED bridge /\ Activity' = Activity
      BY <1>1 DEF driveVars, Activity
    <2>1. CASE /\ UNCHANGED importer
               /\ \/ UNCHANGED <<worker, PageId, PageArt>>
                  \/ worker.at # "import" /\ worker'.at # "import"
      <3>1. CASE UNCHANGED <<worker, PageId, PageArt>>
        BY <1>0, <1>a, <2>0, <2>1, <3>1 DEF OwnContainer
      <3>2. CASE worker.at # "import" /\ worker'.at # "import"
        BY <1>0, <2>0, <2>1, <3>2 DEF OwnContainer
      <3>3. QED
        BY <2>1, <3>1, <3>2
    <2>2. CASE HandOverPage /\ worker'.at = "import" /\ PageId' = PageId /\ PageArt' = PageArt
      <3>1. PICK i \in Id, a \in Art : i = PageId /\ a = PageArt /\ HandsOver(i, a)
        BY <2>2, HandedByJob
      <3>a. HandsOver(i, a)
        BY <3>1
      <3>2. importer'[i] # None /\ importer'[i].art = a /\ importer'[i].at = "files" /\ importer'[i].waited
        BY <1>0, <3>a, HandsOverFacts
      <3>3. bridge.at # "import"
        BY <1>b, <2>2 DEF HandOverPage
      <3>4. QED
        BY <2>0, <2>2, <3>1, <3>2, <3>3 DEF OwnContainer
    <2>3. CASE worker.at = "import" /\ worker'.at # "import"
      BY <1>a, <2>0, <2>3 DEF OwnContainer
    <2>4. QED
      BY <1>1, <2>1, <2>2, <2>3, AdminWaits
  <1>2. CASE DriveNext /\ UNCHANGED adminVars
    <2>0. UNCHANGED worker /\ PageId' = PageId /\ PageArt' = PageArt
      BY <1>2 DEF adminVars, PageId, PageArt, Page
    <2>1. CASE UNCHANGED importer /\ bridge.at # "import" /\ bridge'.at # "import"
      BY <1>0, <1>a, <2>0, <2>1 DEF OwnContainer
    <2>2. CASE HandOverDownload /\ bridge'.at = "import" /\ Activity' = Activity
      <3>1. PICK i \in Id, a \in Art : i = Activity.id /\ a = Activity.art /\ HandsOver(i, a)
        BY <2>2, HandedByIngest
      <3>a. HandsOver(i, a)
        BY <3>1
      <3>2. importer'[i] # None /\ importer'[i].art = a /\ importer'[i].at = "files" /\ importer'[i].waited
        BY <1>0, <3>a, HandsOverFacts
      <3>3. worker.at # "import"
        BY <1>a, <2>2 DEF HandOverDownload
      <3>4. QED
        BY <2>0, <2>2, <3>1, <3>2, <3>3 DEF OwnContainer
    <2>3. CASE bridge.at = "import" /\ bridge'.at # "import"
      BY <1>b, <2>0, <2>3 DEF OwnContainer
    <2>4. QED
      BY <1>2, <2>1, <2>2, <2>3, DriveWaits
  <1>3. CASE Importer /\ UNCHANGED <<adminVars, driveVars>>
    <2>0. /\ UNCHANGED <<worker, bridge>> /\ PageId' = PageId /\ PageArt' = PageArt /\ Activity' = Activity
      BY <1>3 DEF adminVars, driveVars, PageId, PageArt, Page, Activity
    <2>1. PICK i \in Id : ImportFiles(i) \/ ImportCatalog(i) \/ ImporterFails(i)
      BY <1>3 DEF Importer
    <2>2. \A k \in Id : importer[k] # None /\ importer[k].waited =>
             importer'[k] # None /\ importer'[k].waited /\ importer'[k].art = importer[k].art
      BY <1>0, <2>1, ContainerSteps
    <2>3. ASSUME worker.at = "import", importer'[PageId].at = "done"
          PROVE  catalog'[PageId] = PageArt
      <3>1. CASE PageId # i
        BY <1>0, <1>a, <2>1, <2>3, <3>1, ContainerSteps DEF OwnContainer
      <3>2. CASE PageId = i /\ ImportCatalog(i)
        BY <1>0, <2>3, <3>2, ImportCatalogFacts DEF OwnContainer
      <3>3. CASE PageId = i /\ ImportFiles(i)
        BY <1>0, <2>3, <3>3, ImportFilesFacts
      <3>4. CASE PageId = i /\ ImporterFails(i)
        <4>1. Running(i) /\ Ended(i, "failed")
          BY <3>4 DEF ImporterFails
        <4>2. importer'[i] # None => importer'[i].at = "failed"
          BY <1>0, <4>1, EndedFacts
        <4>3. importer'[i] # None
          BY <1>0, <2>2, <2>3, <3>4 DEF OwnContainer
        <4>4. QED
          BY <2>3, <3>4, <4>2, <4>3
      <3>5. QED
        BY <2>1, <3>1, <3>2, <3>3, <3>4
    <2>4. QED
      BY <1>0, <1>a, <1>b, <2>0, <2>2, <2>3 DEF OwnContainer
  <1>4. QED
    BY <1>1, <1>2, <1>3 DEF Next

-----------------------------------------------------------------------------
(* The request past the lock.                                                  *)

\* While a request has the lock, what is not the request's own step changes no record and starts
\* no container; only a container can add an entry.
LEMMA BesideHandler ==
  ASSUME IInv, handler.at # "none",
         (\E j \in Jobs : CreateJob(j)) \/ JobStep \/ Restart \/ DriveNext \/ Importer
  PROVE  /\ UNCHANGED record
         /\ \A k \in Id : importer[k] = None => importer'[k] = None
         /\ \A k \in Id : catalog'[k] = catalog[k] \/ (Running(k) /\ catalog'[k] = importer[k].art)
  <1>0. TypeOK /\ Locked /\ lock = "handler"
    BY DEF IInv, Locked
  <1>1. worker.at \notin {"stage", "import"} /\ bridge.at \notin {"preserved", "import"} /\ up
    BY <1>0 DEF Locked
  <1>2. CASE (\E j \in Jobs : CreateJob(j)) \/ JobStep \/ Restart
    <2>1. AdminNext
      BY <1>2 DEF AdminNext
    <2>2. UNCHANGED importer
      BY <1>1, <2>1, AdminWaits DEF HandOverPage
    <2>3. UNCHANGED <<catalog, record>>
      BY <1>2 DEF JobStep, CreateJob, StartJob, AllocateIds, HandOverPage, PageImported, PublishJob, JobFails,
         EndThread, Restart, storeVars
    <2>4. QED
      BY <2>2, <2>3
  <1>3. CASE DriveNext
    <2>1. UNCHANGED importer
      BY <1>1, <1>3, DriveWaits DEF HandOverDownload
    <2>2. UNCHANGED <<catalog, record>>
      BY <1>3 DEF DriveNext, BridgeStep, ClaimMarker, ClaimRequest, AlreadyProcessed, StartIngest, Preserve,
         HandOverDownload, WriteReceipt, IngestExits, BatchPasses, BatchFails, BridgeDies, storeVars
    <2>3. QED
      BY <2>1, <2>2
  <1>4. CASE Importer
    <2>1. PICK i \in Id : ImportFiles(i) \/ ImportCatalog(i) \/ ImporterFails(i)
      BY <1>4 DEF Importer
    <2>2. UNCHANGED record /\ Running(i)
      BY <2>1 DEF ImportFiles, ImportCatalog, ImporterFails
    <2>3. \A k \in Id : importer[k] = None => importer'[k] = None
      BY <1>0, <2>1, ContainerSteps
    <2>4. \A k \in Id : k # i => catalog'[k] = catalog[k]
      BY <1>0, <2>1, ImportCatalogFacts DEF ImportFiles, ImporterFails
    <2>5. catalog'[i] = catalog[i] \/ catalog'[i] = importer[i].art
      BY <1>0, <2>1, ImportCatalogFacts DEF ImportFiles, ImporterFails
    <2>6. QED
      BY <2>2, <2>3, <2>4, <2>5
  <1>5. QED
    BY <1>2, <1>3, <1>4

LEMMA HandlerMoves ==
  ASSUME AdminTypeOK, NEW place \in {"check", "replace", "record", "media", "originals", "inbox", "tombstone"},
         At(place)
  PROVE  handler'.at = place /\ handler'.op = handler.op /\ handler'.id = handler.id /\ handler'.base = handler.base
  BY DEF AdminTypeOK, At

\* While a handler has the lock, the steps of the others leave what it knows as it is.
LEMMA HandlerBeside ==
  ASSUME IInv, handler.at # "none", UNCHANGED handler,
         (\E j \in Jobs : CreateJob(j)) \/ JobStep \/ Restart \/ DriveNext \/ Importer
  PROVE  HandlerFacts'
  <1>0. TypeOK /\ HandlerFacts /\ \A k \in Id : Running(k) => ~Live(k) /\ ~Restorable(k)
    BY DEF IInv, StoreSound, SoundAt
  <1>1. /\ UNCHANGED record
        /\ \A k \in Id : importer[k] = None => importer'[k] = None
        /\ \A k \in Id : catalog'[k] = catalog[k] \/ Running(k)
    BY BesideHandler
  <1>2. handler.id \in Id
    BY <1>0, HandlerPage
  <1>3. \A k \in Id : (Restorable(k)' <=> Restorable(k)) /\ ArchiveState(k)' = ArchiveState(k)
    BY <1>1 DEF Restorable, ArchiveState
  \* An entry that is there stays; one that a request restores or deletes does not come.
  <1>4. \A k \in Id : Live(k) => catalog'[k] = catalog[k]
    BY <1>0, <1>1
  <1>5. handler.op = "restore" => (Live(handler.id)' <=> Live(handler.id))
    BY <1>0, <1>1, <1>2 DEF HandlerFacts, Live
  <1>6. handler.op = "delete" => (Live(handler.id)' <=> Live(handler.id)) /\ importer'[handler.id] = None
    BY <1>0, <1>1, <1>2 DEF HandlerFacts, Live, Running
  <1>7. handler.at \in {"prepare", "check", "replace"} =>
           \A k \in Id : handler.base[k] # None => catalog'[k] = handler.base[k]
    BY <1>0, <1>4 DEF HandlerFacts, Live
  <1>8. QED
    BY <1>0, <1>1, <1>2, <1>3, <1>5, <1>6, <1>7 DEF HandlerFacts

\* A request that gets past the lock meets no container that is not running.
LEMMA HandlerAdmitted ==
  ASSUME IInv, Request
  PROVE  HandlerFacts'
  <1>0. TypeOK /\ StoreSound /\ Locked /\ Waited /\ catalog \in [Id -> Maybe(Art)]
    BY DEF IInv, TypeOK, StoreTypeOK
  <1>1. PICK i \in Id : Edit(i) \/ Archive(i) \/ Restore(i) \/ Delete(i)
    BY DEF Request
  <1>2. lock = None /\ UNCHANGED <<catalog, record, importer>>
    BY <1>1 DEF Edit, Archive, Restore, Delete, Admit
  <1>3. catalog # None
    BY <1>0, StoreAssumption
  <1>4. CASE Edit(i)
    BY <1>0, <1>2, <1>3, <1>4 DEF Edit, Admit, HandlerFacts, Live
  <1>5. CASE Archive(i)
    BY <1>0, <1>2, <1>3, <1>5 DEF Archive, Admit, HandlerFacts, Live
  <1>6. CASE Restore(i)
    BY <1>0, <1>2, <1>3, <1>6 DEF Restore, Admit, HandlerFacts, Live, Restorable, ArchiveState
  <1>7. CASE Delete(i)
    <2>1. ArchiveState(i) = "archived" /\ ~Live(i) /\ Admit("delete", i, "mark")
      BY <1>7 DEF Delete
    <2>2. importer[i] = None
      <3>1. ~Running(i)
        BY <1>0, <2>1 DEF StoreSound, SoundAt, Restorable
      <3>2. lock \notin {"job", "ingest"}
        BY <1>2, StoreAssumption DEF Holders
      <3>3. QED
        BY <1>0, <3>1, <3>2, NobodyWaits
    <2>3. /\ handler'.op = "delete" /\ handler'.id = i /\ handler'.base = catalog /\ handler'.at = "mark"
      BY <2>1 DEF Admit
    <2>4. /\ ~Live(i)' /\ ArchiveState(i)' = "archived" /\ importer'[i] = None
      BY <1>2, <2>1, <2>2 DEF Live, ArchiveState
    <2>5. QED
      BY <1>0, <1>3, <2>3, <2>4 DEF HandlerFacts, Live, ArchiveState
  <1>8. QED
    BY <1>1, <1>4, <1>5, <1>6, <1>7

\* A request's own steps.
LEMMA HandlerProceeds ==
  ASSUME IInv, HandlerStep
  PROVE  HandlerFacts'
  <1>0. TypeOK /\ AdminTypeOK /\ HandlerFacts
    BY DEF IInv, TypeOK
  <1>1. CASE Release
    BY <1>1 DEF Release, NoHandler, HandlerFacts
  <1>2. CASE PrepareArchive
    <2>1. /\ handler.at = "prepare" /\ handler.op = "archive"
          /\ handler.id \in Id /\ record \in [Id -> Maybe(Records)]
      BY <1>0, <1>2, HandlerPage DEF PrepareArchive, HandlerFacts, AdminTypeOK, TypeOK, StoreTypeOK
    <2>2. record'[handler.id] = [state |-> "prepared", art |-> handler.base[handler.id]]
      BY <1>2, <2>1 DEF PrepareArchive
    <2>3. At("check") /\ UNCHANGED catalog
      BY <1>2 DEF PrepareArchive
    <2>4. handler'.at = "check" /\ handler'.op = handler.op /\ handler'.id = handler.id /\ handler'.base = handler.base
      BY <1>0, <2>3, HandlerMoves
    <2>5. QED
      BY <1>0, <2>1, <2>2, <2>3, <2>4 DEF HandlerFacts
  <1>3. CASE CheckCatalog
    <2>1. handler.at = "check" /\ At("replace") /\ UNCHANGED <<catalog, record>>
      BY <1>3 DEF CheckCatalog, storeVars
    <2>2. handler'.at = "replace" /\ handler'.op = handler.op /\ handler'.id = handler.id /\ handler'.base = handler.base
      BY <1>0, <2>1, HandlerMoves
    <2>3. handler.op \in {"edit", "archive", "restore"}
      BY <1>0, <2>1 DEF HandlerFacts, AdminTypeOK
    <2>4. QED
      BY <1>0, <2>1, <2>2, <2>3 DEF HandlerFacts, Live, Restorable, ArchiveState
  <1>4. CASE ReplaceCatalog
    <2>1. handler.at = "replace" /\ At("record") /\ UNCHANGED record
      BY <1>4 DEF ReplaceCatalog
    <2>2. handler'.at = "record" /\ handler'.op = handler.op /\ handler'.id = handler.id /\ handler'.base = handler.base
      BY <1>0, <2>1, HandlerMoves
    <2>3. handler.op \in {"edit", "archive", "restore"}
      BY <1>0, <2>1 DEF HandlerFacts, AdminTypeOK
    <2>4. QED
      BY <1>0, <2>1, <2>2, <2>3 DEF HandlerFacts, Restorable, ArchiveState
  <1>5. CASE MarkDelete
    <2>1. handler.at = "mark" /\ At("media") /\ UNCHANGED <<catalog, importer>>
      BY <1>5 DEF MarkDelete
    <2>2. handler'.at = "media" /\ handler'.op = handler.op /\ handler'.id = handler.id /\ handler'.base = handler.base
      BY <1>0, <2>1, HandlerMoves
    <2>3. handler.op = "delete"
      BY <1>0, <2>1 DEF HandlerFacts, AdminTypeOK
    <2>4. record'[handler.id] # None /\ record'[handler.id] = [state |-> Becomes, art |-> record[handler.id].art]
      BY <1>0, <1>5, <2>3, RecordSet
    <2>5. Becomes = "delete-prepared"
      BY <2>1, <2>3 DEF Becomes
    <2>6. record'[handler.id].state = "delete-prepared"
      BY <2>4, <2>5
    <2>7. QED
      BY <1>0, <2>1, <2>2, <2>3, <2>4, <2>6 DEF HandlerFacts, Live, ArchiveState
  <1>6. CASE DeleteFiles
    <2>1. PICK place \in {"originals", "inbox", "tombstone"} : At(place)
      BY <1>6 DEF DeleteFiles, DeleteMedia, DeleteOriginals, DeleteInbox
    <2>2. handler.at \in {"media", "originals", "inbox"} /\ UNCHANGED <<catalog, record, importer>>
      BY <1>6 DEF DeleteFiles, DeleteMedia, DeleteOriginals, DeleteInbox
    <2>3. handler'.at = place /\ handler'.op = handler.op /\ handler'.id = handler.id /\ handler'.base = handler.base
      BY <1>0, <2>1, HandlerMoves
    <2>4. handler.op = "delete"
      BY <1>0, <2>2 DEF HandlerFacts, AdminTypeOK
    <2>5. QED
      BY <1>0, <2>1, <2>2, <2>3, <2>4 DEF HandlerFacts, Live, ArchiveState
  <1>7. QED
    BY <1>1, <1>2, <1>3, <1>4, <1>5, <1>6 DEF HandlerStep, FinishRecord, WriteTombstone, HandlerFails, DeleteFiles

LEMMA HandlerStepFacts ==
  ASSUME IInv, Next
  PROVE  HandlerFacts'
  <1>1. CASE Request \/ HandlerStep
    BY <1>1, HandlerAdmitted, HandlerProceeds
  <1>2. CASE Crash
    BY <1>2 DEF Crash, NoHandler, HandlerFacts
  <1>3. CASE (\E j \in Jobs : CreateJob(j)) \/ JobStep \/ Restart \/ ((DriveNext \/ Importer) /\ UNCHANGED adminVars)
    <2>1. UNCHANGED handler
      BY <1>3 DEF JobStep, CreateJob, StartJob, AllocateIds, HandOverPage, PageImported, PublishJob, JobFails,
         EndThread, Restart, adminVars
    <2>2. CASE handler.at = "none"
      BY <2>1, <2>2 DEF IInv, HandlerFacts
    <2>3. CASE handler.at # "none"
      BY <1>3, <2>1, <2>3, HandlerBeside
    <2>4. QED
      BY <2>2, <2>3
  <1>4. QED
    BY <1>1, <1>2, <1>3 DEF Next, AdminNext

-----------------------------------------------------------------------------
(* The invariant, and what follows from it.                                    *)

LEMMA InvInit ==
  ASSUME Init
  PROVE  IInv
  <1>1. /\ catalog = [i \in Id |-> IF i \in Archived THEN None ELSE Initial[i]]
        /\ record = [i \in Id |-> IF i \in Archived THEN [state |-> "archived", art |-> Initial[i]] ELSE None]
        /\ originals = Initial /\ media = Initial
        /\ inbox = [i \in Id |-> None] /\ importer = [i \in Id |-> None] /\ lock = None
    BY DEF Init, StoreInit
  <1>2. /\ up = TRUE /\ worker = NoWorker /\ ending = {} /\ handler = NoHandler /\ handled = 0
        /\ jobs = [j \in Jobs |-> [status |-> "none", results |-> 0]]
    BY DEF Init, AdminInit
  <1>3. /\ batch = [b \in BatchIds |-> [request |-> "ready", result |-> None]]
        /\ bridge = NoBridge
        /\ ingest = [i \in Id |-> "none"] /\ receipt = [i \in Id |-> None]
    BY DEF Init, DriveInit
  <1>4. \A i \in Archived : i \in Id /\ Initial[i] \in Art
    BY StoreAssumption DEF Maybe
  <1>5. StoreTypeOK
    BY <1>1, <1>4, StoreAssumption DEF StoreTypeOK, Maybe, Records, ArchiveStates
  <1>6. AdminTypeOK
    BY <1>2, AdminAssumption DEF AdminTypeOK, NoWorker, NoHandler, Maybe
  <1>7. DriveTypeOK
    BY <1>3 DEF DriveTypeOK, NoBridge, Maybe
  <1>8. StoreSound
    <2> SUFFICES ASSUME NEW i \in Id PROVE SoundAt(i)
      BY DEF StoreSound
    <2>1. importer[i] = None /\ originals[i] = Initial[i] /\ media[i] = Initial[i] /\ inbox[i] = None
      BY <1>1
    <2>2. CASE i \in Archived
      <3>1. catalog[i] = None /\ record[i] = [state |-> "archived", art |-> Initial[i]]
        BY <1>1, <2>2
      <3>2. record[i].art = Initial[i]
        BY <3>1
      <3>3. ArtsOf(i) \subseteq {Initial[i], None}
        BY <2>1, <3>1, <3>2 DEF ArtsOf
      <3>4. QED
        BY <2>1, <3>1, <3>2, <3>3 DEF SoundAt, Live, Running
    <2>3. CASE i \notin Archived
      <3>1. catalog[i] = Initial[i] /\ ~Restorable(i)
        BY <1>1, <2>3 DEF Restorable, ArchiveState
      <3>2. ArtsOf(i) \subseteq {Initial[i], None}
        BY <2>1, <3>1 DEF ArtsOf
      <3>3. QED
        BY <2>1, <3>1, <3>2 DEF SoundAt, Running
    <2>4. QED
      BY <2>2, <2>3
  <1>9. Locked /\ OwnContainer /\ HandlerFacts /\ BridgeFacts
    BY <1>1, <1>2, <1>3, StoreAssumption
       DEF Locked, OwnContainer, HandlerFacts, BridgeFacts, NoWorker, NoHandler, NoBridge, Holders
  <1>10. Waited
    BY <1>1 DEF Waited
  <1>11. WorkerFacts
    <2>1. \A j \in Jobs : jobs[j].status = "none" /\ jobs[j].results = 0 /\ 0 <= Len(Uploads[j])
      BY <1>2, AdminAssumption DEF Jobs
    <2>2. QED
      BY <1>2, <2>1 DEF WorkerFacts, NoWorker, ActiveJobs, Active
  <1>12. EndingFacts
    BY <1>2 DEF EndingFacts
  <1>13. QED
    BY <1>5, <1>6, <1>7, <1>8, <1>9, <1>10, <1>11, <1>12 DEF IInv, TypeOK

LEMMA InvStep ==
  ASSUME IInv, [Next]_vars
  PROVE  IInv'
  <1>1. CASE Next
    <2>1. Effect
      BY <1>1, StepEffect
    <2>2. TypeOK' /\ StoreSound' /\ Locked' /\ Waited'
      BY <1>1, <2>1, TypesStep, SoundStep, LockedStep, WaitedStep
    <2>3. WorkerFacts' /\ EndingFacts' /\ BridgeFacts' /\ OwnContainer' /\ HandlerFacts'
      BY <1>1, WorkerStep, EndingStep, BridgeStepFacts, OwnContainerStep, HandlerStepFacts
    <2>4. QED
      BY <2>2, <2>3 DEF IInv
  <1>2. CASE UNCHANGED vars
    <2>0. UNCHANGED <<storeVars, adminVars, driveVars>>
      BY <1>2 DEF vars
    <2>1. TypeOK' = TypeOK
      BY <2>0 DEF storeVars, adminVars, driveVars, TypeOK, StoreTypeOK, AdminTypeOK, DriveTypeOK
    <2>2. StoreSound' = StoreSound
      BY <2>0 DEF storeVars, StoreSound, SoundAt, Live, Restorable, ArchiveState, Running, ArtsOf
    <2>3. /\ Locked' = Locked /\ Waited' = Waited /\ WorkerFacts' = WorkerFacts /\ EndingFacts' = EndingFacts
      BY <2>0 DEF storeVars, adminVars, driveVars, Locked, Waited, JobWaits, IngestWaits, Running, WorkerFacts,
         EndingFacts, ActiveJobs, PageId, Page, Activity
    <2>4. /\ BridgeFacts' = BridgeFacts /\ OwnContainer' = OwnContainer /\ HandlerFacts' = HandlerFacts
      BY <2>0 DEF storeVars, adminVars, driveVars, BridgeFacts, Remaining, NoFiles, Activity, OwnContainer,
         PageId, PageArt, Page, HandlerFacts, Live, Restorable, ArchiveState
    <2>5. QED
      BY <2>1, <2>2, <2>3, <2>4 DEF IInv
  <1>3. QED
    BY <1>1, <1>2

LEMMA Invariance == Spec => []IInv
  BY InvInit, InvStep, PTL DEF Spec

\* Every state of the two programs and their store is one the model declares.
THEOREM TypeCorrect == Spec => []TypeOK
  <1>1. IInv => TypeOK
    BY DEF IInv
  <1>2. QED
    BY <1>1, Invariance, PTL

\* A published page has its files: archiving, restoring, deleting and importing, each stopped
\* between any two of its steps, never leave an entry of the catalogue without them.
THEOREM PagesHaveFiles == Spec => []LiveHasFiles
  <1>1. IInv => LiveHasFiles
    BY DEF IInv, StoreSound, SoundAt, LiveHasFiles
  <1>2. QED
    BY <1>1, Invariance, PTL

\* Sets that cannot hold two different values have one at most.
LEMMA AtMostOne ==
  ASSUME NEW S, \A a, b \in S : a = b
  PROVE  Cardinality(S) <= 1
  <1>1. CASE S = {}
    BY <1>1, FS_EmptySet
  <1>2. CASE S # {}
    <2>1. PICK a : a \in S
      BY <1>2
    <2>2. S = {a}
      BY <2>1
    <2>3. QED
      BY <2>2, FS_Singleton
  <1>3. QED
    BY <1>1, <1>2

\* The catalogue, the files, a container and a record that can be restored never mean two
\* drawings by one id, though the job draws its ids at random, a batch brings its own, and a
\* container that nobody waits for runs on.
THEOREM OneDrawingPerId == Spec => []IdNamesOneArt
  <1>1. IInv => IdNamesOneArt
    BY AtMostOne DEF IInv, StoreSound, SoundAt, IdNamesOneArt
  <1>2. QED
    BY <1>1, Invariance, PTL

\* The service has one active job at a time, the thread that works and the lock are that job's,
\* and a thread that ends late touches neither.
THEOREM OneJob == Spec => []OneJobAtATime
  <1>1. IInv => OneJobAtATime
    <2> SUFFICES ASSUME IInv PROVE OneJobAtATime
      OBVIOUS
    <2>1. \A j, k \in ActiveJobs : j = k
      BY DEF IInv, WorkerFacts
    <2>2. worker.job # 0 => worker.job \in ActiveJobs
      BY DEF IInv, WorkerFacts
    <2>3. lock = "job" => worker.job # 0
      BY DEF IInv, Locked, WorkerFacts
    <2>4. ending \cap ActiveJobs = {}
      BY DEF IInv, EndingFacts, ActiveJobs, Active
    <2>5. QED
      BY <2>1, <2>2, <2>3, <2>4, AtMostOne DEF OneJobAtATime
  <1>2. QED
    BY <1>1, Invariance, PTL

\* A claimed request belongs to its dispatcher, and to nobody when that one is gone.
THEOREM ClaimIsFinal == Spec => ClaimedOnce
  <1>1. ASSUME IInv, [Next]_vars, NEW b \in BatchIds, batch[b].request # "ready", bridge.batch # b
        PROVE  UNCHANGED batch[b] /\ bridge'.batch # b
    <2>0. DriveTypeOK /\ b # 0
      BY <1>1, BatchesAssumption DEF IInv, TypeOK, BatchIds
    <2>1. CASE UNCHANGED <<batch, bridge>>
      BY <1>1, <2>1
    <2>2. ASSUME NEW c \in BatchIds, ClaimMarker(c)
          PROVE  UNCHANGED batch[b] /\ bridge'.batch # b
      <3>1. c # b
        BY <1>1, <2>2 DEF ClaimMarker
      <3>2. QED
        BY <2>0, <2>2, <3>1 DEF ClaimMarker, NoBridge, DriveTypeOK
    <2>3. CASE ClaimRequest
      BY <1>1, <2>0, <2>3, BridgeMoves DEF ClaimRequest, DriveTypeOK
    <2>4. CASE AlreadyProcessed \/ StartIngest \/ Preserve \/ HandOverDownload \/ WriteReceipt \/ IngestExits
      <3>1. UNCHANGED batch
        BY <2>4 DEF AlreadyProcessed, StartIngest, Preserve, HandOverDownload, WriteReceipt, IngestExits
      <3>2. QED
        BY <1>1, <2>0, <2>4, <3>1, BridgeMoves
    <2>5. CASE BatchPasses \/ BatchFails \/ BridgeDies
      <3>1. bridge'.batch = 0
        BY <2>5 DEF BatchPasses, BatchFails, BridgeDies, NoBridge
      <3>2. \E r : batch' = [batch EXCEPT ![bridge.batch].result = r] \/ UNCHANGED batch
        BY <2>5 DEF BatchPasses, BatchFails, BridgeDies
      <3>3. QED
        BY <1>1, <2>0, <3>1, <3>2 DEF DriveTypeOK
    <2>6. QED
      BY <1>1, <2>1, <2>2, <2>3, <2>4, <2>5 DEF Next, vars, driveVars, DriveNext, BridgeStep
  <1>2. IInv /\ [Next]_vars =>
           [\A b \in BatchIds :
              batch[b].request # "ready" /\ bridge.batch # b => UNCHANGED batch[b] /\ bridge'.batch # b]_vars
    BY <1>1
  <1>3. QED
    BY <1>2, Invariance, PTL DEF Spec, ClaimedOnce
=============================================================================
