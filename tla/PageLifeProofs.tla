--------------------------- MODULE PageLifeProofs ---------------------------
(* ColoringPages implements PageLife: the refinement that the run checks on a  *)
(* small instance, for every value of the constants.                           *)
EXTENDS ColoringPagesProofs

-----------------------------------------------------------------------------
(* What the refinement needs beyond IInv: where a drawing can be, and which     *)
(* drawings are reported.                                                      *)

\* The drawings that an id stands for, or can come to stand for.
Names(i) ==
    ({catalog[i]} \cup (IF record[i] # None THEN {record[i].art} ELSE {})
                  \cup (IF importer[i] # None THEN {importer[i].art} ELSE {})) \ {None}

ArtOf(u) == Uploads[u[1]][u[2]]

\* The page of an upload has not been handed over yet.
ToCome(u) ==
    \/ jobs[u[1]].status = "none"
    \/ /\ worker.job = u[1]
       /\ \/ worker.at \in {"queued", "allocate"}
          \/ worker.at = "stage" /\ u[2] >= Page
          \/ worker.at = "import" /\ u[2] > Page

\* No drawing is under two ids, and what a container brings is not what its id's record names.
NamesDiffer ==
    /\ \A i, k \in Id : i # k => Names(i) \cap Names(k) = {}
    /\ \A i \in Id : Running(i) /\ record[i] # None => record[i].art # importer[i].art

\* What has still to be handed over is nowhere.
PagesNew == \A u \in UploadPages, i \in Id : ToCome(u) => ArtOf(u) \notin Names(i)
ActivitiesNew ==
    \A x \in Activities, i \in Id : x.art \in Names(i) => receipt[x.id] # None \/ ingest[x.id] = "handed"

ReceiptsGiven == \A i \in Id : receipt[i] # None => \E x \in Activities : x.id = i /\ x.art = receipt[i]

\* What a container is still to publish has not been reported.
RunningUnreported == \A i \in Id : Running(i) => importer[i].art \notin Reported

\* A handler that has loaded the catalogue misses only pages that a container nobody waits for
\* has published since.
Overlooked ==
    handler.at \in {"prepare", "check", "replace"} =>
        \A i \in Id : Live(i) /\ handler.base[i] = None => catalog[i] \notin Reported /\ ~Restorable(i)

LifeInv ==
    /\ IInv
    /\ NamesDiffer /\ PagesNew /\ ActivitiesNew /\ ReceiptsGiven /\ RunningUnreported /\ Overlooked

-----------------------------------------------------------------------------
(* Where drawings are.                                                         *)

LEMMA InUploads ==
  ASSUME TypeOK, WorkerFacts, worker.at \in {"stage", "import"}
  PROVE  <<worker.job, Page>> \in UploadPages /\ ArtOf(<<worker.job, Page>>) = PageArt
  <1>1. worker.job \in Jobs /\ Page \in 1 .. Len(Uploads[worker.job])
    BY PageInside
  <1>2. Uploads[worker.job] \in Seq(Art)
    BY <1>1, AdminAssumption DEF Jobs
  <1>3. Page \in DOMAIN Uploads[worker.job]
    BY <1>1, <1>2
  <1>4. QED
    BY <1>1, <1>3 DEF UploadPages, ArtOf, PageArt

LEMMA InActivities ==
  ASSUME TypeOK, BridgeFacts, bridge.at # "none", Remaining
  PROVE  Activity \in Activities
  <1>1. bridge.batch \in BatchIds /\ bridge.succeeded + 1 \in 1 .. Len(Batches[bridge.batch])
    BY ActivityInside
  <1>2. Batches[bridge.batch] \in Seq([id : Id, art : Art])
    BY <1>1, BatchesAssumption DEF BatchIds
  <1>3. bridge.succeeded + 1 \in DOMAIN Batches[bridge.batch]
    BY <1>1, <1>2
  <1>4. QED
    BY <1>1, <1>3 DEF Activities, Activity

\* Only a handover brings a drawing: all else moves it between an id's entry, record and container.
LEMMA NamesMove ==
  ASSUME IInv, Quiet \/ (\E i \in Id : ImportFiles(i) \/ ImportCatalog(i)) \/ HandlerWrites,
         NEW k \in Id
  PROVE  Names(k)' \subseteq Names(k)
  <1>0. TypeOK /\ HandlerFacts
    BY DEF IInv
  <1>1. CASE Quiet
    BY <1>1 DEF Quiet, Files, Names
  <1>2. ASSUME NEW i \in Id, ImportFiles(i)
        PROVE  Names(k)' \subseteq Names(k)
    <2>1. UNCHANGED <<catalog, record>>
      BY <1>2 DEF ImportFiles
    <2>2. importer'[k] # None => importer[k] # None /\ importer'[k].art = importer[k].art
      BY <1>0, <1>2, ImportFilesFacts DEF ImportFiles, Running
    <2>3. QED
      BY <2>1, <2>2 DEF Names
  <1>3. ASSUME NEW i \in Id, ImportCatalog(i)
        PROVE  Names(k)' \subseteq Names(k)
    <2>0. Running(i) /\ Ended(i, "done") /\ UNCHANGED record
      BY <1>3 DEF ImportCatalog
    <2>1. importer'[k] # None => importer[k] # None /\ importer'[k].art = importer[k].art
      BY <1>0, <2>0, EndedFacts DEF Running
    <2>2. catalog'[k] = catalog[k] \/ (importer[k] # None /\ catalog'[k] = importer[k].art)
      BY <1>0, <1>3, <2>0, ImportCatalogFacts DEF Running
    <2>3. QED
      BY <2>0, <2>1, <2>2 DEF Names
  <1>4. CASE HandlerWrites
    <2>0. handler.at # "none" /\ UNCHANGED importer
      BY <1>4 DEF HandlerWrites, PrepareArchive, ReplaceCatalog, FinishRecord, MarkDelete, DeleteFiles, DeleteMedia,
         DeleteOriginals, DeleteInbox, WriteTombstone
    <2>1. handler.id \in Id /\ record \in [Id -> Maybe(Records)]
      BY <1>0, <2>0, HandlerPage DEF TypeOK, StoreTypeOK
    <2>2. CASE PrepareArchive
      <3>1. UNCHANGED catalog /\ handler.base[handler.id] # None /\ catalog[handler.id] = handler.base[handler.id]
        BY <1>0, <2>1, <2>2 DEF PrepareArchive, HandlerFacts, TypeOK, AdminTypeOK
      <3>2. record'[handler.id] = [state |-> "prepared", art |-> handler.base[handler.id]]
        BY <2>1, <2>2 DEF PrepareArchive
      <3>3. record'[handler.id].art = catalog[handler.id]
        BY <3>1, <3>2
      <3>4. k # handler.id => record'[k] = record[k]
        BY <2>1, <2>2 DEF PrepareArchive
      <3>5. QED
        BY <2>0, <3>1, <3>3, <3>4 DEF Names
    <2>3. CASE ReplaceCatalog
      <3>1. handler.at = "replace" /\ catalog' = Candidate /\ UNCHANGED record
        BY <2>3 DEF ReplaceCatalog
      <3>2. handler.base[k] # None => catalog[k] = handler.base[k]
        BY <1>0, <3>1 DEF HandlerFacts
      <3>3. catalog'[k] \in {None, catalog[k]} \/ (record[k] # None /\ catalog'[k] = record[k].art)
        <4>1. CASE k # handler.id
          BY <1>0, <3>1, <3>2, <4>1, CandidatePages
        <4>2. CASE k = handler.id
          BY <1>0, <3>1, <3>2, <4>2, CandidatePages, HandlerPage
        <4>3. QED
          BY <4>1, <4>2
      <3>4. QED
        BY <2>0, <3>1, <3>3 DEF Names
    <2>4. CASE FinishRecord \/ MarkDelete \/ WriteTombstone
      <3>1. UNCHANGED catalog
        BY <2>4 DEF FinishRecord, MarkDelete, WriteTombstone
      <3>2. record'[k] # None => record[k] # None /\ record'[k].art = record[k].art
        <4>1. CASE UNCHANGED record
          BY <4>1
        <4>2. CASE ~UNCHANGED record
          <5>1. /\ record[handler.id] # None
                /\ \A m \in Id \ {handler.id} : record'[m] = record[m]
                /\ record'[handler.id] = [state |-> Becomes, art |-> record[handler.id].art]
            BY <1>0, <2>4, <4>2, RecordSet
          <5>2. record'[handler.id].art = record[handler.id].art
            BY <5>1
          <5>3. QED
            BY <5>1, <5>2
        <4>3. QED
          BY <4>1, <4>2
      <3>3. QED
        BY <2>0, <3>1, <3>2 DEF Names
    <2>5. CASE DeleteFiles
      BY <2>5 DEF DeleteFiles, DeleteMedia, DeleteOriginals, DeleteInbox, Names
    <2>6. QED
      BY <1>4, <2>2, <2>3, <2>4, <2>5 DEF HandlerWrites
  <1>5. QED
    BY <1>1, <1>2, <1>3, <1>4

LEMMA NamesHanded ==
  ASSUME TypeOK, NEW i \in Id, NEW a \in Art, HandsOver(i, a), NEW k \in Id
  PROVE  Names(k)' \subseteq Names(k) \cup (IF k = i THEN {a} ELSE {})
  <1>1. UNCHANGED <<catalog, record>>
    BY DEF HandsOver
  <1>2. k # i => importer'[k] = importer[k]
    BY HandsOverFacts
  <1>3. k = i => importer'[k].art = a
    BY HandsOverFacts
  <1>4. QED
    BY <1>1, <1>2, <1>3 DEF Names

-----------------------------------------------------------------------------
(* What jobs and receipts report.                                              *)

LEMMA JobMoves ==
  ASSUME IInv, AdminNext, NEW j \in Jobs
  PROVE  /\ ~PageImported => jobs'[j].results = jobs[j].results
         /\ PageImported => jobs'[j].results = jobs[j].results + (IF j = worker.job THEN 1 ELSE 0)
         /\ jobs'[j].status = "none" => jobs[j].status = "none"
  <1>0. TypeOK /\ AdminTypeOK /\ WorkerFacts /\ jobs \in [Jobs -> JobRecords] /\ jobs[j].results \in Nat
    BY JobFields DEF IInv, TypeOK, AdminTypeOK, JobRecords
  <1>a. worker.at # "none" => worker.job \in Jobs
    BY <1>0 DEF AdminTypeOK, WorkerFacts
  <1>1. ASSUME NEW k \in Jobs, CreateJob(k)
        PROVE  ~PageImported /\ jobs'[j].results = jobs[j].results /\ (jobs'[j].status = "none" => jobs[j].status = "none")
    <2>1. jobs' = [jobs EXCEPT ![k].status = "queued"] /\ jobs[k].status = "none" /\ "queued" \in Active
      BY <1>1 DEF CreateJob, Active
    <2>2. jobs'[k].status = "queued" /\ jobs'[k].results = jobs[k].results /\ \A m \in Jobs \ {k} : jobs'[m] = jobs[m]
      BY <1>0, <2>1, JobFields
    <2>3. worker.at = "none"
      BY <1>0, <1>1 DEF WorkerFacts, CreateJob
    <2>4. QED
      BY <2>2, <2>3 DEF PageImported
  <1>2. CASE StartJob \/ PublishJob \/ JobFails
    <2>1. /\ worker.job \in Jobs
          /\ \/ UNCHANGED jobs
             \/ \E status \in {"failed", "published"} \cup Active : jobs' = [jobs EXCEPT ![worker.job].status = status]
      BY <1>a, <1>2 DEF StartJob, PublishJob, JobFails, Active
    <2>2. CASE UNCHANGED jobs
      <3>1. ~PageImported
        <4>1. PageImported => jobs'[worker.job].results = jobs[worker.job].results + 1 /\ jobs[worker.job].results \in Nat
          BY <1>0, <2>1, JobFields DEF PageImported
        <4>2. QED
          BY <2>2, <4>1
      <3>2. QED
        BY <2>2, <3>1
    <2>3. ASSUME NEW status \in {"failed", "published"} \cup Active, jobs' = [jobs EXCEPT ![worker.job].status = status]
          PROVE  /\ ~PageImported /\ jobs'[j].results = jobs[j].results
                 /\ jobs'[j].status = "none" => jobs[j].status = "none"
      <3>1. /\ jobs'[worker.job].status = status /\ jobs'[worker.job].results = jobs[worker.job].results
            /\ \A m \in Jobs \ {worker.job} : jobs'[m] = jobs[m]
        BY <1>0, <2>1, <2>3, JobFields
      <3>2. ~PageImported
        <4>1. PageImported => jobs'[worker.job].results = jobs[worker.job].results + 1 /\ jobs[worker.job].results \in Nat
          BY <1>0, <2>1, JobFields DEF PageImported
        <4>2. QED
          BY <3>1, <4>1
      <3>3. status # "none"
        BY DEF Active
      <3>4. QED
        BY <3>1, <3>2, <3>3
    <2>4. QED
      BY <2>1, <2>2, <2>3
  <1>3. CASE PageImported
    <2>1. worker.job \in Jobs /\ jobs' = [jobs EXCEPT ![worker.job].results = @ + 1]
      BY <1>a, <1>3 DEF PageImported
    <2>2. /\ jobs'[worker.job].status = jobs[worker.job].status
          /\ jobs'[worker.job].results = jobs[worker.job].results + 1
          /\ \A m \in Jobs \ {worker.job} : jobs'[m] = jobs[m]
      BY <1>0, <2>1, JobFields
    <2>3. QED
      BY <1>0, <1>3, <2>1, <2>2
  <1>4. CASE AllocateIds \/ HandOverPage \/ Request \/ HandlerStep \/ Crash
    <2>1. UNCHANGED jobs
      BY <1>4 DEF AllocateIds, HandOverPage, Request, Edit, Archive, Restore, Delete, Admit, HandlerStep, PrepareArchive,
         CheckCatalog, ReplaceCatalog, FinishRecord, MarkDelete, DeleteMedia, DeleteOriginals, DeleteInbox,
         WriteTombstone, HandlerFails, Crash
    <2>2. ~PageImported
      <3>1. PageImported =>
               /\ worker.job \in Jobs /\ jobs'[worker.job].results = jobs[worker.job].results + 1
               /\ jobs[worker.job].results \in Nat
        BY <1>0, <1>a, JobFields DEF PageImported
      <3>2. QED
        BY <2>1, <3>1
    <2>3. QED
      BY <2>1, <2>2
  <1>5. CASE Restart
    <2>1. worker.at = "none"
      BY <1>5 DEF IInv, Locked, Restart
    <2>2. jobs'[j] = IF jobs[j].status \in Active THEN [jobs[j] EXCEPT !.status = "failed"] ELSE jobs[j]
      BY <1>5 DEF Restart
    <2>3. \A r \in JobRecords : [r EXCEPT !.status = "failed"].results = r.results /\ [r EXCEPT !.status = "failed"].status = "failed"
      BY DEF JobRecords
    <2>4. QED
      BY <1>0, <2>1, <2>2, <2>3 DEF PageImported
  <1>6. ASSUME NEW k \in Jobs, EndThread(k)
        PROVE  /\ ~PageImported /\ jobs'[j].results = jobs[j].results
               /\ jobs'[j].status = "none" => jobs[j].status = "none"
    <2>1. /\ \A m \in Jobs : jobs'[m].results = jobs[m].results
          /\ jobs'[k].status # "none" /\ \A m \in Jobs \ {k} : jobs'[m] = jobs[m]
      BY <1>0, <1>6, ThreadEnds DEF IInv
    <2>2. ~PageImported
      <3>1. PageImported =>
               /\ worker.job \in Jobs /\ jobs'[worker.job].results = jobs[worker.job].results + 1
               /\ jobs[worker.job].results \in Nat
        BY <1>0, <1>a, JobFields DEF PageImported
      <3>2. QED
        BY <2>1, <3>1
    <2>3. QED
      BY <2>1, <2>2
  <1>7. QED
    BY <1>1, <1>2, <1>3, <1>4, <1>5, <1>6 DEF AdminNext, JobStep

\* A page that is still to come was so before; the one that is handed over no longer is.
LEMMA ToComeShrinks ==
  ASSUME IInv, Next, NEW u \in UploadPages
  PROVE  /\ ToCome(u)' => ToCome(u)
         /\ HandOverPage /\ u = <<worker.job, Page>> => ~ToCome(u)'
  <1>0. TypeOK /\ AdminTypeOK /\ WorkerFacts /\ Locked
    BY DEF IInv, TypeOK
  <1>1. u[1] \in Jobs /\ u[2] \in Nat
    <2>1. PICK j \in Jobs : \E p \in DOMAIN Uploads[j] : u = <<j, p>>
      BY DEF UploadPages
    <2>2. Uploads[j] \in Seq(Art)
      BY AdminAssumption DEF Jobs
    <2>3. QED
      BY <2>1, <2>2
  <1>a. jobs[u[1]].results \in Nat
    BY <1>0, <1>1, JobFields
  <1>2. CASE AdminNext
    <2>0. jobs'[u[1]].status = "none" => jobs[u[1]].status = "none"
      BY <1>1, <1>2, JobMoves
    <2>1. CASE \E j \in Jobs : CreateJob(j)
      <3>1. PICK j \in Jobs : CreateJob(j)
        BY <2>1
      <3>2. worker.at = "none" /\ worker'.job = j /\ jobs[j].status = "none"
        BY <1>0, <3>1 DEF CreateJob, NoWorker, WorkerFacts
      <3>3. QED
        BY <2>0, <3>2 DEF ToCome, HandOverPage
    <2>2. CASE StartJob
      <3>1. worker.at = "queued" /\ worker'.at = "allocate" /\ worker'.job = worker.job
        BY <1>0, <2>2 DEF StartJob, AdminTypeOK
      <3>2. QED
        BY <2>0, <3>1 DEF ToCome, HandOverPage
    <2>3. CASE AllocateIds
      <3>1. worker.at = "allocate" /\ worker'.at = "stage" /\ worker'.job = worker.job
        BY <1>0, <2>3 DEF AllocateIds, AdminTypeOK
      <3>2. QED
        BY <2>0, <3>1 DEF ToCome, HandOverPage
    <2>4. CASE HandOverPage
      <3>1. worker'.at = "import" /\ worker'.job = worker.job /\ Page' = Page /\ worker.at = "stage"
        BY <1>0, <2>4 DEF HandOverPage, AdminTypeOK, Page
      <3>2. worker.job = u[1] => Page \in Nat
        BY <1>a DEF Page
      <3>3. u = <<worker.job, Page>> => jobs'[u[1]].status # "none"
        <4>1. jobs[worker.job].status \in Active /\ UNCHANGED jobs
          BY <1>0, <2>4, PageInside DEF HandOverPage
        <4>2. QED
          BY <4>1 DEF Active
      <3>4. QED
        BY <1>1, <2>0, <3>1, <3>2, <3>3 DEF ToCome
    <2>5. CASE PageImported
      <3>1. worker.at = "import" /\ worker'.at \in {"stage", "verify"} /\ worker'.job = worker.job
        BY <1>0, <2>5 DEF PageImported, AdminTypeOK
      <3>2. worker.job = u[1] => Page' = Page + 1 /\ Page \in Nat
        BY <1>a, <1>1, <1>2, <2>5, <3>1, JobMoves DEF Page
      <3>3. QED
        BY <1>1, <2>0, <3>1, <3>2 DEF ToCome, HandOverPage
    <2>6. CASE PublishJob \/ JobFails \/ Crash
      <3>1. worker'.at = "none"
        BY <2>6 DEF PublishJob, JobFails, Crash, NoWorker
      <3>2. ~HandOverPage
        <4>1. HandOverPage => worker'.at = "import"
          BY <1>0 DEF HandOverPage, AdminTypeOK
        <4>2. QED
          BY <3>1, <4>1
      <3>3. QED
        BY <2>0, <3>1, <3>2 DEF ToCome
    <2>7. CASE Request \/ HandlerStep \/ Restart
      <3>1. UNCHANGED worker
        BY <2>7 DEF Request, Edit, Archive, Restore, Delete, Admit, HandlerStep, PrepareArchive, CheckCatalog,
           ReplaceCatalog, FinishRecord, MarkDelete, DeleteMedia, DeleteOriginals, DeleteInbox, WriteTombstone,
           HandlerFails, Restart
      <3>2. worker.at # "none" => UNCHANGED jobs
        BY <1>0, <2>7 DEF Request, Edit, Archive, Restore, Delete, Admit, HandlerStep, PrepareArchive, CheckCatalog,
           ReplaceCatalog, FinishRecord, MarkDelete, DeleteMedia, DeleteOriginals, DeleteInbox, WriteTombstone,
           HandlerFails, Restart, Locked
      <3>3. ~HandOverPage
        <4>1. HandOverPage => worker.at = "stage" /\ worker'.at = "import"
          BY <1>0 DEF HandOverPage, AdminTypeOK
        <4>2. QED
          BY <3>1, <4>1
      <3>4. QED
        BY <2>0, <3>1, <3>2, <3>3 DEF ToCome, Page
    <2>8. CASE \E j \in Jobs : EndThread(j)
      <3>1. UNCHANGED worker /\ (worker.at # "none" => Page' = Page)
        BY <1>0, <2>8, ThreadEnds DEF IInv
      <3>2. ~HandOverPage
        <4>1. HandOverPage => worker.at = "stage" /\ worker'.at = "import"
          BY <1>0 DEF HandOverPage, AdminTypeOK
        <4>2. QED
          BY <3>1, <4>1
      <3>3. QED
        BY <2>0, <3>1, <3>2 DEF ToCome
    <2>9. QED
      BY <1>2, <2>1, <2>2, <2>3, <2>4, <2>5, <2>6, <2>7, <2>8 DEF AdminNext, JobStep
  <1>3. CASE (DriveNext \/ Importer) /\ UNCHANGED adminVars
    <2>1. UNCHANGED <<worker, jobs>>
      BY <1>3 DEF adminVars
    <2>2. ~HandOverPage
      <3>1. HandOverPage => worker.at = "stage" /\ worker'.at = "import"
        BY <1>0 DEF HandOverPage, AdminTypeOK
      <3>2. QED
        BY <2>1, <3>1
    <2>3. QED
      BY <2>1, <2>2 DEF ToCome, Page
  <1>4. QED
    BY <1>2, <1>3 DEF Next

LEMMA InListed ==
  ASSUME NEW x
  PROVE  x \in Listed <=> \E j \in Jobs : \E p \in 1 .. jobs[j].results : x = Uploads[j][p]
  BY DEF Listed

\* A drawing is reported by a job's results or by a receipt.
LEMMA ReportedMoves ==
  ASSUME IInv, Next
  PROVE  \/ UNCHANGED Reported
         \/ PageImported /\ Reported' = Reported \cup {PageArt}
         \/ WriteReceipt /\ Reported' = Reported \cup {Activity.art}
  <1>0. TypeOK /\ WorkerFacts /\ BridgeFacts
    BY DEF IInv
  <1>1. CASE AdminNext /\ UNCHANGED driveVars
    <2>0. UNCHANGED receipt
      BY <1>1 DEF driveVars
    <2>1. CASE ~PageImported
      <3>1. \A j \in Jobs : jobs'[j].results = jobs[j].results
        BY <1>1, <2>1, JobMoves
      <3>2. Listed' = Listed
        BY <3>1 DEF Listed
      <3>3. QED
        BY <2>0, <3>2 DEF Reported
    <2>2. CASE PageImported
      <3>1. worker.job \in Jobs /\ Page \in Nat /\ PageArt = Uploads[worker.job][Page]
        BY <1>0, <2>2, PageInside DEF PageImported, PageArt
      <3>2. \A j \in Jobs : jobs[j].results \in Nat /\ jobs'[j].results = jobs[j].results + (IF j = worker.job THEN 1 ELSE 0)
        BY <1>0, <1>1, <2>2, JobMoves, JobFields
      <3>3. \A j \in Jobs : 1 .. jobs'[j].results = (1 .. jobs[j].results) \cup (IF j = worker.job THEN {Page} ELSE {})
        BY <3>2 DEF Page
      <3>4. \A x : x \in Listed' <=> \E j \in Jobs : \E p \in 1 .. jobs'[j].results : x = Uploads[j][p]
        BY DEF Listed
      <3>5. Listed' = Listed \cup {PageArt}
        BY <3>1, <3>3, <3>4, InListed
      <3>6. QED
        BY <2>0, <2>2, <3>5 DEF Reported
    <2>3. QED
      BY <2>1, <2>2
  <1>2. CASE DriveNext /\ UNCHANGED adminVars
    <2>0. Listed' = Listed
      BY <1>2 DEF adminVars, Listed
    <2>1. CASE WriteReceipt
      <3>1. Activity.id \in Id /\ Activity.art \in Art /\ receipt[Activity.id] = None
        BY <1>0, <2>1, ActivityInside DEF WriteReceipt, BridgeFacts
      <3>2. receipt \in [Id -> Maybe(Art)] /\ receipt' = [receipt EXCEPT ![Activity.id] = Activity.art]
        BY <1>0, <2>1 DEF WriteReceipt, TypeOK, DriveTypeOK
      <3>3. PICK i \in Id, a \in Art : i = Activity.id /\ a = Activity.art
        BY <3>1
      <3>4. receipt'[i] = a /\ (\A k \in Id \ {i} : receipt'[k] = receipt[k]) /\ receipt[i] = None /\ a # None
        BY <3>1, <3>2, <3>3, StoreAssumption
      <3>5. {receipt'[k] : k \in Id} \ {None} = ({receipt[k] : k \in Id} \ {None}) \cup {a}
        BY <3>4
      <3>6. Reported' = Reported \cup {a}
        BY <2>0, <3>4, <3>5 DEF Reported
      <3>7. QED
        BY <2>1, <3>3, <3>6
    <2>2. CASE ~WriteReceipt
      <3>1. UNCHANGED receipt
        BY <1>2, <2>2 DEF DriveNext, BridgeStep, ClaimMarker, ClaimRequest, AlreadyProcessed, StartIngest, Preserve,
           HandOverDownload, IngestExits, BatchPasses, BatchFails, BridgeDies
      <3>2. QED
        BY <2>0, <3>1 DEF Reported
    <2>3. QED
      BY <2>1, <2>2
  <1>3. CASE Importer /\ UNCHANGED <<adminVars, driveVars>>
    BY <1>3 DEF adminVars, driveVars, Reported, Listed
  <1>4. QED
    BY <1>1, <1>2, <1>3 DEF Next

-----------------------------------------------------------------------------
(* What is handed over is new.                                                 *)

LEMMA ListedPage ==
  ASSUME TypeOK, WorkerFacts, NEW x \in Listed
  PROVE  \E v \in UploadPages : x = ArtOf(v) /\ v[2] \in Nat /\ v[2] <= jobs[v[1]].results
  <1>1. PICK j \in Jobs : \E p \in 1 .. jobs[j].results : x = Uploads[j][p]
    BY InListed
  <1>2. PICK p \in 1 .. jobs[j].results : x = Uploads[j][p]
    BY <1>1
  <1>3. Uploads[j] \in Seq(Art) /\ jobs[j].results \in Nat /\ jobs[j].results <= Len(Uploads[j])
    BY <1>1, AdminAssumption, JobFields DEF Jobs, WorkerFacts
  <1>4. p \in DOMAIN Uploads[j] /\ p \in Nat /\ p <= jobs[j].results
    BY <1>2, <1>3
  <1>5. <<j, p>> \in UploadPages
    BY <1>1, <1>4 DEF UploadPages
  <1>6. ArtOf(<<j, p>>) = x
    BY <1>2 DEF ArtOf
  <1>7. QED
    BY <1>4, <1>5, <1>6

LEMMA NewPage ==
  ASSUME LifeInv, HandOverPage
  PROVE  /\ PageArt \notin Reported /\ \A i \in Id : PageArt \notin Names(i)
         /\ \A x \in Activities : x.art # PageArt
  <1>0. TypeOK /\ WorkerFacts /\ worker.at = "stage"
    BY DEF LifeInv, IInv, HandOverPage
  <1> DEFINE u == <<worker.job, Page>>
  <1>1. /\ u \in UploadPages /\ ArtOf(u) = PageArt /\ u[1] = worker.job /\ u[2] = Page
        /\ Page = jobs[worker.job].results + 1 /\ jobs[worker.job].results \in Nat
    BY <1>0, InUploads, PageInside, JobFields DEF Page
  <1>2. ToCome(u)
    BY <1>0, <1>1 DEF ToCome
  <1>3. \A x \in Activities : x.art # PageArt
    BY <1>1, DrawingsDiffer DEF ArtOf
  <1>4. PageArt \notin {Initial[i] : i \in Id}
    BY <1>1, DrawingsDiffer DEF ArtOf
  <1>5. PageArt \notin {receipt[i] : i \in Id} \ {None}
    BY <1>3 DEF LifeInv, ReceiptsGiven
  <1>6. PageArt \notin Listed
    <2>1. ASSUME NEW v \in UploadPages, PageArt = ArtOf(v), v[2] \in Nat, v[2] <= jobs[v[1]].results
          PROVE  FALSE
      <3>1. v = u
        BY <1>1, <2>1, DrawingsDiffer DEF ArtOf
      <3>2. QED
        BY <1>1, <2>1, <3>1
    <2>2. QED
      BY <1>0, <2>1, ListedPage
  <1>7. QED
    BY <1>1, <1>2, <1>3, <1>4, <1>5, <1>6 DEF LifeInv, PagesNew, Reported

LEMMA NewActivity ==
  ASSUME LifeInv, HandOverDownload
  PROVE  /\ Activity.art \notin Reported /\ \A i \in Id : Activity.art \notin Names(i)
         /\ \A u \in UploadPages : ArtOf(u) # Activity.art
         /\ \A x \in Activities : x.art = Activity.art => x.id = Activity.id
  <1>0. /\ TypeOK /\ WorkerFacts /\ BridgeFacts /\ bridge.at = "preserved" /\ Remaining
        /\ receipt[Activity.id] = None /\ ingest[Activity.id] # "handed"
    BY DEF LifeInv, IInv, HandOverDownload, BridgeFacts
  <1>1. Activity \in Activities
    BY <1>0, InActivities
  <1>2. \A u \in UploadPages : ArtOf(u) # Activity.art
    BY <1>1, DrawingsDiffer DEF ArtOf
  <1>3. \A x \in Activities : x.art = Activity.art => x.id = Activity.id
    BY <1>1, DrawingsDiffer
  <1>4. Activity.art \notin {Initial[i] : i \in Id}
    BY <1>1, DrawingsDiffer
  <1>5. Activity.art \notin {receipt[i] : i \in Id} \ {None}
    BY <1>0, <1>3 DEF LifeInv, ReceiptsGiven
  <1>6. Activity.art \notin Listed
    BY <1>0, <1>2, ListedPage
  <1>7. QED
    BY <1>0, <1>1, <1>2, <1>3, <1>4, <1>5, <1>6 DEF LifeInv, ActivitiesNew, Reported

-----------------------------------------------------------------------------
(* The steps preserve it.                                                      *)

\* A container that runs after a step that hands nothing over ran before, with the same drawing,
\* and its id has no other record.
LEMMA RunningMoves ==
  ASSUME IInv, Quiet \/ (\E i \in Id : ImportFiles(i) \/ ImportCatalog(i)) \/ HandlerWrites,
         NEW k \in Id, Running(k)'
  PROVE  /\ Running(k) /\ importer'[k].art = importer[k].art
         /\ record'[k] # None => record[k] # None /\ record'[k].art = record[k].art
  <1>0. TypeOK /\ HandlerFacts /\ (Running(k) => ~Live(k) /\ ~Restorable(k))
    BY DEF IInv, StoreSound, SoundAt
  <1>1. CASE Quiet
    BY <1>1 DEF Quiet, Files, Running
  <1>2. ASSUME NEW i \in Id, ImportFiles(i)
        PROVE  Running(k) /\ importer'[k].art = importer[k].art /\ record'[k] = record[k]
    <2>1. UNCHANGED record
      BY <1>2 DEF ImportFiles
    <2>2. QED
      BY <1>0, <1>2, <2>1, ImportFilesFacts DEF ImportFiles, Running
  <1>3. ASSUME NEW i \in Id, ImportCatalog(i)
        PROVE  Running(k) /\ importer'[k].art = importer[k].art /\ record'[k] = record[k]
    <2>0. Running(i) /\ Ended(i, "done") /\ UNCHANGED record
      BY <1>3 DEF ImportCatalog
    <2>1. (k # i => importer'[k] = importer[k]) /\ (importer'[i] # None => importer'[i].at = "done")
      BY <1>0, <2>0, EndedFacts
    <2>2. QED
      BY <2>0, <2>1 DEF Running
  <1>4. CASE HandlerWrites
    <2>0. handler.at # "none" /\ UNCHANGED importer
      BY <1>4 DEF HandlerWrites, PrepareArchive, ReplaceCatalog, FinishRecord, MarkDelete, DeleteFiles, DeleteMedia,
         DeleteOriginals, DeleteInbox, WriteTombstone
    <2>1. Running(k) /\ ~Live(k)
      BY <1>0, <2>0 DEF Running
    <2>2. CASE PrepareArchive
      <3>1. Live(handler.id)
        BY <1>0, <2>2, HandlerPage DEF PrepareArchive, HandlerFacts, TypeOK, AdminTypeOK, Live
      <3>2. record'[k] = record[k]
        BY <1>0, <2>1, <2>2, <3>1 DEF PrepareArchive, TypeOK, StoreTypeOK
      <3>3. QED
        BY <2>0, <2>1, <3>2
    <2>3. CASE ReplaceCatalog \/ DeleteFiles
      BY <2>0, <2>1, <2>3 DEF ReplaceCatalog, DeleteFiles, DeleteMedia, DeleteOriginals, DeleteInbox
    <2>4. CASE (FinishRecord \/ MarkDelete \/ WriteTombstone) /\ ~UNCHANGED record
      <3>1. /\ record[handler.id] # None
            /\ \A m \in Id \ {handler.id} : record'[m] = record[m]
            /\ record'[handler.id] = [state |-> Becomes, art |-> record[handler.id].art]
        BY <1>0, <2>4, RecordSet
      <3>2. record'[handler.id].art = record[handler.id].art
        BY <3>1
      <3>3. QED
        BY <2>0, <2>1, <3>1, <3>2
    <2>5. QED
      BY <1>4, <2>0, <2>1, <2>2, <2>3, <2>4 DEF HandlerWrites
  <1>5. QED
    BY <1>1, <1>2, <1>3, <1>4

\* A handover puts one new drawing under one id; every other step brings none.
HandsNew(i, a) ==
    /\ HandsOver(i, a)
    /\ a \notin Reported /\ \A k \in Id : a \notin Names(k)
    /\ \/ HandOverPage /\ i = PageId /\ a = PageArt
       \/ HandOverDownload /\ i = Activity.id /\ a = Activity.art

LEMMA NewOrOld ==
  ASSUME LifeInv, Next
  PROVE  \/ \E i \in Id, a \in Art : HandsNew(i, a)
         \/ Quiet \/ (\E i \in Id : ImportFiles(i) \/ ImportCatalog(i)) \/ HandlerWrites
  <1>0. IInv
    BY DEF LifeInv
  <1>1. CASE HandOverPage
    <2>1. HandsOver(PageId, PageArt) /\ PageId \in Id /\ PageArt \in Art
      BY <1>0, <1>1, HandedByJob
    <2>2. PageArt \notin Reported /\ \A i \in Id : PageArt \notin Names(i)
      BY <1>1, NewPage
    <2>3. QED
      BY <1>1, <2>1, <2>2 DEF HandsNew
  <1>2. CASE HandOverDownload
    <2>1. HandsOver(Activity.id, Activity.art) /\ Activity.id \in Id /\ Activity.art \in Art
      BY <1>0, <1>2, HandedByIngest
    <2>2. Activity.art \notin Reported /\ \A i \in Id : Activity.art \notin Names(i)
      BY <1>2, NewActivity
    <2>3. QED
      BY <1>2, <2>1, <2>2 DEF HandsNew
  <1>3. QED
    BY <1>0, <1>1, <1>2, StepMoves DEF Moves

LEMMA NamesDifferStep ==
  ASSUME LifeInv, Next
  PROVE  NamesDiffer'
  <1>0. IInv /\ TypeOK /\ NamesDiffer
    BY DEF LifeInv, IInv
  <1>1. ASSUME NEW i \in Id, NEW a \in Art, HandsNew(i, a)
        PROVE  NamesDiffer'
    <2>0. HandsOver(i, a) /\ (\A k \in Id : a \notin Names(k)) /\ UNCHANGED record
      BY <1>1 DEF HandsNew, HandsOver
    <2>1. \A k \in Id : Names(k)' \subseteq Names(k) \cup (IF k = i THEN {a} ELSE {})
      BY <1>0, <2>0, NamesHanded
    <2>2. \A k, m \in Id : k # m => Names(k)' \cap Names(m)' = {}
      BY <1>0, <2>0, <2>1 DEF NamesDiffer
    <2>3. ASSUME NEW k \in Id, Running(k)', record'[k] # None
          PROVE  record'[k].art # importer'[k].art
      <3>1. CASE k # i
        <4>1. importer'[k] = importer[k]
          BY <1>0, <2>0, <3>1, HandsOverFacts, ZenonT(60)
        <4>2. QED
          BY <1>0, <2>0, <2>3, <4>1 DEF NamesDiffer, Running
      <3>2. CASE k = i
        <4>1. importer'[k].art = a
          BY <1>0, <2>0, <3>2, HandsOverFacts
        <4>2. record[k].art \in Names(k)
          <5>1. record[k] \in Records
            BY <1>0, <2>0, <2>3 DEF TypeOK, StoreTypeOK, Maybe
          <5>2. record[k].art # None
            BY <5>1, StoreAssumption DEF Records
          <5>3. QED
            BY <2>0, <2>3, <5>2 DEF Names
        <4>3. QED
          BY <2>0, <4>1, <4>2
      <3>3. QED
        BY <3>1, <3>2
    <2>4. QED
      BY <2>2, <2>3 DEF NamesDiffer
  <1>2. CASE Quiet \/ (\E i \in Id : ImportFiles(i) \/ ImportCatalog(i)) \/ HandlerWrites
    <2>1. \A k \in Id : Names(k)' \subseteq Names(k)
      BY <1>0, <1>2, NamesMove
    <2>2. \A k \in Id : Running(k)' =>
             /\ Running(k) /\ importer'[k].art = importer[k].art
             /\ record'[k] # None => record[k] # None /\ record'[k].art = record[k].art
      BY <1>0, <1>2, RunningMoves
    <2>3. \A k, m \in Id : k # m => Names(k)' \cap Names(m)' = {}
      BY <1>0, <2>1 DEF NamesDiffer
    <2>4. \A k \in Id : Running(k)' /\ record'[k] # None => record'[k].art # importer'[k].art
      BY <1>0, <2>2 DEF NamesDiffer
    <2>5. QED
      BY <2>3, <2>4 DEF NamesDiffer
  <1>3. QED
    BY <1>1, <1>2, NewOrOld

LEMMA PagesNewStep ==
  ASSUME LifeInv, Next
  PROVE  PagesNew'
  <1>0. IInv /\ TypeOK /\ WorkerFacts /\ PagesNew
    BY DEF LifeInv, IInv
  <1> SUFFICES ASSUME NEW u \in UploadPages, NEW k \in Id, ToCome(u)'
               PROVE  ArtOf(u) \notin Names(k)'
    BY DEF PagesNew, ArtOf
  <1>1. ToCome(u) /\ (HandOverPage => u # <<worker.job, Page>>)
    BY <1>0, ToComeShrinks
  <1>2. ArtOf(u) \notin Names(k)
    BY <1>0, <1>1 DEF PagesNew
  <1>3. ASSUME NEW i \in Id, NEW a \in Art, HandsNew(i, a)
        PROVE  ArtOf(u) \notin Names(k)'
    <2>1. HandsOver(i, a)
      BY <1>3 DEF HandsNew
    <2>2. Names(k)' \subseteq Names(k) \cup {a}
      BY <1>0, <2>1, NamesHanded
    <2>3. ArtOf(u) # a
      <3>1. CASE HandOverPage /\ a = PageArt
        <4>1. <<worker.job, Page>> \in UploadPages /\ ArtOf(<<worker.job, Page>>) = PageArt
          BY <1>0, <3>1, InUploads DEF HandOverPage
        <4>2. QED
          BY <1>1, <3>1, <4>1, DrawingsDiffer DEF ArtOf
      <3>2. CASE HandOverDownload /\ a = Activity.art
        BY <3>2, NewActivity
      <3>3. QED
        BY <1>3, <3>1, <3>2 DEF HandsNew
    <2>4. QED
      BY <1>2, <2>2, <2>3
  <1>4. QED
    BY <1>0, <1>2, <1>3, NewOrOld, NamesMove

\* What an ingest remembers of an id: a receipt stays, and what was handed over gets one or stays so.
LEMMA ReceiptMoves ==
  ASSUME IInv, Next, NEW i \in Id
  PROVE  /\ receipt'[i] = receipt[i] \/ (WriteReceipt /\ i = Activity.id /\ receipt[i] = None
                                         /\ receipt'[i] = Activity.art)
         /\ receipt[i] # None \/ ingest[i] = "handed" => receipt'[i] # None \/ ingest'[i] = "handed"
         /\ HandOverDownload /\ i = Activity.id => ingest'[i] = "handed"
  <1>0. /\ TypeOK /\ DriveTypeOK /\ BridgeFacts
        /\ ingest \in [Id -> {"none", "partial", "preserved", "handed"}] /\ receipt \in [Id -> Maybe(Art)]
    BY DEF IInv, TypeOK, DriveTypeOK
  <1>a. HandOverDownload => ingest' = [ingest EXCEPT ![Activity.id] = "handed"] /\ UNCHANGED receipt
    BY DEF HandOverDownload
  <1>b. HandOverDownload /\ i = Activity.id => ingest'[i] = "handed"
    BY <1>0, <1>a
  <1>1. CASE UNCHANGED <<receipt, ingest>>
    BY <1>b, <1>1
  <1>2. CASE StartIngest
    <2>1. /\ ingest[Activity.id] = "none" /\ receipt[Activity.id] = None
          /\ ingest' = [ingest EXCEPT ![Activity.id] = "partial"] /\ UNCHANGED receipt
      BY <1>2 DEF StartIngest
    <2>2. QED
      BY <1>0, <1>b, <2>1
  <1>3. CASE Preserve
    <2>1. bridge.at = "download" /\ ingest' = [ingest EXCEPT ![Activity.id] = "preserved"] /\ UNCHANGED receipt
      BY <1>3 DEF Preserve
    <2>2. receipt[Activity.id] = None /\ ingest[Activity.id] # "handed"
      BY <1>0, <2>1 DEF BridgeFacts
    <2>3. QED
      BY <1>0, <1>b, <2>1, <2>2
  <1>4. CASE HandOverDownload
    BY <1>0, <1>a, <1>4
  <1>5. CASE WriteReceipt
    <2>1. /\ bridge.at = "import" /\ receipt' = [receipt EXCEPT ![Activity.id] = Activity.art]
          /\ ingest' = [ingest EXCEPT ![Activity.id] = "none"]
      BY <1>5 DEF WriteReceipt
    <2>2. receipt[Activity.id] = None /\ Activity.art \in Art
      BY <1>0, <2>1, ActivityInside DEF BridgeFacts
    <2>3. Activity.art # None
      BY <2>2, StoreAssumption
    <2>4. QED
      BY <1>0, <1>5, <1>b, <2>1, <2>2, <2>3
  <1>6. CASE (\E b \in BatchIds : ClaimMarker(b)) \/ ClaimRequest \/ AlreadyProcessed \/ IngestExits \/ BatchPasses
             \/ BatchFails \/ BridgeDies
    BY <1>1, <1>6 DEF ClaimMarker, ClaimRequest, AlreadyProcessed, IngestExits, BatchPasses, BatchFails, BridgeDies
  <1>7. QED
    BY <1>1, <1>2, <1>3, <1>4, <1>5, <1>6 DEF Next, DriveNext, BridgeStep, driveVars

LEMMA ActivitiesNewStep ==
  ASSUME LifeInv, Next
  PROVE  ActivitiesNew'
  <1>0. IInv /\ TypeOK /\ ActivitiesNew
    BY DEF LifeInv, IInv
  <1> SUFFICES ASSUME NEW x \in Activities, NEW k \in Id, x.art \in Names(k)'
               PROVE  receipt'[x.id] # None \/ ingest'[x.id] = "handed"
    BY DEF ActivitiesNew
  <1>1. x.id \in Id
    <2>1. PICK b \in BatchIds : \E n \in DOMAIN Batches[b] : x = Batches[b][n]
      BY DEF Activities
    <2>2. Batches[b] \in Seq([id : Id, art : Art])
      BY <2>1, BatchesAssumption DEF BatchIds
    <2>3. PICK n \in 1 .. Len(Batches[b]) : x = Batches[b][n]
      BY <2>1, <2>2
    <2>4. Batches[b][n] \in [id : Id, art : Art]
      BY <2>2, ElementInside
    <2>5. QED
      BY <2>3, <2>4
  <1>2. CASE x.art \in Names(k)
    BY <1>0, <1>1, <1>2, ReceiptMoves DEF ActivitiesNew
  <1>3. ASSUME NEW i \in Id, NEW a \in Art, HandsNew(i, a), x.art \notin Names(k)
        PROVE  receipt'[x.id] # None \/ ingest'[x.id] = "handed"
    <2>1. HandsOver(i, a)
      BY <1>3 DEF HandsNew
    <2>2. x.art = a
      BY <1>0, <1>3, <2>1, NamesHanded
    <2>3. CASE HandOverPage /\ a = PageArt
      BY <2>2, <2>3, NewPage
    <2>4. CASE HandOverDownload /\ a = Activity.art
      <3>1. x.id = Activity.id
        BY <2>2, <2>4, NewActivity
      <3>2. QED
        BY <1>0, <1>1, <2>4, <3>1, ReceiptMoves
    <2>5. QED
      BY <1>3, <2>3, <2>4 DEF HandsNew
  <1>4. QED
    BY <1>0, <1>2, <1>3, NewOrOld, NamesMove

LEMMA ReceiptsGivenStep ==
  ASSUME LifeInv, Next
  PROVE  ReceiptsGiven'
  <1>0. IInv /\ TypeOK /\ BridgeFacts /\ ReceiptsGiven
    BY DEF LifeInv, IInv
  <1> SUFFICES ASSUME NEW i \in Id, receipt'[i] # None
               PROVE  \E x \in Activities : x.id = i /\ x.art = receipt'[i]
    BY DEF ReceiptsGiven
  <1>1. CASE receipt'[i] = receipt[i]
    BY <1>0, <1>1 DEF ReceiptsGiven
  <1>2. CASE WriteReceipt /\ i = Activity.id /\ receipt'[i] = Activity.art
    <2>1. Activity \in Activities
      BY <1>0, <1>2, InActivities DEF WriteReceipt, BridgeFacts
    <2>2. QED
      BY <1>2, <2>1
  <1>3. QED
    BY <1>0, <1>1, <1>2, ReceiptMoves

LEMMA RunningUnreportedStep ==
  ASSUME LifeInv, Next
  PROVE  RunningUnreported'
  <1>0. IInv /\ TypeOK /\ Locked /\ OwnContainer /\ NamesDiffer /\ RunningUnreported
    BY DEF LifeInv, IInv
  <1> SUFFICES ASSUME NEW k \in Id, Running(k)'
               PROVE  importer'[k].art \notin Reported'
    BY DEF RunningUnreported
  <1>1. ASSUME NEW i \in Id, NEW a \in Art, HandsNew(i, a)
        PROVE  importer'[k].art \notin Reported'
    <2>0. HandsOver(i, a) /\ a \notin Reported
      BY <1>1 DEF HandsNew
    <2>1. UNCHANGED Reported
      <3>1. ~PageImported /\ ~WriteReceipt
        <4>1. CASE HandOverPage
          BY <1>0, <4>1 DEF HandOverPage, PageImported, WriteReceipt, Locked
        <4>2. CASE HandOverDownload
          BY <1>0, <4>2 DEF HandOverDownload, PageImported, WriteReceipt, Locked
        <4>3. QED
          BY <1>1, <4>1, <4>2 DEF HandsNew
      <3>2. QED
        BY <1>0, <3>1, ReportedMoves
    <2>2. CASE k = i
      <3>1. importer'[k].art = a
        BY <1>0, <2>0, <2>2, HandsOverFacts
      <3>2. QED
        BY <2>0, <2>1, <3>1
    <2>3. CASE k # i
      <3>1. importer'[k] = importer[k]
        BY <1>0, <2>0, <2>3, HandsOverFacts, ZenonT(60)
      <3>2. Running(k)
        BY <3>1 DEF Running
      <3>3. QED
        BY <1>0, <2>1, <3>1, <3>2 DEF RunningUnreported
    <2>4. QED
      BY <2>2, <2>3
  <1>2. CASE Quiet \/ (\E i \in Id : ImportFiles(i) \/ ImportCatalog(i)) \/ HandlerWrites
    <2>1. Running(k) /\ importer'[k].art = importer[k].art
      BY <1>0, <1>2, RunningMoves
    <2>2. importer[k].art \notin Reported
      BY <1>0, <2>1 DEF RunningUnreported
    \* What is reported is the drawing of a container that has ended, so of another id.
    <2>3. ASSUME NEW i \in Id, importer[i] # None, importer[i].at = "done"
          PROVE  importer[i].art # importer[k].art
      <3>1. i # k
        BY <2>1, <2>3 DEF Running
      <3>2. importer[k] # None /\ importer[k] \in Containers
        BY <1>0, <2>1 DEF Running, TypeOK, StoreTypeOK, Maybe
      <3>3. importer[k].art \in Names(k)
        BY <3>2, StoreAssumption DEF Names, Containers
      <3>4. importer[i].art = importer[k].art => importer[k].art \in Names(i)
        BY <2>3, <3>2, StoreAssumption DEF Names, Containers
      <3>5. QED
        BY <1>0, <3>1, <3>3, <3>4 DEF NamesDiffer
    <2>4. CASE PageImported /\ Reported' = Reported \cup {PageArt}
      <3>1. PageId \in Id /\ importer[PageId] # None /\ importer[PageId].at = "done" /\ importer[PageId].art = PageArt
        BY <1>0, <2>4, PageInside DEF IInv, PageImported, OwnContainer
      <3>2. QED
        BY <2>1, <2>2, <2>3, <2>4, <3>1
    <2>5. CASE WriteReceipt /\ Reported' = Reported \cup {Activity.art}
      <3>1. /\ Activity.id \in Id /\ importer[Activity.id] # None /\ importer[Activity.id].at = "done"
            /\ importer[Activity.id].art = Activity.art
        BY <1>0, <2>5, ActivityInside DEF IInv, WriteReceipt, OwnContainer, BridgeFacts
      <3>2. QED
        BY <2>1, <2>2, <2>3, <2>5, <3>1
    <2>6. QED
      BY <1>0, <2>1, <2>2, <2>4, <2>5, ReportedMoves
  <1>3. QED
    BY <1>1, <1>2, NewOrOld

\* While a request has the lock, nothing is reported.
LEMMA ReportedStays ==
  ASSUME IInv, Next, handler.at # "none"
  PROVE  UNCHANGED Reported
  <1>1. lock = "handler"
    BY DEF IInv, Locked
  <1>2. ~PageImported /\ ~WriteReceipt
    BY <1>1 DEF IInv, Locked, PageImported, WriteReceipt
  <1>3. QED
    BY <1>2, ReportedMoves

LEMMA OverlookedStep ==
  ASSUME LifeInv, Next
  PROVE  Overlooked'
  <1>0. IInv /\ TypeOK /\ AdminTypeOK /\ HandlerFacts /\ RunningUnreported /\ Overlooked
    BY DEF LifeInv, IInv, TypeOK
  <1> SUFFICES ASSUME handler'.at \in {"prepare", "check", "replace"},
                      NEW k \in Id, Live(k)', handler'.base[k] = None
               PROVE  catalog'[k] \notin Reported' /\ ~Restorable(k)'
    BY DEF Overlooked
  <1>1. CASE Request
    <2>1. handler'.base = catalog /\ UNCHANGED catalog
      BY <1>1 DEF Request, Edit, Archive, Restore, Delete, Admit
    <2>2. QED
      BY <2>1 DEF Live
  <1>2. CASE HandlerStep
    <2>0. handler.at # "none"
      BY <1>2 DEF HandlerStep, PrepareArchive, CheckCatalog, ReplaceCatalog, FinishRecord, MarkDelete, DeleteMedia,
         DeleteOriginals, DeleteInbox, WriteTombstone, HandlerFails
    <2>a. ~Release
      BY DEF Release, NoHandler
    <2>1. UNCHANGED Reported
      BY <1>0, <2>0, ReportedStays
    <2>2. \A place \in {"record", "media", "originals", "inbox", "tombstone"} : ~At(place)
      BY <1>0, HandlerMoves
    <2>3. CASE PrepareArchive
      <3>1. /\ handler.at = "prepare" /\ At("check") /\ UNCHANGED catalog
            /\ handler.base[handler.id] # None
        BY <1>0, <2>3 DEF PrepareArchive, HandlerFacts, AdminTypeOK
      <3>2. handler'.base = handler.base
        BY <1>0, <3>1, HandlerMoves
      <3>3. k # handler.id
        BY <3>1, <3>2
      <3>4. record'[k] = record[k]
        BY <1>0, <2>3, <3>3 DEF PrepareArchive, TypeOK, StoreTypeOK
      <3>5. QED
        BY <1>0, <2>1, <3>1, <3>2, <3>4 DEF Overlooked, Live, Restorable, ArchiveState
    <2>4. CASE CheckCatalog
      <3>1. handler.at = "check" /\ At("replace") /\ UNCHANGED <<catalog, record>>
        BY <2>4 DEF CheckCatalog, storeVars
      <3>2. handler'.base = handler.base
        BY <1>0, <3>1, HandlerMoves
      <3>3. QED
        BY <1>0, <2>1, <3>1, <3>2 DEF Overlooked, Live, Restorable, ArchiveState
    <2>5. QED
      BY <1>2, <2>a, <2>2, <2>3, <2>4 DEF HandlerStep, ReplaceCatalog, FinishRecord, MarkDelete, DeleteMedia,
         DeleteOriginals, DeleteInbox, WriteTombstone, HandlerFails
  <1>3. CASE Crash
    BY <1>3 DEF Crash, NoHandler
  <1>4. CASE (\E j \in Jobs : CreateJob(j)) \/ JobStep \/ Restart \/ ((DriveNext \/ Importer) /\ UNCHANGED adminVars)
    <2>0. UNCHANGED handler
      BY <1>4 DEF JobStep, CreateJob, StartJob, AllocateIds, HandOverPage, PageImported, PublishJob, JobFails,
         EndThread, Restart, adminVars
    <2>1. handler.at # "none"
      BY <2>0
    <2>2. UNCHANGED record /\ (catalog'[k] = catalog[k] \/ (Running(k) /\ catalog'[k] = importer[k].art))
      BY <1>0, <1>4, <2>1, BesideHandler
    <2>3. UNCHANGED Reported
      BY <1>0, <2>1, ReportedStays
    <2>4. CASE catalog'[k] = catalog[k]
      BY <1>0, <2>0, <2>2, <2>3, <2>4 DEF Overlooked, Live, Restorable, ArchiveState
    <2>5. CASE Running(k) /\ catalog'[k] = importer[k].art
      <3>1. ~Restorable(k)
        BY <1>0, <2>5 DEF IInv, StoreSound, SoundAt
      <3>2. QED
        BY <1>0, <2>2, <2>3, <2>5, <3>1 DEF RunningUnreported, Restorable, ArchiveState
    <2>6. QED
      BY <2>2, <2>4, <2>5
  <1>5. QED
    BY <1>1, <1>2, <1>3, <1>4 DEF Next, AdminNext

LEMMA LifeInvInit ==
  ASSUME Init
  PROVE  LifeInv
  <1>1. IInv
    BY InvInit
  <1>2. /\ catalog = [i \in Id |-> IF i \in Archived THEN None ELSE Initial[i]]
        /\ record = [i \in Id |-> IF i \in Archived THEN [state |-> "archived", art |-> Initial[i]] ELSE None]
        /\ importer = [i \in Id |-> None] /\ handler = NoHandler /\ receipt = [i \in Id |-> None]
    BY DEF Init, StoreInit, AdminInit, DriveInit
  <1>3. ASSUME NEW i \in Id
        PROVE  Names(i) \subseteq {Initial[i]} \ {None}
    <2>1. importer[i] = None
      BY <1>2
    <2>2. CASE i \in Archived
      <3>1. catalog[i] = None /\ record[i] = [state |-> "archived", art |-> Initial[i]]
        BY <1>2, <2>2
      <3>2. record[i].art = Initial[i]
        BY <3>1
      <3>3. QED
        BY <2>1, <3>1, <3>2 DEF Names
    <2>3. CASE i \notin Archived
      BY <1>2, <2>1, <2>3 DEF Names
    <2>4. QED
      BY <2>2, <2>3
  <1>4. NamesDiffer
    BY <1>2, <1>3, DrawingsDiffer DEF NamesDiffer, Running
  <1>5. PagesNew /\ ActivitiesNew
    BY <1>3, DrawingsDiffer DEF PagesNew, ActivitiesNew, ArtOf
  <1>6. ReceiptsGiven /\ RunningUnreported /\ Overlooked
    BY <1>2 DEF ReceiptsGiven, RunningUnreported, Running, Overlooked, NoHandler
  <1>7. QED
    BY <1>1, <1>4, <1>5, <1>6 DEF LifeInv

LEMMA LifeInvStep ==
  ASSUME LifeInv, [Next]_vars
  PROVE  LifeInv'
  <1>0. IInv'
    BY InvStep DEF LifeInv
  <1>1. CASE Next
    BY <1>0, <1>1, NamesDifferStep, PagesNewStep, ActivitiesNewStep, ReceiptsGivenStep, RunningUnreportedStep,
       OverlookedStep DEF LifeInv
  <1>2. CASE UNCHANGED vars
    <2>1. UNCHANGED <<storeVars, adminVars, driveVars>>
      BY <1>2 DEF vars
    <2>2. NamesDiffer' = NamesDiffer /\ PagesNew' = PagesNew /\ ActivitiesNew' = ActivitiesNew
      BY <2>1 DEF storeVars, adminVars, driveVars, NamesDiffer, PagesNew, ActivitiesNew, Names, Running, ToCome, ArtOf, Page
    <2>3. ReceiptsGiven' = ReceiptsGiven /\ RunningUnreported' = RunningUnreported
      BY <2>1 DEF storeVars, adminVars, driveVars, ReceiptsGiven, RunningUnreported, Running, Reported, Listed
    <2>4. Overlooked' = Overlooked
      BY <2>1 DEF storeVars, adminVars, driveVars, Overlooked, Live, Restorable, ArchiveState, Reported, Listed
    <2>5. QED
      BY <1>0, <2>2, <2>3, <2>4 DEF LifeInv
  <1>3. QED
    BY <1>1, <1>2

LEMMA LifeInvariance == Spec => []LifeInv
  BY LifeInvInit, LifeInvStep, PTL DEF Spec

-----------------------------------------------------------------------------
(* The refinement.                                                             *)

Pages == [i \in Id |-> LifeOf(i)]

LEMMA LifeInit ==
  ASSUME Init
  PROVE  Life!Init
  <1>1. /\ catalog = [i \in Id |-> IF i \in Archived THEN None ELSE Initial[i]]
        /\ record = [i \in Id |-> IF i \in Archived THEN [state |-> "archived", art |-> Initial[i]] ELSE None]
        /\ receipt = [i \in Id |-> None] /\ jobs = [j \in Jobs |-> [status |-> "none", results |-> 0]]
    BY DEF Init, StoreInit, AdminInit, DriveInit
  <1>2. ASSUME NEW i \in Id
        PROVE  LifeOf(i) = IF Initial[i] = None THEN Life!Absent ELSE
                           [is |-> IF i \in Archived THEN "archived" ELSE "live", art |-> Initial[i]]
    <2>1. CASE i \in Archived
      <3>1. catalog[i] = None /\ record[i] = [state |-> "archived", art |-> Initial[i]] /\ Initial[i] # None
        BY <1>1, <2>1, StoreAssumption
      <3>2. record[i].art = Initial[i] /\ record[i].state = "archived"
        BY <3>1
      <3>3. record[i] # None
        BY <1>1, <2>1, InvInit, StoreAssumption DEF IInv, TypeOK, StoreTypeOK, Maybe, Records, ArchiveStates
      <3>4. QED
        BY <2>1, <3>1, <3>2, <3>3 DEF LifeOf, Live, Restorable, ArchiveState
    <2>2. CASE i \notin Archived
      BY <1>1, <2>2 DEF LifeOf, Live, Restorable, ArchiveState, Life!Absent
    <2>3. QED
      BY <2>1, <2>2
  <1>3. Reported = {Initial[i] : i \in Id} \ {None}
    <2>1. Listed = {}
      BY <1>1 DEF Listed
    <2>2. QED
      BY <1>1, <2>1 DEF Reported
  <1>4. QED
    BY <1>2, <1>3 DEF Life!Init

LEMMA LifeKept ==
  ASSUME NEW i \in Id, catalog'[i] = catalog[i], record'[i] = record[i]
  PROVE  LifeOf(i)' = LifeOf(i)
  BY DEF LifeOf, Live, Restorable, ArchiveState

\* A container that ends publishes its page.
LEMMA Publishes ==
  ASSUME LifeInv, Next, NEW i \in Id, ImportCatalog(i)
  PROVE  Life!Publish(i, importer[i].art) /\ importer[i].art \in Art
  <1>0. IInv /\ TypeOK /\ NamesDiffer
    BY DEF LifeInv, IInv
  <1>1. /\ Running(i) /\ ~Live(i) /\ ~Restorable(i) /\ UNCHANGED record
        /\ importer[i] # None /\ importer[i].art \in Art /\ importer[i].art # None
        /\ catalog'[i] = importer[i].art /\ \A k \in Id \ {i} : catalog'[k] = catalog[k]
    <2>1. Running(i) /\ UNCHANGED record
      BY DEF ImportCatalog
    <2>2. ~Live(i) /\ ~Restorable(i) /\ importer[i] # None
      BY <1>0, <2>1 DEF IInv, StoreSound, SoundAt, Running
    <2>3. /\ importer[i].art \in Art /\ catalog'[i] = importer[i].art
          /\ \A k \in Id \ {i} : catalog'[k] = catalog[k]
      BY <1>0, ImportCatalogFacts
    <2>4. QED
      BY <2>1, <2>2, <2>3, StoreAssumption
  <1>2. UNCHANGED Reported
    <2>1. ~PageImported /\ ~WriteReceipt
      BY <1>1 DEF PageImported, WriteReceipt, Live
    <2>2. QED
      BY <1>0, <2>1, ReportedMoves
  <1>3. LifeOf(i).is \in {"absent", "deleted"}
    BY <1>1 DEF LifeOf
  <1>4. ASSUME NEW k \in Id
        PROVE  LifeOf(k).art # importer[i].art
    <2>1. LifeOf(k).art \in {catalog[k], None} \/ (record[k] # None /\ LifeOf(k).art = record[k].art)
      BY DEF LifeOf, Restorable, ArchiveState
    <2>2. CASE k = i
      <3>1. catalog[k] = None
        BY <1>1, <2>2 DEF Live
      <3>2. QED
        BY <1>0, <1>1, <2>1, <2>2, <3>1 DEF NamesDiffer
    <2>3. CASE k # i
      <3>1. importer[i].art \in Names(i)
        BY <1>1 DEF Names
      <3>2. importer[i].art \notin Names(k)
        BY <1>0, <2>3, <3>1 DEF NamesDiffer
      <3>3. QED
        BY <1>1, <2>1, <3>2 DEF Names
    <2>4. QED
      BY <2>2, <2>3
  <1>5. LifeOf(i)' = [is |-> "live", art |-> importer[i].art]
    BY <1>1 DEF LifeOf, Live
  <1>6. \A k \in Id \ {i} : LifeOf(k)' = LifeOf(k)
    BY <1>1, LifeKept
  <1>7. Pages' = [Pages EXCEPT ![i] = [is |-> "live", art |-> importer[i].art]]
    BY <1>5, <1>6 DEF Pages
  <1>8. QED
    BY <1>1, <1>2, <1>3, <1>4, <1>7 DEF Life!Publish, Pages

\* What a handler writes leaves the other pages alone, or loses one it has overlooked.
LEMMA OthersStay ==
  ASSUME LifeInv, ReplaceCatalog, NEW k \in Id, k # handler.id
  PROVE  LifeOf(k)' = LifeOf(k) \/ Life!Vanishes(k)
  <1>0. TypeOK /\ HandlerFacts /\ Overlooked
    BY DEF LifeInv, IInv
  <1>1. handler.at = "replace" /\ UNCHANGED record /\ catalog'[k] = handler.base[k]
    BY <1>0, CandidatePages DEF ReplaceCatalog
  <1>2. CASE handler.base[k] # None
    <2>1. catalog'[k] = catalog[k]
      BY <1>0, <1>1, <1>2 DEF HandlerFacts
    <2>2. QED
      BY <1>1, <2>1, LifeKept
  <1>3. CASE handler.base[k] = None /\ ~Live(k)
    BY <1>1, <1>3, LifeKept DEF Live
  <1>4. CASE handler.base[k] = None /\ Live(k)
    <2>1. catalog[k] \notin Reported /\ ~Restorable(k)
      BY <1>0, <1>1, <1>4 DEF Overlooked
    <2>2. LifeOf(k) = [is |-> "live", art |-> catalog[k]]
      BY <1>4 DEF LifeOf
    <2>3. ~Live(k)' /\ ~Restorable(k)'
      BY <1>1, <1>4, <2>1 DEF Live, Restorable, ArchiveState
    <2>4. LifeOf(k)' \in [is : {"deleted"}, art : Art] \cup {Life!Absent}
      <3>1. record'[k] # None => record'[k].art \in Art
        BY <1>0, <1>1 DEF TypeOK, StoreTypeOK, Maybe, Records
      <3>2. QED
        BY <2>3, <3>1 DEF LifeOf, Restorable, ArchiveState, Life!Absent
    <2>5. QED
      BY <2>1, <2>2, <2>4 DEF Life!Vanishes
  <1>5. QED
    BY <1>2, <1>3, <1>4

\* A written catalogue archives or restores a page, or leaves it as it was.
LEMMA Replaces ==
  ASSUME LifeInv, Next, ReplaceCatalog
  PROVE  \E i \in Id : Life!Archive(i) \/ Life!Restore(i) \/ Life!Edit(i)
  <1>0. IInv /\ TypeOK /\ HandlerFacts
    BY DEF LifeInv, IInv
  <1>1. handler.at = "replace" /\ catalog' = Candidate /\ UNCHANGED record
    BY DEF ReplaceCatalog
  <1>2. handler.id \in Id /\ UNCHANGED Reported
    BY <1>0, <1>1, HandlerPage, ReportedStays
  <1>3. PICK i \in Id : i = handler.id
    BY <1>2
  <1>4. \A k \in Id \ {i} : LifeOf(k)' = LifeOf(k) \/ Life!Vanishes(k)
    BY <1>3, OthersStay
  <1>a. \A k \in Id \ {i} : Pages'[k] = Pages[k] \/ Life!Vanishes(k)
    BY <1>4 DEF Pages
  <1>5. CASE handler.op = "edit"
    <2>1. handler.base[i] # None /\ catalog[i] = handler.base[i] /\ catalog'[i] = handler.base[i]
      BY <1>0, <1>1, <1>3, <1>5, CandidatePages DEF HandlerFacts
    <2>2. LifeOf(i) = [is |-> "live", art |-> catalog[i]] /\ LifeOf(i)' = [is |-> "live", art |-> catalog[i]]
      BY <2>1 DEF LifeOf, Live
    <2>3. Life!Edit(i)
      BY <1>2, <1>a, <2>2 DEF Life!Edit, Life!Move, Pages
    <2>4. QED
      BY <2>3
  <1>6. CASE handler.op = "archive"
    <2>1. /\ handler.base[i] # None /\ catalog[i] = handler.base[i] /\ catalog'[i] = None
          /\ record[i] = [state |-> "prepared", art |-> handler.base[i]] /\ record[i] # None
      BY <1>0, <1>1, <1>3, <1>6, CandidatePages, HandlerPage DEF HandlerFacts
    <2>2. record'[i] # None /\ record'[i].state = "prepared" /\ record'[i].art = catalog[i]
      BY <1>1, <2>1
    <2>3. LifeOf(i) = [is |-> "live", art |-> catalog[i]]
      BY <2>1 DEF LifeOf, Live
    <2>4. LifeOf(i)' = [is |-> "archived", art |-> catalog[i]]
      BY <2>1, <2>2 DEF LifeOf, Live, Restorable, ArchiveState
    <2>5. Life!Archive(i)
      BY <1>2, <1>a, <2>3, <2>4 DEF Life!Archive, Life!Move, Pages
    <2>6. QED
      BY <2>5
  <1>7. CASE handler.op = "restore"
    <2>1. ~Live(i) /\ Restorable(i) /\ catalog'[i] = record[i].art /\ record[i].art \in Art
      BY <1>0, <1>1, <1>3, <1>7, CandidatePages DEF HandlerFacts
    <2>2. LifeOf(i) = [is |-> "archived", art |-> record[i].art]
      BY <2>1 DEF LifeOf
    <2>3. LifeOf(i)' = [is |-> "live", art |-> record[i].art]
      BY <2>1, StoreAssumption DEF LifeOf, Live
    <2>4. Life!Restore(i)
      BY <1>2, <1>a, <2>2, <2>3 DEF Life!Restore, Life!Move, Pages
    <2>5. QED
      BY <2>4
  <1>8. QED
    BY <1>0, <1>1, <1>5, <1>6, <1>7, CandidatePages

\* The mark on a record is the deletion: what follows removes files.
LEMMA Deletes ==
  ASSUME LifeInv, Next, MarkDelete
  PROVE  \E i \in Id : Life!Delete(i)
  <1>0. IInv /\ TypeOK /\ AdminTypeOK /\ HandlerFacts
    BY DEF LifeInv, IInv, TypeOK
  <1>1. handler.at = "mark" /\ UNCHANGED catalog
    BY DEF MarkDelete
  <1>2. handler.id \in Id /\ UNCHANGED Reported
    BY <1>0, <1>1, HandlerPage, ReportedStays
  <1>3. handler.op = "delete"
    BY <1>0, <1>1 DEF HandlerFacts, AdminTypeOK
  <1>4. PICK i \in Id : i = handler.id
    BY <1>2
  <1>5. ~Live(i) /\ ArchiveState(i) = "archived"
    BY <1>0, <1>1, <1>3, <1>4 DEF HandlerFacts
  <1>6. /\ record'[i] # None /\ record'[i] = [state |-> "delete-prepared", art |-> record[i].art]
        /\ \A k \in Id \ {i} : record'[k] = record[k]
    BY <1>0, <1>1, <1>3, <1>4, RecordSet DEF Becomes
  <1>7. record'[i].state = "delete-prepared" /\ record'[i].art = record[i].art
    BY <1>6
  <1>8. LifeOf(i) = [is |-> "archived", art |-> record[i].art]
    BY <1>5 DEF LifeOf, Restorable
  <1>9. LifeOf(i)' = [is |-> "deleted", art |-> record[i].art]
    BY <1>1, <1>5, <1>6, <1>7 DEF LifeOf, Live, Restorable, ArchiveState
  <1>10. \A k \in Id \ {i} : LifeOf(k)' = LifeOf(k)
    BY <1>1, <1>6, LifeKept
  <1>11. Life!Delete(i)
    BY <1>2, <1>8, <1>9, <1>10 DEF Life!Delete, Life!Move
  <1>12. QED
    BY <1>11

\* Before and after the catalogue and the mark, a handler's records say what is so already.
LEMMA RecordsFollow ==
  ASSUME LifeInv, Next, PrepareArchive \/ FinishRecord \/ DeleteFiles \/ WriteTombstone
  PROVE  (\A k \in Id : LifeOf(k)' = LifeOf(k)) /\ UNCHANGED Reported
  <1>0. IInv /\ TypeOK /\ AdminTypeOK /\ HandlerFacts
    BY DEF LifeInv, IInv, TypeOK
  <1>1. handler.at # "none" /\ UNCHANGED catalog
    BY DEF PrepareArchive, FinishRecord, DeleteFiles, DeleteMedia, DeleteOriginals, DeleteInbox, WriteTombstone
  <1>2. handler.id \in Id /\ UNCHANGED Reported
    BY <1>0, <1>1, HandlerPage, ReportedStays
  <1>a. PICK i \in Id : i = handler.id
    BY <1>2
  <1>3. CASE UNCHANGED record
    BY <1>1, <1>2, <1>3, LifeKept
  <1>4. CASE PrepareArchive
    <2>1. Live(i)
      BY <1>0, <1>a, <1>4 DEF PrepareArchive, HandlerFacts, AdminTypeOK, Live
    <2>2. LifeOf(i)' = LifeOf(i)
      BY <1>1, <2>1 DEF LifeOf, Live
    <2>3. \A k \in Id \ {i} : record'[k] = record[k]
      BY <1>0, <1>a, <1>4 DEF PrepareArchive, TypeOK, StoreTypeOK
    <2>4. QED
      BY <1>1, <1>2, <2>2, <2>3, LifeKept
  <1>5. CASE (FinishRecord \/ WriteTombstone) /\ ~UNCHANGED record
    <2>1. /\ handler.op \in {"archive", "restore", "delete"} /\ record[i] # None /\ record'[i] # None
          /\ \A k \in Id \ {i} : record'[k] = record[k]
          /\ record'[i] = [state |-> Becomes, art |-> record[i].art]
      BY <1>0, <1>a, <1>5, RecordSet
    <2>2. record'[i].state = Becomes /\ record'[i].art = record[i].art
      BY <2>1
    <2>3. LifeOf(i)' = LifeOf(i)
      <3>1. CASE handler.op = "archive"
        <4>1. handler.at = "record" /\ catalog = Candidate
          BY <1>0, <1>5, <3>1 DEF HandlerFacts, FinishRecord, WriteTombstone
        <4>2. ~Live(i)
          BY <1>0, <1>a, <3>1, <4>1, CandidatePages DEF Live
        <4>3. record[i] = [state |-> "prepared", art |-> handler.base[i]]
          BY <1>0, <1>a, <3>1, <4>1 DEF HandlerFacts
        <4>4. record[i].state = "prepared"
          BY <4>3
        <4>5. QED
          BY <1>1, <2>1, <2>2, <3>1, <4>2, <4>4 DEF Becomes, LifeOf, Live, Restorable, ArchiveState
      <3>2. CASE handler.op = "restore"
        <4>1. handler.at = "record" /\ catalog = Candidate
          BY <1>0, <1>5, <3>2 DEF HandlerFacts, FinishRecord, WriteTombstone
        <4>2. catalog[i] \in Art
          BY <1>0, <1>a, <3>2, <4>1, CandidatePages
        <4>3. QED
          BY <1>1, <4>2, StoreAssumption DEF LifeOf, Live
      <3>3. CASE handler.op = "delete"
        <4>1. handler.at = "tombstone"
          BY <1>0, <1>5, <3>3 DEF HandlerFacts, FinishRecord, WriteTombstone
        <4>2. record[i].state = "delete-prepared"
          BY <1>0, <1>a, <2>1, <3>3, <4>1 DEF HandlerFacts, ArchiveState
        <4>3. QED
          BY <1>1, <2>1, <2>2, <3>3, <4>1, <4>2 DEF Becomes, LifeOf, Live, Restorable, ArchiveState
      <3>4. QED
        BY <2>1, <3>1, <3>2, <3>3
    <2>4. QED
      BY <1>1, <1>2, <2>1, <2>3, LifeKept
  <1>6. QED
    BY <1>3, <1>4, <1>5 DEF DeleteFiles, DeleteMedia, DeleteOriginals, DeleteInbox

\* What is reported is published.
LEMMA Reports ==
  ASSUME LifeInv, Next, UNCHANGED <<catalog, record>>, ~UNCHANGED Reported
  PROVE  \E a \in Art : Life!Report(a)
  <1>0. IInv /\ TypeOK /\ WorkerFacts /\ BridgeFacts /\ OwnContainer
    BY DEF LifeInv, IInv
  <1>1. Pages' = Pages
    BY LifeKept DEF Pages
  <1>2. \A i \in Id, a \in Art : catalog[i] = a => Pages[i] = [is |-> "live", art |-> a]
    BY StoreAssumption DEF Pages, LifeOf, Live
  <1>3. \E i \in Id, a \in Art : catalog[i] = a /\ Reported' = Reported \cup {a}
    <2>1. CASE PageImported /\ Reported' = Reported \cup {PageArt}
      <3>1. PageId \in Id /\ PageArt \in Art /\ catalog[PageId] = PageArt
        BY <1>0, <2>1, PageInside DEF PageImported, OwnContainer
      <3>2. QED
        BY <2>1, <3>1
    <2>2. CASE WriteReceipt /\ Reported' = Reported \cup {Activity.art}
      <3>1. Activity.id \in Id /\ Activity.art \in Art /\ catalog[Activity.id] = Activity.art
        BY <1>0, <2>2, ActivityInside DEF WriteReceipt, BridgeFacts, Verified
      <3>2. QED
        BY <2>2, <3>1
    <2>3. QED
      BY <1>0, <2>1, <2>2, ReportedMoves
  <1>4. PICK i \in Id, a \in Art : catalog[i] = a /\ Reported' = Reported \cup {a}
    BY <1>3
  <1>5. Life!Report(a)
    BY <1>1, <1>2, <1>4 DEF Life!Report, Pages
  <1>6. QED
    BY <1>5

LEMMA LifeStep == LifeInv /\ [Next]_vars => [Life!Next]_<<Pages, Reported>>
  <1> SUFFICES ASSUME LifeInv, [Next]_vars PROVE [Life!Next]_<<Pages, Reported>>
    OBVIOUS
  <1>0. IInv
    BY DEF LifeInv
  <1>1. CASE Next /\ UNCHANGED <<catalog, record>>
    <2>1. Pages' = Pages
      BY <1>1, LifeKept DEF Pages
    <2>2. CASE UNCHANGED Reported
      BY <2>1, <2>2
    <2>3. CASE ~UNCHANGED Reported
      BY <1>1, <2>3, Reports DEF Life!Next
    <2>4. QED
      BY <2>2, <2>3
  <1>2. ASSUME NEW i \in Id, Next, ImportCatalog(i)
        PROVE  Life!Next
    BY <1>2, Publishes DEF Life!Next
  <1>3. CASE Next /\ ReplaceCatalog
    BY <1>3, Replaces DEF Life!Next
  <1>4. CASE Next /\ MarkDelete
    BY <1>4, Deletes DEF Life!Next
  <1>5. CASE Next /\ (PrepareArchive \/ FinishRecord \/ DeleteFiles \/ WriteTombstone)
    BY <1>5, RecordsFollow DEF Pages
  <1>6. CASE Next /\ ~UNCHANGED <<catalog, record>>
    <2>1. (\E i \in Id : ImportCatalog(i)) \/ HandlerWrites
      BY <1>0, <1>6, StepMoves DEF Moves, Quiet, Files, HandOverPage, HandOverDownload, ImportFiles
    <2>2. QED
      BY <1>2, <1>3, <1>4, <1>5, <1>6, <2>1 DEF HandlerWrites
  <1>7. CASE UNCHANGED vars
    <2>1. UNCHANGED <<storeVars, adminVars, driveVars>>
      BY <1>7 DEF vars
    <2>2. UNCHANGED <<Pages, Reported>>
      BY <2>1, LifeKept DEF storeVars, adminVars, driveVars, Pages, Reported, Listed
    <2>3. QED
      BY <2>2
  <1>8. QED
    BY <1>1, <1>6, <1>7

\* The admin publisher, the request bridge and their containers implement PageLife: a page is
\* published, archived, restored and deleted only in its ways, whatever dies between two steps,
\* and what a job or a receipt has reported as published is never lost.
THEOREM Refinement == Spec => ImplementsPageLife
  <1>1. Init => Life!Init
    BY LifeInit
  <1>2. LifeInv /\ [Next]_vars => [Life!Next]_<<[i \in Id |-> LifeOf(i)], Reported>>
    BY LifeStep DEF Pages
  <1>3. QED
    BY <1>1, <1>2, LifeInvariance, PTL DEF Spec, ImplementsPageLife, Life!Spec
=============================================================================
