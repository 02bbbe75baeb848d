---------------------------- MODULE AdminPublish ----------------------------
(* coloring-pages-admin-publish: a service with one thread per request and   *)
(* one thread for the publication job. Of the requests that change the        *)
(* catalogue one at a time gets past the lock, so one handler is modelled: a  *)
(* request that finds the lock taken, a stale If-Match or a failing check      *)
(* changes nothing. The job's thread takes the same lock, but lists its        *)
(* results, looks at the public site and finishes without it.                  *)
EXTENDS ContentStore

CONSTANTS
    Uploads,    \* a sequence of uploads, each the sequence of its drawings
    MaxHandled, \* bound on requests that get past the lock
    Faults      \* subset of {"crash", "write_error"}

\* An upload has a page at least.
ASSUME AdminAssumption ==
    /\ Uploads \in Seq(Seq(Art) \ {<<>>}) /\ MaxHandled \in Nat
    /\ Faults \subseteq {"crash", "write_error"}

VARIABLES
    up,       \* the service runs
    jobs,     \* jobs/<job>/job.json: status, and how many pages its results list
    worker,   \* the thread of the active job
    ending,   \* the jobs whose threads have written "published" and still run
    handler,  \* the request past the lock
    handled

adminVars == <<up, jobs, worker, ending, handler, handled>>

Jobs == DOMAIN Uploads
Active == {"queued", "running"}
NoWorker == [job |-> 0, at |-> "none", ids |-> <<>>]
NoHandler == [op |-> "none", id |-> None, base |-> None, at |-> "none"]

AdminTypeOK ==
    /\ up \in BOOLEAN
    /\ jobs \in [Jobs -> [status : {"none", "failed", "published"} \cup Active, results : Nat]]
    /\ worker \in [job : Jobs \cup {0}, ids : Seq(Id),
                   at : {"none", "queued", "allocate", "stage", "import", "verify"}]
    /\ ending \subseteq Jobs
    /\ handler \in [op : {"none", "edit", "archive", "restore", "delete"},
                    id : Maybe(Id), base : Maybe([Id -> Maybe(Art)]),
                    at : {"none", "prepare", "check", "replace", "record",
                          "mark", "media", "originals", "inbox", "tombstone"}]
    /\ handled \in 0 .. MaxHandled

AdminInit ==
    /\ up = TRUE /\ worker = NoWorker /\ ending = {} /\ handler = NoHandler /\ handled = 0
    /\ jobs = [j \in Jobs |-> [status |-> "none", results |-> 0]]

-----------------------------------------------------------------------------
(* The publication job.                                                       *)

ActiveJobs == {j \in Jobs : jobs[j].status \in Active}
Page == jobs[worker.job].results + 1
PageId == worker.ids[Page]
PageArt == Uploads[worker.job][Page]

\* A variant: a second tab's request starts a second thread.
CreateBeside(j) ==
    /\ up /\ jobs[j].status = "none"
    /\ \A k \in 1 .. j - 1 : jobs[k].status # "none"
    /\ jobs' = [jobs EXCEPT ![j].status = "queued"]
    /\ worker' = [NoWorker EXCEPT !.job = j, !.at = "queued"]
    /\ UNCHANGED <<storeVars, up, ending, handler, handled>>

CreateJob(j) ==
    /\ up /\ jobs[j].status = "none" /\ ActiveJobs = {}
    /\ \A k \in 1 .. j - 1 : jobs[k].status # "none"
    /\ jobs' = [jobs EXCEPT ![j].status = "queued"]
    /\ worker' = [NoWorker EXCEPT !.job = j, !.at = "queued"]
    /\ UNCHANGED <<storeVars, up, ending, handler, handled>>

StartJob ==
    /\ worker.at = "queued" /\ lock = None
    /\ lock' = "job"
    /\ jobs' = [jobs EXCEPT ![worker.job].status = "running"]
    /\ worker' = [worker EXCEPT !.at = "allocate"]
    /\ UNCHANGED <<catalog, record, inbox, originals, media, importer, up, ending, handler, handled>>

\* Random ids that neither the catalogue nor any archive record has.
AllocateIds ==
    /\ worker.at = "allocate"
    /\ \E ids \in [1 .. Len(Uploads[worker.job]) -> Id \ Reserved] :
          /\ \A p, q \in DOMAIN ids : p # q => ids[p] # ids[q]
          /\ worker' = [worker EXCEPT !.at = "stage", !.ids = ids]
    /\ UNCHANGED <<storeVars, up, jobs, ending, handler, handled>>

HandOverPage ==
    /\ worker.at = "stage"
    /\ PageId \notin Reserved /\ NoFiles(PageId)
    /\ HandOver(PageId, PageArt)
    /\ worker' = [worker EXCEPT !.at = "import"]
    /\ UNCHANGED <<catalog, record, originals, media, lock, up, jobs, ending, handler, handled>>

\* The importer has returned: the result is listed, and the next page begins or the lock is freed.
PageImported ==
    /\ worker.at = "import" /\ importer[PageId].at = "done"
    /\ importer' = Abandoned(PageId)
    /\ jobs' = [jobs EXCEPT ![worker.job].results = @ + 1]
    /\ IF Page = Len(Uploads[worker.job])
       THEN lock' = None /\ worker' = [worker EXCEPT !.at = "verify"]
       ELSE UNCHANGED lock /\ worker' = [worker EXCEPT !.at = "stage"]
    /\ UNCHANGED <<catalog, record, inbox, originals, media, up, ending, handler, handled>>

\* Each page is reachable in public.
PublishJob ==
    /\ worker.at = "verify"
    /\ jobs' = [jobs EXCEPT ![worker.job].status = "published"]
    /\ worker' = NoWorker /\ ending' = ending \cup {worker.job}
    /\ UNCHANGED <<storeVars, up, handler, handled>>

\* The thread logs the end. A log that fails turns the status into "failed"; by then
\* another job may be queued or running.
EndThread(j) ==
    /\ j \in ending /\ ending' = ending \ {j}
    /\ UNCHANGED jobs \/ jobs' = [jobs EXCEPT ![j].status = "failed"]
    /\ UNCHANGED <<storeVars, up, worker, handler, handled>>

LetGo(who) == lock' = IF lock = who THEN None ELSE lock
\* What is left of the thread's container when the thread is gone.
LeftByWorker == IF worker.at = "import" THEN Abandoned(PageId) ELSE importer

\* A variant: a tool may run for as long as it likes.
JobFailsUntimed ==
    /\ worker.at # "none" /\ (worker.at = "import" => ~Running(PageId))
    /\ LetGo("job") /\ importer' = LeftByWorker /\ worker' = NoWorker
    /\ jobs' = [jobs EXCEPT ![worker.job].status = "failed"]
    /\ UNCHANGED <<catalog, record, inbox, originals, media, up, ending, handler, handled>>

\* Any check or tool fails, the lock is taken, or a tool outlives its 180 seconds (its
\* container runs on). The handler's own write can fail and is not repeated.
JobFails ==
    /\ worker.at # "none"
    /\ LetGo("job") /\ importer' = LeftByWorker /\ worker' = NoWorker
    /\ \/ jobs' = [jobs EXCEPT ![worker.job].status = "failed"]
       \/ "write_error" \in Faults /\ UNCHANGED jobs
    /\ UNCHANGED <<catalog, record, inbox, originals, media, up, ending, handler, handled>>

JobStep ==
    \/ StartJob \/ AllocateIds \/ HandOverPage \/ PageImported \/ PublishJob \/ JobFails
    \/ \E j \in Jobs : EndThread(j)

-----------------------------------------------------------------------------
(* Requests that change the catalogue. base is the catalogue as the handler    *)
(* loaded it; write_catalog compares it once more before it replaces the file. *)

At(place) == handler' = [handler EXCEPT !.at = place]
Release == lock' = None /\ handler' = NoHandler

Admit(op, i, place) ==
    /\ up /\ lock = None /\ handled < MaxHandled
    /\ lock' = "handler" /\ handled' = handled + 1
    /\ handler' = [op |-> op, id |-> i, base |-> catalog, at |-> place]
    /\ UNCHANGED <<catalog, record, inbox, originals, media, importer, up, jobs, worker, ending>>

Edit(i)    == Live(i) /\ Admit("edit", i, "check")
Archive(i) == Live(i) /\ record[i] = None /\ Admit("archive", i, "prepare")

\* A variant: whatever has a record can be restored.
RestoreAny(i) == ~Live(i) /\ record[i] # None /\ Admit("restore", i, "check")

Restore(i) == ~Live(i) /\ ArchiveState(i) \in {"prepared", "archived"} /\ Admit("restore", i, "check")

Delete(i) ==
    /\ ~Live(i) /\ ArchiveState(i) = "archived" /\ originals[i] # None /\ media[i] # None
    /\ Admit("delete", i, "mark")

SetRecord(state) ==
    record' = [record EXCEPT ![handler.id].state = state]

\* A variant: the catalogue is written before anything is on record.
PrepareNothing ==
    /\ handler.at = "prepare"
    /\ At("check")
    /\ UNCHANGED <<storeVars, up, jobs, worker, ending, handled>>

PrepareArchive ==
    /\ handler.at = "prepare"
    /\ record' = [record EXCEPT ![handler.id] = [state |-> "prepared", art |-> handler.base[handler.id]]]
    /\ At("check")
    /\ UNCHANGED <<catalog, inbox, originals, media, lock, importer, up, jobs, worker, ending, handled>>

\* What write_catalog will write.
Candidate ==
    CASE handler.op = "edit"    -> handler.base
      [] handler.op = "archive" -> [handler.base EXCEPT ![handler.id] = None]
      [] handler.op = "restore" -> [handler.base EXCEPT ![handler.id] = record[handler.id].art]

CheckCatalog ==
    /\ handler.at = "check" /\ catalog = handler.base
    /\ At("replace")
    /\ UNCHANGED <<storeVars, up, jobs, worker, ending, handled>>

ReplaceCatalog ==
    /\ handler.at = "replace"
    /\ catalog' = Candidate
    /\ At("record")
    /\ UNCHANGED <<record, inbox, originals, media, lock, importer, up, jobs, worker, ending, handled>>

\* The written catalogue is read back and the record says what was done.
FinishRecord ==
    /\ handler.at = "record" /\ catalog = Candidate
    /\ CASE handler.op = "edit"    -> UNCHANGED record
         [] handler.op = "archive" -> SetRecord("archived")
         [] handler.op = "restore" -> SetRecord("restored")
    /\ Release
    /\ UNCHANGED <<catalog, inbox, originals, media, importer, up, jobs, worker, ending, handled>>

\* A variant: the files go before the record says so.
MarkNothing ==
    /\ handler.at = "mark" /\ At("media")
    /\ UNCHANGED <<storeVars, up, jobs, worker, ending, handled>>

MarkDelete ==
    /\ handler.at = "mark"
    /\ SetRecord("delete-prepared") /\ At("media")
    /\ UNCHANGED <<catalog, inbox, originals, media, lock, importer, up, jobs, worker, ending, handled>>

DeleteMedia ==
    /\ handler.at = "media"
    /\ media' = [media EXCEPT ![handler.id] = None] /\ At("originals")
    /\ UNCHANGED <<catalog, record, inbox, originals, lock, importer, up, jobs, worker, ending, handled>>

DeleteOriginals ==
    /\ handler.at = "originals"
    /\ originals' = [originals EXCEPT ![handler.id] = None] /\ At("inbox")
    /\ UNCHANGED <<catalog, record, inbox, media, lock, importer, up, jobs, worker, ending, handled>>

DeleteInbox ==
    /\ handler.at = "inbox"
    /\ inbox' = [inbox EXCEPT ![handler.id] = None] /\ At("tombstone")
    /\ UNCHANGED <<catalog, record, originals, media, lock, importer, up, jobs, worker, ending, handled>>

WriteTombstone ==
    /\ handler.at = "tombstone"
    /\ SetRecord("deleted") /\ Release
    /\ UNCHANGED <<catalog, inbox, originals, media, importer, up, jobs, worker, ending, handled>>

\* A failing write or check, or a catalogue that is not the expected one: no undoing.
HandlerFails ==
    /\ handler.at # "none" /\ Release
    /\ UNCHANGED <<catalog, record, inbox, originals, media, importer, up, jobs, worker, ending, handled>>

HandlerStep ==
    \/ PrepareArchive \/ CheckCatalog \/ ReplaceCatalog \/ FinishRecord
    \/ MarkDelete \/ DeleteMedia \/ DeleteOriginals \/ DeleteInbox \/ WriteTombstone \/ HandlerFails

-----------------------------------------------------------------------------
(* The service.                                                               *)

\* Restart=no: it stays down until somebody starts it.
Crash ==
    /\ "crash" \in Faults /\ up
    /\ up' = FALSE /\ worker' = NoWorker /\ ending' = {} /\ handler' = NoHandler
    /\ importer' = LeftByWorker
    /\ lock' = IF lock \in {"handler", "job"} THEN None ELSE lock
    /\ UNCHANGED <<catalog, record, inbox, originals, media, jobs, handled>>

\* A variant: what a previous process left running is not looked at.
RestartBlindly ==
    /\ ~up /\ up' = TRUE
    /\ UNCHANGED <<storeVars, jobs, worker, ending, handler, handled>>

Restart ==
    /\ ~up /\ up' = TRUE
    /\ jobs' = [j \in Jobs |-> IF jobs[j].status \in Active
                               THEN [jobs[j] EXCEPT !.status = "failed"] ELSE jobs[j]]
    /\ UNCHANGED <<storeVars, worker, ending, handler, handled>>

Request == \E i \in Id : Edit(i) \/ Archive(i) \/ Restore(i) \/ Delete(i)

AdminNext ==
    (\E j \in Jobs : CreateJob(j)) \/ JobStep \/ Request \/ HandlerStep \/ Crash \/ Restart
=============================================================================
