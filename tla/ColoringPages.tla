---------------------------- MODULE ColoringPages ----------------------------
(* The admin publisher and the request bridge on one content store.           *)
EXTENDS AdminPublish, DriveIngest

\* A drawing is what one page of an upload, one activity or one earlier publication brought: the
\* same one comes a second time only when a batch repeats an activity.
UploadPages == UNION {{<<j, p>> : p \in DOMAIN Uploads[j]} : j \in Jobs}
Activities  == UNION {{Batches[b][n] : n \in DOMAIN Batches[b]} : b \in BatchIds}

ASSUME DrawingsDiffer ==
    /\ \A i, k \in Id : Initial[i] # None /\ Initial[i] = Initial[k] => i = k
    /\ \A u, v \in UploadPages : Uploads[u[1]][u[2]] = Uploads[v[1]][v[2]] => u = v
    /\ \A x, y \in Activities : x.art = y.art => x.id = y.id
    /\ \A u \in UploadPages, i \in Id : Uploads[u[1]][u[2]] # Initial[i]
    /\ \A x \in Activities, i \in Id : x.art # Initial[i]
    /\ \A u \in UploadPages, x \in Activities : Uploads[u[1]][u[2]] # x.art

vars == <<storeVars, adminVars, driveVars>>

Init == StoreInit /\ AdminInit /\ DriveInit

Next ==
    \/ AdminNext /\ UNCHANGED driveVars
    \/ DriveNext /\ UNCHANGED adminVars
    \/ Importer /\ UNCHANGED <<adminVars, driveVars>>

Spec == Init /\ [][Next]_vars

\* Threads and the dispatcher run; nothing makes a container end, a request come or
\* somebody start the service again.
Fairness ==
    /\ WF_vars(JobStep /\ UNCHANGED driveVars)
    /\ WF_vars(HandlerStep /\ UNCHANGED driveVars)
    /\ WF_vars(BridgeStep /\ UNCHANGED adminVars)

FairSpec == Spec /\ Fairness

-----------------------------------------------------------------------------
TypeOK == StoreTypeOK /\ AdminTypeOK /\ DriveTypeOK

\* A published page has its files, whatever was archived, restored or deleted half way
\* and whichever container still runs.
LiveHasFiles == \A i \in Id : Live(i) => originals[i] = catalog[i] /\ media[i] = catalog[i]

\* An id stands for one drawing everywhere, in the catalogue, its files, a container and an
\* archive record that can still be restored. Abandoned containers and ids that the job
\* draws at random or a batch names must not meet.
Restorable(i) == ArchiveState(i) \in {"prepared", "archived"}
ArtsOf(i) ==
    {catalog[i], inbox[i], originals[i], media[i]}
    \cup (IF Restorable(i) THEN {record[i].art} ELSE {})
    \cup (IF importer[i] # None THEN {importer[i].art} ELSE {})
IdNamesOneArt == \A i \in Id : Cardinality(ArtsOf(i) \ {None}) <= 1

\* A request whose marker was claimed is worked on by the dispatcher that claimed it, or
\* never again; its result is final.
ClaimedOnce ==
    [][\A b \in BatchIds :
         batch[b].request # "ready" /\ bridge.batch # b => UNCHANGED batch[b] /\ bridge'.batch # b]_vars

\* At most one publication job is active, the thread that works is its thread, and the job's
\* lock is that thread's. A thread that has written "published" runs on and may yet write
\* "failed", beside the next job: what it writes to is no active job.
OneJobAtATime ==
    /\ Cardinality(ActiveJobs) <= 1
    /\ worker.job # 0 => ActiveJobs = {worker.job}
    /\ lock = "job" => worker.job # 0
    /\ ending \cap ActiveJobs = {}

\* The publication lock is always free again, though no container need ever end.
LockIsFreed == []<>(lock = None)

\* A job ends, unless the service went down.
JobsSettle == \A j \in Jobs : jobs[j].status \in Active ~> (jobs[j].status \notin Active \/ ~up)

\* "If a later page in a ZIP fails, the job records the exact already-succeeded subset": the
\* published pages of a failed job are those its results list.
FailedJobListsPublished ==
    \A j \in Jobs : jobs[j].status = "failed" =>
        \A p \in DOMAIN Uploads[j] : (\E i \in Id : catalog[i] = Uploads[j][p]) => p <= jobs[j].results

-----------------------------------------------------------------------------
(* The refinement: what a page is, and which drawings were reported.           *)

LifeOf(i) ==
    IF Live(i) THEN [is |-> "live", art |-> catalog[i]]
    ELSE IF Restorable(i) THEN [is |-> "archived", art |-> record[i].art]
    ELSE IF ArchiveState(i) \in {"delete-prepared", "deleted"} THEN [is |-> "deleted", art |-> record[i].art]
    ELSE [is |-> "absent", art |-> None]

Listed == UNION {{Uploads[j][p] : p \in 1 .. jobs[j].results} : j \in Jobs}
Reported == (({Initial[i] : i \in Id} \cup {receipt[i] : i \in Id}) \ {None}) \cup Listed

Life == INSTANCE PageLife WITH page <- [i \in Id |-> LifeOf(i)], reported <- Reported

\* What is published, archived, restored and deleted is so in the ways PageLife allows,
\* and a page that a job's results or a receipt name is never lost.
ImplementsPageLife == Life!Spec
=============================================================================
