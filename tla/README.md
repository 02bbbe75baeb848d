# A TLA+ model of RPi5_main

RPi5_main is the control repository of one Raspberry Pi: what runs on it is deployed, backed up
and watched by the programs kept here. This directory holds TLA+ specifications of the programs
that change what the host runs or trusts, of those that publish pages on its web site, and of the one
that ends browser processes; their model checking configurations for TLC; and proofs checked by
TLAPS.

## The system

| Component | State it keeps | Operations | Hard part |
|---|---|---|---|
| SIMPLE-DEPLOY v1 reconciler (`ops/lib/deploy_executor/simple_deploy_v1.py`) | per target: lock, status, success receipt, Compose override; the container Docker runs | `--all`, `--target` | two systemd units, a mutable `:production` pointer, kills, failing writes, a registry replaced under a running process |
| V12 controlled deploy (`scripts/rpi5_deploy*.py`) | plan, transactions with backups, `latest-success`, the target files | `plan`, `deploy`, `rollback`, `sync`; `install-engine`, `status`, `logs` | several files changed as one, undoing that can fail, interrupts, drift, a repository that moves meanwhile |
| Weather companions (`simple_deploy_weather_*_v1.py`) | evidence containers, volume | ingest once, schema init | one shares the reconciler's lock, the other does not |
| LIVE-AUTH executor (`state.py`, `protocol.py`, `weather_private_*_host_installer*.py`, `p9_*.py`) | SQLite table of requests (WAL mode); trusted checkout, operator and activation marker on the host | route, revalidate, consume, install, mark succeeded; P9 dry run | an authorization the owner can edit meanwhile, no lock, crashes anywhere, a replay check that reads only the main database file |
| Maintenance locks, serialized backup (`rpi5-maintenance-locks.sh`, `rpi5-backup-serialized`) | flocks | nightly backup, weekly update | time-outs between jobs |
| SIMPLE-DEPLOY host installers (`scripts/align-*`, `install-simple-deploy-*`) | registry, identity, Compose files | apply | no lock in common with the reconciler |
| Coloring-pages admin publisher (`coloring-pages-admin-publish`) | job files, archive records, three registries with a revision; shares catalogue, page files and a lock with the Drive ingest | publish a ZIP; edit, archive, restore, delete a page; create, change, delete categories, topics, links | a request thread and a job thread, containers that outlive them, no undoing, checks made before the lock |
| Drive ingest and publish request bridge (`coloring-pages-drive-ingest`, `coloring-pages-publish-request-dispatcher`) | claimed requests and results; partials, manifests and receipts per page | claim a batch, ingest each activity | a 180 second time-out over a program with a container, claims that are never repeated |
| Browser lifecycle (`browser_lifecycle.py`, `rpi5-browser-lifecycle`) | one record per run, the process table | run, clean up, clean stale records, report | pids and sessions that are used again, orphans, kills |
| CV pull deploy (`rozkalns-cv-pull-deploy`) | one service | pull, deploy, roll back | as the reconciler |
| Drive stage sender, sitemap publisher | a remote folder, the sitemap | send, derive | little: both come after the fact |
| Weather public runtime, Cloudflare and statistics operators | none between invocations | one-shot sequences of remote calls | partial failure, left to the owner |
| Dashboard evidence, balcony watering, queue normalizer | projections and schedules | read, switch | none that needs a model |

The components meet in a few places. The installers rename the registry and the Compose files that
the reconciler reads. The publisher in another repository moves the image pointer it resolves. The
weather companions mutate what the reconciler deploys. Controlled deploy installs the backup's cron
and logrotate files, attests the backup programs, and refuses to run beside maintenance or with an
old backup. The dashboard evidence reads `latest-success`. Admin publisher and Drive ingest write one
catalogue and one tree of page files, under one lock that the importer's containers do not hold.

What makes each component correct:

- reconciler: only images that passed review run; a receipt and a SUCCESS never lie about what runs;
  a failure after the mutation began stops the target for good; attempts at a target exclude each
  other; a target ends current or stopped.
- controlled deploy: all or nothing; enough on disk to undo by hand; `latest-success` proves a
  commit; nobody else's edit is overwritten unseen; the attested files are never written.
- LIVE-AUTH: an authorization is spent at most once, before the host changes, with the text that was
  accepted; nothing resumes a request whose process is gone; success is on record only for a whole
  installation of one commit; the database always opens again.
- coloring pages: a published page has its files; an id stands for one drawing; what was reported as
  published is never lost; a batch is worked on once; the lock and the jobs do not hang; nothing refers
  to a category or topic that does not exist.
- browser lifecycle: no process of anybody else is ever signalled, whoever removes a record leaves
  nothing alive that its copy of the record names, and a wrapper that returns cleanly leaves nothing.
- maintenance: no two jobs that mutate at once, and no job starves.

`PROJECT.json` lists every hazard we know of with its line and the properties that cover it.

## Modules

| Module | Content |
|---|---|
| `SimpleDeploy` | the reconciler |
| `TargetLedger` | what the reconciler promises of a target, with no processes, locks or commands |
| `SimpleDeployLedger` | the refinement mapping from the one to the other |
| `SimpleDeployProofs` | the theorems about both |
| `MCSimpleDeploy` | instances for TLC |
| `ControlledDeploy`, `MCControlledDeploy` | the deploy engine and its instances |
| `ControlledDeployProofs` | the theorems about it |
| `LiveAuthInstall` | replay store, private host installer and P9 canary under LIVE-AUTH |
| `OneShotInstall` | what LIVE-AUTH promises, with no processes, polling or database |
| `LiveAuthOneShot` | the refinement mapping from the one to the other |
| `LiveAuthProofs` | the theorems about both |
| `MCLiveAuthInstall` | instances for TLC |
| `ContentStore` | catalogue, archive records, page files, their lock and the importer's containers |
| `AdminPublish` | the admin publisher's job and its catalogue requests, on `ContentStore` |
| `DriveIngest` | the request bridge and the Drive ingest, on `ContentStore` |
| `PageLife` | what the content store promises of a page, with no processes, locks, files or containers |
| `ColoringPages`, `MCColoringPages` | both composed, the refinement of `PageLife`, and instances |
| `ColoringPagesProofs`, `PageLifeProofs` | the theorems about the composition, and that it implements `PageLife` |
| `Taxonomy`, `MCTaxonomy` | categories, topics and links, and what refers to them; instances |
| `TaxonomyProofs` | the theorems about them |
| `BrowserLifecycle`, `MCBrowserLifecycle` | a browser run over a process table; instances |
| `BrowserLifecycleProofs` | the theorems about it |

Operators named "a variant" in their comment are plausible bugs of the definition that follows them.
No next-state relation contains them. Each is put in its action's place to see that a property
notices.

### SimpleDeploy

A process `p` stands for a systemd unit. `pc[p]` is its place in `main`, `reconcile` or
`_reconcile_locked`; `Start` loads the registry once for the whole loop, and `alias`/`rest` are the
loop of `--all`. `lock[t]` is the flock of a target. The kernel frees it when a process dies. The
three state files are one variable each, written in one step because `_atomic_bytes` renames.
`Mutating` are the places after `mutation_started = True`; `CommandFails` leaves them for `stop`
(status STOP_ERROR) and the places before for `refuse` (PRE_MUTATION_FAILURE).
`compose up` takes two steps, so that a failing command may have changed the container already.
`Dies` is a kill at any place, and an OSError at a place that writes a file, which no handler
catches. The environment moves the pointer, stops containers and replaces Compose file and registry
at any time.

Abstracted: parsing and the contents of image metadata (a digest is in `Reviewed[t]` or not), the
health URLs (pass or fail), all logging. A `docker` command killed at its time-out has no effect
afterwards.

### ControlledDeploy

One exclusive flock covers plan, deploy and rollback, so the model has one operation at a time, and
`pc = "idle"` is the free lock; a refused second operation changes nothing. `sync` does not take the
lock and is always possible. A file's fingerprint is one value. `txs` is the transactions directory
as it is on disk; `changed`, `restored` and `failed` are the local variables of `apply_plan` and
`manual_rollback`. The code's lists of entries are sets, as the manifest gives their order
(`LastOf`, `FirstOf`). A step that fails raises at the next place, so an effect may be the last one
before the exception; the undoing steps can also fail after their effect. `Interrupt` ends the
operation with no handler run. A handler whose last metadata write fails is also an `Interrupt`,
at that write.

Abstracted: `repository_preflight`, GitHub checks and host preflight are pass or fail. A sync changes
all sources at once. Corruption of a backup after it was verified is not modelled. `Drift` is an edit by
somebody else of any file at any instant, also of one that was just checked or installed, and makes
a restore fail that reads back what it wrote. `late` is a history variable: the targets edited
while the operation at work already had them on its list of entries.
`MaxTx` bounds the transactions in one behaviour. Restores and replacements go through
`install_snapshot` or a rename, so a file is old or new, never torn.

### LiveAuthInstall

Each process is one invocation: `RouteOperation` (the privileged dispatcher routes to the installer)
or `CanaryPreflight` (the P9 program after its preflight). `pc` follows `revalidate`, which runs twice
with two replay checks each (`checks`), then `apply_install` and the calls of
`DurableInstallReplayAuthority.consume`, each a transaction. `db` is the table as every `StateStore`
reads it and `file` the main database file alone: the last connection to close copies the log over
(`CloseStore`), a killed process does not (`Kill`). The three host objects are absent, partial or
those of a commit; one that is made is first partial (`Create`), then whole (`Finish`). The owner
edits, closes and reopens issues (`Edit`) and merges to main (`Push`) at any time. `inserted` is a
history variable: the issue whose row the process has itself inserted in its present invocation.

Abstracted: the parts of the authority block are request id, commit and operation; its digests are
the block itself. Queue, CI and ancestry checks, time-to-live, and every error of GitHub, SQLite or
Git are `Stop`: the step does not happen and the program ends, after a `finally` that closes the
store. The log is copied at closing only (SQLite would also do so after 1000 pages, which a table
of single rows does not reach), and in one step. Nobody else changes the host objects. The
dispatcher's other operations and the bootstrap of the database are left out.

### ContentStore, AdminPublish, DriveIngest

Of each page the store has its catalogue entry, its archive record, and its files in inbox, originals
and media; a drawing is one value. `lock` is the flock on `drive-ingest/.lock`, which both programs take without
waiting. `importer[i]` is the container that imports page `i`: its files first, then its catalogue
entry. It does not hold the lock. `waited` says whether somebody still waits for it; a time-out, a
crash or a killed ingest leaves it running, since only the docker client dies.

`worker` is the thread of `run_job` and `handler` the one catalogue request past the lock, with the
catalogue as it loaded it (`base`). Each write is a step: record, catalogue (compared with `base` in one
step, replaced in the next), media, originals, inbox, tombstone. `JobFails` and `HandlerFails` stop
after any of them and undo nothing. A thread that wrote the status "published" (`PublishJob`) has let go
of the job and has still to log its end: such threads are in `ending` until `EndThread`, which may turn
the status into "failed" while another job is queued or running. `Crash` ends all threads; `Restart`
sets active jobs to failed. `bridge` is the dispatcher with the ingest it waits for, `batch[b]` the
request's place and result, `ingest[i]` the state files of an id and `receipt[i]` its receipt. A batch
fails wherever it is (`BatchFails`), and the dispatcher can die (`BridgeDies`).

Abstracted: validation of uploads, manifests and entries is a verdict, and the checks before
preparation are part of `JobFails` or `BatchFails`. What an edit changes is not told apart here. A
request with a stale `If-Match`, or one that finds the lock taken, changes nothing. The file that the
importer reads stays in the inbox. The container's change of the catalogue is one step. Sitemap and
log are left out.

An upload has a page at least, as the publisher refuses an empty one. `DrawingsDiffer` says which
drawings are the same one: a drawing is what one page of an upload, one activity or one earlier
publication brought, and only a batch that repeats an activity brings it again. The code compares no
pictures, so drawings that merely look alike are two. Only the refinement of `PageLife`, which follows a
drawing from page to page, needs the assumption.

`PageLife` says that a page is absent, live, archived or deleted, which moves there are between
these, and that a drawing that a job's results or a receipt name is never lost. It allows what the
code does allow: a page nobody was told of can vanish when a catalogue written from an older
reading replaces the one a container has just changed, and an id deleted for good can be used again
by a Drive batch, which does not look at archive records.

### Taxonomy

The same service seen from its registries: three files with a revision, each changed in two steps
(temporary file, rename) under the lock. A page or archive record refers to a category and perhaps
a topic; lists of several are left out, as each member is checked alone. Changes of the catalogue are
one step here, with the outcome of a write that fails after the first. `asked` is a publication request
between its checks and `CREATE_LOCK`; the job's thread compares the versions again once it has the lock.
A container that outlived its job publishes with the references of its job (`strays`).

`SeedAssumption` says that the first registries are such as the service accepts (a topic at least,
links and pages that fit).

Abstracted: labels and order; the public copy that the service compares a registry with is the file
itself, no cache in between; capability probes of the importer's image are a verdict.

### BrowserLifecycle

`table` is the process table: start time, parent, session, whether the process comes from the browser,
and whether it is a zombie. The kernel forks, changes sessions, ends processes and gives free pids to
strangers or to the browser's own. Whom a process belongs to (`ours`) is only there for the properties.
The wrapper starts the browser (`Launch`), records it and looks for what it owns until the run is over
(`Guard`); `cleanup_record` is `CleanupLook`, `Signal`, `GraceLook`, `GraceOver`, `KillLook`, taken by
the wrapper or by the cleaner of stale records. The cleaner copies the record once (`StaleLoad`), then
looks for its owner (`StaleEligible`) and again before it acts (`StaleAct`); what the wrapper records
after the copy it never reads. Each look is two steps, as in `snapshot_processes`: `List` takes the
pids, the action that uses the look reads whoever has them by then (`Seen`). `Owned` is `collect_owned`:
exact members, the wrapper's descendants (`WithDescendants`, the least set closed under children), and
the leader's session when somebody proves that it is still the browser's. `record = {}` is a record that
does not exist. SIGTERM may be ignored, so `Exit` is the kernel's. SIGKILL ends a process at once.

Abstracted: a session and a process group are one number; all pids of a listing are read in one step,
so two processes that have the same pid one after the other within one reading are left out (what
`NothingIsLeftBehind` says of members and of a clean wrapper does not depend on it: a member that lives
is found whenever it is read, and a child of the wrapper stays until it is reaped); the last
check of a start time and the signal after it are one step, where the code has a gap of two system
calls. One run, and no age limit. A kill of the wrapper comes at any place after the start of the
browser. The listing always has the number 0 in it, which stands for init: an empty `listed` means that no
look is under way. `hit` has the strangers that were signalled, and only the properties look at it.

## Runs

| Run | Instance | Shows |
|---|---|---|
| `faults` | 1 target that may opt into a derivative image, 2 units, 3 digests (one not reviewed), 2 Compose files, kills and write errors, SIMPLE-DEPLOY switched on and off | the safety properties, that the opt-in is sticky for processes with an older registry, and that the reconciler implements `TargetLedger` |
| `live` | 2 targets, `--all` and a per-target unit, the first target always refused, no faults | convergence, and that a change without success blocks |
| `unrecorded` | as `faults` with write errors only | violated: see Findings |
| `tx_errors` | 3 files (one attested, one absent), 2 commits, 2 transactions, every step and every undo can fail | both operations are atomic; the latest success is live |
| `tx_interrupts` | the same, killed anywhere, with foreign edits | records precede changes; the pointer proves a commit; edits survive unless a plan showed them or they fell into the operation at work; attested files are never written |
| `tx_killed` | one transaction, killed anywhere | violated: see Findings |
| `live_auth` | 2 processes, 2 issues, 2 requests for 2 commits and a canary with the request id of one, one edit, kills and errors anywhere | single use, only the process that inserted a row changes it, the store always opens, the host is of one commit, SUCCEEDED is true, and the executor implements `OneShotInstall`; `IInv` |
| `live_auth_stale` | 1 process at a time, no edits | violated: see Findings |
| `content` | 2 ids, one of them archived; 2 uploads of a page, 2 batches of which the second repeats an activity and names the archived id, 2 catalogue requests, the service killed anywhere | the safety of pages, ids, jobs and batches, the refinement of `PageLife`, and that lock and jobs do not hang |
| `content_timeout` | 1 upload of 2 pages, no requests, no batches | violated: see Findings |
| `taxonomy` | 2 categories (one protected), 2 topics, 2 ids, 4 changes, 1 job, kills and write errors | nothing dangles, and a job runs with the registries it was checked against |
| `browser` | 3 pids beside the wrapper's, 3 processes, wrapper and cleaner killed anywhere | no stranger is signalled; what the remover of a record knew of is gone, and a clean wrapper leaves nothing |

The bounds: two units are all that ever compete for one target's lock besides the holder, and the
theorems remove the bound. Three digests are the old image, the new one and one that must not run.
Two targets are enough for a failure of the first to touch the second. For controlled deploy,
two transactions give an older success below a failing or rolled-back one; two commits let the head
move once between any two steps; three rows give one of each kind (unchanged, replaced, created),
and the first commit leaves the cron file as the host has it, so that the second transaction
changes a file that the first did not.
For LIVE-AUTH, two processes at one time follow each other in any number, so that the two issues can
be spent, failed and tried again; two requests and two issues give an identity that is new by one key
and old by the other; one edit (`MaxEdits`) falls between any two reads, and two commits (`MaxMain`)
let two authorizations want different installations.
For the content store, two ids for four drawings make every id meet an archived, deleted and
republished page, and two requests give archive after restore and delete after archive. Four changes
of registries let a category be created, referred to, archived and deleted again. Three processes
are a leader, a child that flees into its own session, and one that is forked while a look is under
way or gets a pid again that one of the others had; the third pid lets it start beside them. The
variants of the module need no more to break its properties, a fourth start gives five million
states, and the theorems have no such bound.

Fairness (`FairSpec`): a unit's next step is taken if it stays possible, as its timer fires again
after each run (`OnUnitInactiveSec`). Commands may still fail each time; strong fairness is
asked only of the two read-only lookups, so that a registry that answers again and again is heard in
the end. Nothing is asked of `compose`, health checks or the environment: a deployment may fail
for ever, and then it stops the target, which `Converges` allows. In `ColoringPages` the threads of the
service and the dispatcher take their next step if it stays possible, as threads of a running process
do. Nothing is asked of containers, which may run for ever, of requests, or of the restart (the unit has
`Restart=no`): that the lock is freed rests on the time-outs alone. `Taxonomy` and `BrowserLifecycle`
have no liveness property.

## Findings

- `unrecorded`: after the mutation began, an `OSError` from a state write is not a
  `SimpleDeployError` and escapes the handler. The target is not blocked, another image runs, and
  the next tick tries again, where `docs/SIMPLE_DEPLOY_HOST_V1.md` promises a stop. The proofs of
  the other properties hold with such errors.
- `tx_killed`: `except Exception` does not catch a `KeyboardInterrupt`, so a deployment interrupted
  between two rows is not rolled back and its transaction stays `running`, where
  `docs/V12_CONTROLLED_DEPLOY_CONTRACT.md:278` promises automatic rollback for any exception after a target
  entered the mutation set. `MixIsReported` asks for targets of both kinds, and the run's trace ends
  with the cron file new and the logrotate file absent. `RecordedBeforeTouched` says that it can be
  undone by hand.
- `live_auth_stale`: the replay check opens the database with `immutable=1`, which ignores the
  write-ahead log. After a killed process it passes for an authorization that was observed, even
  consumed, where `docs/WEATHERNEXT_PRIVATE_HOST_INSTALLER.md` promises revalidated replay
  availability. The unique keys of the later INSERT still refuse the replay: `SingleUse` and
  `ImplementsOneShot` hold with such checks.
- `content_timeout`: a tool's time-out, like a kill of the service, ends the docker client and not the
  container. A page of a failed job is published after the job failed, and its results do not list it,
  where `docs/COLORING_PAGES_ADMIN_PUBLISH_V1.md:226` promises the exact subset.

Met while modelling, with no run of their own:

- The same document says (line 267) that the lock keeps an edit from racing an import. An abandoned
  container does not hold it: an edit that read the catalogue before the container's write removes
  the new entry again. `ImplementsPageLife` shows that no page reported as published is lost so.
- Line 330 says that the id of a deleted page stays reserved. The admin publisher keeps to that; a Drive
  batch may name such an id, and is published.
- A container that outlived its job can publish a page whose category was deleted meanwhile; the
  management of registries then refuses everything until the entry is repaired. `ReferencesResolve`
  exempts these pages (`strays`) and no others.
- After a deployment that could not be undone (`rollback_failed`), the engine lets the success below it
  be rolled back. That restores what the older transaction changed and leaves what only the failed
  one had installed, so the host is as before neither of them. An attempted proof that a rollback
  restores every target failed here. `RollbackIsAtomic` says what is true: with a `rollback_failed` on
  record (`Mixed`), a rollback answers for the targets it changed; without one, for all.
- `docs/V12_CONTROLLED_DEPLOY_CONTRACT.md:304` says that a rollback refuses to overwrite later content. It
  does, when it looks. An edit made after an operation listed the target is overwritten: between the
  backup and the rename; after the installation, where `verify_final_state` notices it and the handler's
  restore replaces it (`rpi5_deploy_tx.py:179`, `181`, `195`); and between a rollback's checks and its
  rename. `DriftIsReviewed` exempts these (`late`) and no others.
- A job that was reported as "published" can become "failed": the log write that follows
  (`coloring-pages-admin-publish:1952`) is inside the same `try`. Another job may be queued or running by
  then. `OneJobAtATime` shows that it is not touched.
- `cleanup_stale_records` calls what it removes metadata-only leftovers (line 591). Its record may be older
  than the one on disk: it is loaded at line 545 and a wrapper that still runs may add a child to it, be
  killed, and lose the leader, before line 593 looks. Line 602 then removes a record that names a living
  process. When the cleaner writes a record of its own (`cleanup_record`), it replaces the newer one. And of
  processes that init has adopted, one forked after the listing of `/proc`, by a parent that exits before
  its own entry is read, is in no look. `NothingIsLeftBehind` says what holds in spite of these: it
  speaks of the remover's copy and of its last listing.
- `cleanup_record` says (line 387) that every identity is recorded before it is signalled. The processes
  found at the end of the grace are killed without that; if the cleanup dies there, a process that had
  its own session is named nowhere.

## Proofs

`SimpleDeployProofs` proves for every number of targets, units, digests, registries and every set
of faults, from `ConstantsAssumption` alone:

- `Invariance`: `Spec => []IInv`. The safety properties are not inductive. That no lie is written
  depends on what the lock holder knows at each place: the lock is its own (`LockHeld`), no stop has
  been written since it looked (`StopUnseen`), its frozen digest was reviewed (`DesiredReviewed`) and
  is in the override (`OverrideFrozen`), the marker is on disk (`MarkerWritten`), what runs is the
  frozen digest once it was checked (`ContainerVerified`), the receipt is written before the status
  (`ReceiptWritten`), and the opt-in was checked against the receipt that will be replaced
  (`OptInChecked`). `LockHeld` is what makes the others stable under the steps of other processes.
- `TypeCorrect`, `Exclusion`, `ReviewedOnly`, `SuccessTruthful`: consequences of `IInv`.
- `StopFinal`, `ReceiptTruthful`, `OptInSticky`: action properties, one case per action of `Next`,
  under `IInv`.
- `Refinement`: the initial states map to the ledger's and each step to a ledger step or a stutter.
- `UnrecordedBlocks`: `UnrecordedMutationBlocks` for every behaviour in which no process dies at one of the
  places `Owing`, between `compose up` and the record it owes. What is inductive is `Accounted`: an
  image that no receipt names is accounted for by a stop or by the process that still owes the record.
  Deaths at all other places are allowed, so the theorem marks off the window of the finding
  `unrecorded`. `UnrecordedBlocksWithoutFaults` is the case of the run `live`.

`LiveAuthProofs` proves for every number of processes, issues, requests and commits, from
`ConstantsAssumption` alone:

- `Invariance`: `Spec => []IInv`. Single use rests on the keys of the table (`KeysUnique`), on the
  row a process has inserted and is still there (`HoldsRow`), and on no two processes holding rows
  with a key in common (`HoldsAlone`): a new row's keys differ from those of every row, hence of
  every holder. `StoreAlwaysOpens` is inductive by itself over the transitions that are really made.
  What the host holds rests on objects that never change once whole, on one writer per object and on
  what the call saw before it wrote (`MakesAlone`), on `verify_exact` (`VerifiedExact`) and on
  `MarkerNamesInstall`. `ChecksCounted`, `HasAccepted` and `PlanLeft` are what types need.
- `TypeCorrect`, `UsedOnce`, `AlwaysOpens`, `SuccessInstalled`, `MarkerTruthful`: consequences.
- `NotResumed`: a step that changes a row is one of the process that inserted it, identified by
  `inserted` and not by issue or text, which a later process of the same authorization would share.
  `OwnsRow` in `IInv` says that a process past its insertion works on the row it inserted.
- `Refinement`: a consumption is a `Spend`, since no spent row has one of the keys; creation and
  completion of an object are `Begin` and `Complete`; everything else is a stutter.

The replay check that is stale (see Findings) is in the model these proofs are about.

`ControlledDeployProofs` proves for every manifest, history of main and number of transactions, from
`ConstantsAssumption` and, where drift is concerned, `ForeignAssumption`:

- `Invariance`: `Spec => []IInv`, with every fault. `Places`, `OfPlan`, `StatusOfPlace` and `PointerOfPlace`
  tie the operation in memory to its transaction on disk; `PlanOfCommit` says that a plan which can
  still be applied is that of its commit, even when main moved while it was made; `Recorded` that all
  that was changed has a backup; `Entries` and `Unrecorded` what each target may hold while a
  deployment runs or is undone, with the row at work set apart; `BackEntries` the same of a rollback.
- `TypeCorrect`, `RecordedFirst`, `PointerTruthful`: consequences. `DriftReviewed` and `AttestedUntouched`:
  every action that writes a target, under `IInv`. For drift the places after a check are split by
  `late`: an edit that came later than the target's listing is in it.
- `SuccessIsLive`, `ApplyAtomic`, `RollbackAtomic` assume `ErrorsOnly`: `Faults` without interruptions and
  foreign edits. With those the code does not promise them (`tx_killed`). Failing steps and failing
  undoing stay possible at any place. They rest on `ErrorsInv`: the transaction at work began at what
  the success below it installed (`SuccessBelow`), a deployment that passed changed nothing it did not
  record (`KeptRows`), and what each place still has to install or restore (`ApplyExact`, `RollbackExact`).

`TaxonomyProofs` proves for every set of categories, topics and pages, from `TaxonomyAssumption` and
`SeedAssumption`, `TypeCorrect`, `AllReferencesResolve` and `JobAlwaysSeesItsTaxonomy`. `IInv` says what a
request between its two writes holds: its new registry was checked against the others (`Pending`), and
they stay as they are while it has the lock; a job that has the lock publishes only what is valid
now (`Running`). Removal of a category is where the two meet: what is no longer referred to may go, and
with the lock held no reference to it can come.

`BrowserLifecycleProofs` proves for every set of pids, number of processes and length of runs, from
`PidAssumption`:

- `TypeCorrect` and `RunOnlySignalled`. Nobody is signalled by a mistaken pid because every identity
  in a record, a copy of it or a list to signal is trusted: it is of the past, and whoever is found
  under it comes from the browser (`Records`, `LeaderFacts`). That collecting finds no stranger rests on
  `Kinship` (origin is inherited from a living, older parent) and `Sessions` (no session has members of two
  origins).
- `NothingLeftBehind`: an actor removes the record after a look that owned nothing. Members of its copy that
  are present were present when it listed, as an identity of the past does not come back (`Listing`), so
  the look would have owned them; so would it have any listed member of the browser's session, or been
  blocked by it. A wrapper that returns leaves nothing at all: if something of the browser's ran, take
  the one that was started first. Its parent is the wrapper (`FirstBorn`), and as such it stays in the
  table until the wrapper reaps it, hence was in the listing (`Listings`) and was collected. This is an
  induction over start times, by the least element of a set of numbers.

`ColoringPagesProofs` proves for every set of pages, uploads and batches, from the assumptions of the
component modules alone:

- `Invariance`: `Spec => []IInv`. `Locked` says who may be under way given who holds the lock, `Waited` that
  a container somebody waits for belongs to the holder, `StoreSound` how an id's catalogue entry, record,
  files and container fit together, `WorkerFacts`, `BridgeFacts`, `HandlerFacts` and `OwnContainer` what each
  actor relies on at its place. `StoreSound` has to hold for an id with a container that nobody
  waits for and that does not hold the lock: its id is free of a record that could be restored. The
  proof sorts the steps by their effect on the store (nothing, files, catalogue, hand-over, a
  handler's write) and has one lemma per conjunct and effect.
- `TypeCorrect`, `PagesHaveFiles`, `OneDrawingPerId`, `OneJob`: consequences. For the last, a
  thread in `ending` belongs to a job that is "published" (`EndingFacts`). `ClaimIsFinal`: an action property.

`PageLifeProofs` proves `Refinement`: `Spec => ImplementsPageLife`, with `DrawingsDiffer`. `LifeInv` adds to
`IInv` that ids never share a drawing (`NamesDiffer`), that what has still to come is nowhere yet
(`PagesNew`, `ActivitiesNew`), that receipts are of activities (`ReceiptsGiven`), that what a container is
still to publish was not reported (`RunningUnreported`), and that a handler which loaded the catalogue
overlooks only pages nobody was told of (`Overlooked`): this is what makes a reported page safe from a
stale catalogue. `ReplaceCatalog` maps to `Archive`, `Restore` or `Edit` with the vanishing of what it
overlooked, `MarkDelete` to `Delete`, `ImportCatalog` to `Publish`, `PageImported` and `WriteReceipt` to
`Report`, and all other steps to stutters.

`IInv`, `ErrorsInv`, `LifeInv` and `Accounted` were checked by TLC on instances of the runs before they were
proved. The theorems are about `Spec`; the runs with liveness check `FairSpec`, which implies it.

Only model-checked: the liveness properties (`Converges`, `LockIsFreed`, `JobsSettle`), as liveness and
ENABLED are out of the prover's reach, and what the four runs that find a violation show. Every
invariant and every other action property of a passing run is the subject of a theorem, and so are
the three refinements.

## Plan

1. Proofs of the safe halves of the findings, as `UnrecordedBlocks` is for `unrecorded`: that a job whose
   tools do not time out lists what it published (`content_timeout`), that a replay check after a
   clean close of the store is right (`live_auth_stale`), and that an interruption leaves the targets
   atomic if it comes at a place with no entry to undo (`tx_killed`).
2. The dispatcher's other operations (application stage, runtime materialization, mode recovery,
   boundary refresh), which spend authorizations through the same store.
3. The weather companions composed with `SimpleDeploy`: who holds the lock while the volume or the
   service is changed; a container that knows the Compose file it was started from, for the
   installers' race and for the no-op that never looks at the container.
4. Maintenance locks: backup, weekly update and controlled deploy with time-outs.

## Not modelled

One-off operators (weather public runtime, Cloudflare, statistics), installers' own staging, evidence
projections and generated code: they run once under an operator's eye or only read. CV pull deploy is an
older, single-service form of the reconciler. Of the modelled programs: `install-engine` of controlled
deploy; uploads, sitemap, logs and analytics of the admin publisher; several browser runs at once and the
health report's thresholds.
