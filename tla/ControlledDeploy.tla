-------------------------- MODULE ControlledDeploy --------------------------
(***************************************************************************)
(* The V12 controlled deploy engine (scripts/rpi5_deploy.py,               *)
(* rpi5_deploy_lib.py and rpi5_deploy_tx.py).                              *)
(*                                                                         *)
(* plan, deploy and rollback each hold one exclusive flock, so at most one *)
(* operation is under way and pc = "idle" means that the lock is free; a   *)
(* second operation is refused and changes nothing.  `sync` moves the      *)
(* repository without that lock, and anyone else may change a target file. *)
(*                                                                         *)
(* A file's fingerprint (presence, SHA-256, owner, group, mode) is one     *)
(* value.  A step that fails raises at the next place: every effect can    *)
(* be the last one before the exception.                                   *)
(***************************************************************************)
EXTENDS Naturals, Sequences

CONSTANTS
    Targets,      \* the ids of the manifest
    Manifest,     \* their order in the manifest
    AttestOnly,   \* ATTEST_ONLY_TARGET_IDS
    Contents,     \* fingerprints a file can have
    Source,       \* Source[c][t]: what commit c of main installs at t
    Initials,     \* what the host may hold before the first operation
    Foreign,      \* fingerprints only someone else writes
    Faults,       \* subset of {"interrupt", "undo", "drift"}
    MaxTx,        \* bound: transactions in one behaviour
    Absent,       \* the fingerprint of a file that does not exist
    None          \* no plan, no backup

Files   == [Targets -> Contents \cup {Absent}]
Commits == DOMAIN Source
Plans   == [commit : Commits, before : Files, desired : Files]
TxIds   == 1 .. MaxTx

Statuses == {"running", "success", "rolled_back", "rollback_failed", "manually_rolled_back"}

Transaction ==
    [status : Statuses, commit : Commits, before : Files, desired : Files,
     changed : SUBSET Targets, backup : [Targets -> Contents \cup {None}]]

ASSUME ConstantsAssumption ==
    /\ Manifest \in Seq(Targets)
    /\ \A t \in Targets : \E i \in DOMAIN Manifest : Manifest[i] = t
    /\ \A i, j \in DOMAIN Manifest : Manifest[i] = Manifest[j] => i = j
    /\ AttestOnly \subseteq Targets
    /\ Source \in Seq([Targets -> Contents]) \ {<<>>}
    /\ Initials \subseteq Files
    /\ Foreign \subseteq Contents
    /\ Faults \subseteq {"interrupt", "undo", "drift"}
    /\ MaxTx \in Nat
    /\ Absent \notin Contents /\ None \notin Contents /\ None \notin Plans

\* What someone else writes can be told from what any commit installs.
ASSUME ForeignAssumption == \A c \in Commits, t \in Targets : Source[c][t] \notin Foreign

VARIABLES
    head,      \* the commit the repository is at
    live,      \* the target files
    plan,      \* the plan file, while it has not expired
    pointer,   \* latest-success: a transaction, or 0
    txs,       \* transactions/<id>/: metadata and backups, as they are on disk
    pc,        \* where the operation that holds the lock is
    seen,      \* the head repository_preflight returned to plan
    work,      \* the plan deploy loaded
    tx,        \* the transaction at work, or 0
    at,        \* the row apply_plan is at
    changed,   \* apply_plan's `changed`; manual_rollback's entries still to restore
    restored,  \* manual_rollback's `restored`
    failed,    \* whether errors were collected
    late       \* history: the targets edited by others while the operation lists them

disk   == <<live, plan, pointer, txs>>
memory == <<pc, seen, work, tx, at, changed, restored, failed, late>>
vars   == <<head, disk, memory>>

-----------------------------------------------------------------------------
Applying == {"row", "install", "check", "preflight", "commit", "point", "log"}
Undoing  == {"undo", "save"}
Backing  == {"back", "backcheck", "unlink", "backlog"}
Redoing  == {"redo", "repoint", "resave"}

TypeOK ==
    /\ head \in Commits
    /\ live \in Files
    /\ plan \in Plans \cup {None}
    /\ pointer \in {0} \cup TxIds
    /\ txs \in Seq(Transaction) /\ Len(txs) <= MaxTx
    /\ pc \in {"idle", "planning", "verify", "inputs"}
              \cup Applying \cup Undoing \cup Backing \cup Redoing
    /\ seen \in Commits \cup {0}
    /\ work \in Plans \cup {None}
    /\ tx \in {0} \cup DOMAIN txs
    /\ at \in 0 .. Len(Manifest) + 1
    /\ changed \subseteq Targets
    /\ restored \subseteq Targets
    /\ failed \in BOOLEAN
    /\ late \subseteq Targets

Init ==
    /\ head = 1
    /\ live \in Initials
    /\ plan = None
    /\ pointer = 0
    /\ txs = <<>>
    /\ pc = "idle"
    /\ seen = 0
    /\ work = None
    /\ tx = 0
    /\ at = 0
    /\ changed = {}
    /\ restored = {}
    /\ failed = FALSE
    /\ late = {}

-----------------------------------------------------------------------------
(* Helpers *)

Row  == Manifest[at]

\* Entries are listed in manifest order, so a list of them is the set of their targets.
Precedes(t, u) == \E i, j \in DOMAIN Manifest : i < j /\ Manifest[i] = t /\ Manifest[j] = u

\* The next of reversed(changed), and of reversed(restored), which was listed backwards.
LastOf(t, S)  == t \in S /\ \A u \in S : ~Precedes(t, u)
FirstOf(t, S) == t \in S /\ \A u \in S : ~Precedes(u, t)

Install(t, f) == live' = [live EXCEPT ![t] = f]
Status(s)     == txs' = [txs EXCEPT ![tx].status = s]

\* The operation ends and its lock is released.
Leave ==
    /\ pc' = "idle"
    /\ seen' = 0
    /\ work' = None
    /\ tx' = 0
    /\ at' = 0
    /\ changed' = {}
    /\ restored' = {}
    /\ failed' = FALSE
    /\ late' = {}

Continue(from, to) ==
    /\ pc = from
    /\ pc' = to
    /\ UNCHANGED <<head, plan, seen, work, tx, late>>

\* A variant in which an attestation-only row is a row like any other.
AttestAnything(p) == TRUE

\* Attestation-only rows are refused unless the live file is the source's.
AttestOnlyUnchanged(p) == \A t \in AttestOnly : p.before[t] = p.desired[t]

\* verify_plan_row_state
RowState(t) == Source[head][t] = work.desired[t] /\ live[t] = work.before[t]

\* verify_final_state
FinalState == Source[head] = work.desired /\ live = work.desired

RestoreMayFail == Faults \cap {"undo", "drift"} # {}

\* restore: the backup, or no file if there was none.
Snapshot(t) == IF txs[tx].before[t] = Absent THEN Absent ELSE txs[tx].backup[t]

-----------------------------------------------------------------------------
(* plan *)

\* build_plan: repository_preflight reads the head, then validates and asks GitHub.
PlanPreflight ==
    /\ pc = "idle"
    /\ pc' = "planning"
    /\ seen' = head
    /\ UNCHANGED <<head, disk, work, tx, at, changed, restored, failed, late>>

\* target_plan reads the sources and the live files as they are by then.
TargetPlan ==
    LET now == [commit |-> seen, before |-> live, desired |-> Source[head]]
    IN /\ pc = "planning"
       /\ AttestOnlyUnchanged(now)
       /\ plan' = now
       /\ Leave
       /\ UNCHANGED <<head, live, pointer, txs>>

\* load_plan refuses a plan past its age.
PlanExpires ==
    /\ plan # None
    /\ plan' = None
    /\ UNCHANGED <<head, live, pointer, txs, memory>>

\* A check before the first write fails: the operation ends with an error.
Refuse ==
    /\ pc \in {"planning", "verify", "inputs"}
    /\ Leave
    /\ UNCHANGED <<head, disk>>

-----------------------------------------------------------------------------
(* deploy: apply_plan *)

\* A variant whose deploy does not compare the head with the planned commit.
PreflightAnyHead ==
    /\ pc = "idle"
    /\ plan # None
    /\ work' = plan
    /\ pc' = "verify"
    /\ UNCHANGED <<head, disk, seen, tx, at, changed, restored, failed, late>>

DeployPreflight ==
    /\ pc = "idle"
    /\ plan # None
    /\ head = plan.commit
    /\ work' = plan
    /\ pc' = "verify"
    /\ UNCHANGED <<head, disk, seen, tx, at, changed, restored, failed, late>>

\* A variant that numbers the transaction after it has been created.
NumberedTwice ==
    /\ pc = "verify"
    /\ Source[head] = work.desired
    /\ live = work.before
    /\ Len(txs) < MaxTx
    /\ txs' = Append(txs, [status |-> "running", commit |-> work.commit,
                           before |-> work.before, desired |-> work.desired,
                           changed |-> {}, backup |-> [t \in Targets |-> None]])
    /\ tx' = Len(txs') + 1
    /\ at' = 1
    /\ pc' = "row"
    /\ UNCHANGED <<head, live, plan, pointer, seen, work, changed, restored, failed, late>>

\* verify_plan_targets, then the transaction directory is created.
VerifyPlanTargets ==
    /\ pc = "verify"
    /\ Source[head] = work.desired
    /\ live = work.before
    /\ AttestOnlyUnchanged(work)
    /\ Len(txs) < MaxTx
    /\ txs' = Append(txs, [status |-> "running", commit |-> work.commit,
                           before |-> work.before, desired |-> work.desired,
                           changed |-> {}, backup |-> [t \in Targets |-> None]])
    /\ tx' = Len(txs) + 1
    /\ at' = 1
    /\ pc' = "row"
    /\ UNCHANGED <<head, live, plan, pointer, seen, work, changed, restored, failed, late>>

RowUnchanged ==
    /\ Continue("row", "row")
    /\ at <= Len(Manifest)
    /\ RowState(Row)
    /\ work.before[Row] = work.desired[Row]
    /\ at' = at + 1
    /\ UNCHANGED <<live, pointer, txs, changed, restored, failed>>

Replaceable ==
    /\ at <= Len(Manifest)
    /\ RowState(Row)
    /\ work.before[Row] # work.desired[Row]

\* No backup of a file that is not there.
Backup(t) == IF live[t] = Absent THEN None ELSE live[t]

\* A variant that records the entry only in memory before it touches the file.
PrepareUnrecorded ==
    /\ Continue("row", "install")
    /\ Replaceable
    /\ txs' = [txs EXCEPT ![tx].backup[Row] = Backup(Row)]
    /\ changed' = changed \cup {Row}
    /\ UNCHANGED <<live, pointer, at, restored, failed>>

\* The old file is copied aside and verified, then the entry is recorded.
PrepareRow ==
    /\ Continue("row", "install")
    /\ Replaceable
    /\ txs' = [txs EXCEPT ![tx].changed = @ \cup {Row}, ![tx].backup[Row] = Backup(Row)]
    /\ changed' = changed \cup {Row}
    /\ UNCHANGED <<live, pointer, at, restored, failed>>

\* As PrepareRow, but the entry could not be written to disk.
PrepareRowFails ==
    /\ Continue("row", "undo")
    /\ Replaceable
    /\ txs' = [txs EXCEPT ![tx].backup[Row] = Backup(Row)]
    /\ changed' = changed \cup {Row}
    /\ UNCHANGED <<live, pointer, at, restored, failed>>

\* The source file is copied as it is now, and renamed over the target.
InstallRow ==
    /\ Continue("install", "check")
    /\ Install(Row, Source[head][Row])
    /\ UNCHANGED <<pointer, txs, at, changed, restored, failed>>

CheckRow ==
    /\ Continue("check", "row")
    /\ live[Row] = work.desired[Row]
    /\ at' = at + 1
    /\ UNCHANGED <<live, pointer, txs, changed, restored, failed>>

VerifyFinalState ==
    /\ Continue("row", "preflight")
    /\ at > Len(Manifest)
    /\ FinalState
    /\ UNCHANGED <<live, pointer, txs, at, changed, restored, failed>>

\* host_preflight passed; the final state is verified once more.
HostPreflight ==
    /\ Continue("preflight", "commit")
    /\ FinalState
    /\ UNCHANGED <<live, pointer, txs, at, changed, restored, failed>>

Commit ==
    /\ Continue("commit", "point")
    /\ Status("success")
    /\ UNCHANGED <<live, pointer, at, changed, restored, failed>>

PointLatest ==
    /\ Continue("point", "log")
    /\ pointer' = tx
    /\ UNCHANGED <<live, txs, at, changed, restored, failed>>

DeployPass ==
    /\ pc = "log"
    /\ Leave
    /\ UNCHANGED <<head, disk>>

\* Any exception in the try block.
Raise ==
    /\ \E place \in Applying : Continue(place, "undo")
    /\ UNCHANGED <<live, pointer, txs, at, changed, restored, failed>>

-----------------------------------------------------------------------------
(* deploy: the handler of apply_plan *)

RestoreEntry ==
    /\ Continue("undo", "undo")
    /\ \E t \in Targets : /\ LastOf(t, changed)
                          /\ Install(t, Snapshot(t))
                          /\ changed' = changed \ {t}
    /\ UNCHANGED <<pointer, txs, at, restored, failed>>

\* A variant that gives up at the first entry it cannot restore, and forgets why.
RestoreForgets ==
    /\ Continue("undo", "undo")
    /\ "undo" \in Faults
    /\ \E t \in Targets : LastOf(t, changed) /\ changed' = changed \ {t}
    /\ UNCHANGED <<live, pointer, txs, at, restored, failed>>

\* restore raises, before or after the rename; the others are still restored.
\* It reads the file again, and so raises too if someone else wrote it meanwhile.
RestoreEntryFails ==
    /\ Continue("undo", "undo")
    /\ RestoreMayFail
    /\ \E t \in Targets : /\ LastOf(t, changed)
                          /\ UNCHANGED live \/ Install(t, Snapshot(t))
                          /\ changed' = changed \ {t}
    /\ failed' = TRUE
    /\ UNCHANGED <<pointer, txs, at, restored>>

\* A variant whose handler leaves latest-success alone.
KeepPointer ==
    /\ Continue("undo", "save")
    /\ changed = {}
    /\ UNCHANGED <<live, pointer, txs, at, changed, restored, failed>>

\* latest-success is removed if it names this transaction, or cannot be removed.
RemovePointer ==
    /\ Continue("undo", "save")
    /\ changed = {}
    /\ \/ /\ pointer' = IF pointer = tx THEN 0 ELSE pointer
          /\ UNCHANGED failed
       \/ /\ "undo" \in Faults
          /\ failed' = TRUE
          /\ UNCHANGED pointer
    /\ UNCHANGED <<live, txs, at, changed, restored>>

SaveRolledBack ==
    /\ pc = "save"
    /\ Status(IF failed THEN "rollback_failed" ELSE "rolled_back")
    /\ Leave
    /\ UNCHANGED <<head, live, plan, pointer>>

-----------------------------------------------------------------------------
(* rollback: manual_rollback *)

\* latest_transaction, which must be a success.
RollbackStart ==
    /\ pc = "idle"
    /\ pointer # 0
    /\ txs[pointer].status = "success"
    /\ tx' = pointer
    /\ pc' = "inputs"
    /\ UNCHANGED <<head, disk, seen, work, at, changed, restored, failed, late>>

\* A variant that does not look for later drift.
AnyRollbackInputs ==
    /\ Continue("inputs", "back")
    /\ changed' = txs[tx].changed
    /\ UNCHANGED <<live, pointer, txs, at, restored, failed>>

\* verify_manual_rollback_inputs: no later drift; the backups and the copies of
\* the deployed files (create_forward_snapshot) are sound.
VerifyRollbackInputs ==
    /\ Continue("inputs", "back")
    /\ \A t \in txs[tx].changed : live[t] = txs[tx].desired[t]
    /\ changed' = txs[tx].changed
    /\ UNCHANGED <<live, pointer, txs, at, restored, failed>>

RollBackEntry ==
    /\ Continue("back", "back")
    /\ \E t \in Targets : /\ LastOf(t, changed)
                          /\ Install(t, Snapshot(t))
                          /\ restored' = restored \cup {t}
                          /\ changed' = changed \ {t}
    /\ UNCHANGED <<pointer, txs, at, failed>>

\* A variant that notes an entry as restored only once its restore has returned.
RollBackEntryFailsUnnoted ==
    /\ Continue("back", "redo")
    /\ \E t \in Targets : LastOf(t, changed) /\ (UNCHANGED live \/ Install(t, Snapshot(t)))
    /\ UNCHANGED <<pointer, txs, at, changed, restored, failed>>

RollBackEntryFails ==
    /\ Continue("back", "redo")
    /\ \E t \in Targets : /\ LastOf(t, changed)
                          /\ UNCHANGED live \/ Install(t, Snapshot(t))
                          /\ restored' = restored \cup {t}
    /\ UNCHANGED <<pointer, txs, at, changed, failed>>

SaveManuallyRolledBack ==
    /\ Continue("back", "unlink")
    /\ changed = {}
    /\ \A t \in txs[tx].changed : live[t] = txs[tx].before[t]
    /\ Status("manually_rolled_back")
    /\ UNCHANGED <<live, pointer, at, changed, restored, failed>>

UnlinkPointer ==
    /\ Continue("unlink", "backlog")
    /\ pointer' = 0
    /\ UNCHANGED <<live, txs, at, changed, restored, failed>>

RollbackPass ==
    /\ pc = "backlog"
    /\ Leave
    /\ UNCHANGED <<head, disk>>

\* The verification, a write or the log raises.
RollbackRaises ==
    /\ \/ changed = {} /\ Continue("back", "redo")
       \/ Continue("unlink", "redo")
       \/ Continue("backlog", "redo")
    /\ UNCHANGED <<live, pointer, txs, at, changed, restored, failed>>

\* restore_deployed_state, from the copy made by create_forward_snapshot.
RedoEntry ==
    /\ Continue("redo", "redo")
    /\ \E t \in Targets : /\ FirstOf(t, restored)
                          /\ Install(t, txs[tx].desired[t])
                          /\ restored' = restored \ {t}
    /\ UNCHANGED <<pointer, txs, at, changed, failed>>

RedoEntryFails ==
    /\ Continue("redo", "redo")
    /\ RestoreMayFail
    /\ \E t \in Targets : /\ FirstOf(t, restored)
                          /\ UNCHANGED live \/ Install(t, txs[tx].desired[t])
                          /\ restored' = restored \ {t}
    /\ failed' = TRUE
    /\ UNCHANGED <<pointer, txs, at, changed>>

\* Without compensation errors latest-success is written again.
RewritePointer ==
    /\ Continue("redo", "resave")
    /\ restored = {}
    /\ \/ /\ pointer' = IF failed THEN pointer ELSE tx
          /\ UNCHANGED failed
       \/ /\ "undo" \in Faults
          /\ failed' = TRUE
          /\ UNCHANGED pointer
    /\ UNCHANGED <<live, txs, at, changed, restored>>

SaveCompensated ==
    /\ pc = "resave"
    /\ Status(IF failed THEN "rollback_failed" ELSE "success")
    /\ Leave
    /\ UNCHANGED <<head, live, plan, pointer>>

-----------------------------------------------------------------------------
(* Everyone else *)

\* sync: a fast-forward of main, while anything may be under way.
Sync ==
    /\ head' \in {c \in Commits : c > head}
    /\ UNCHANGED <<disk, memory>>

\* Someone else writes a target file, at any instant.
Drift ==
    /\ "drift" \in Faults
    /\ \E t \in Targets, f \in Foreign :
         /\ Install(t, f)
         /\ late' = late \cup ({t} \cap (changed \cup restored))
    /\ UNCHANGED <<head, plan, pointer, txs, pc, seen, work, tx, at, changed, restored, failed>>

\* The operation dies where it is: it is killed, the power fails or the operator
\* interrupts it (KeyboardInterrupt is no Exception).
Interrupt ==
    /\ "interrupt" \in Faults
    /\ pc # "idle"
    /\ Leave
    /\ UNCHANGED <<head, disk>>

Plan == PlanPreflight \/ TargetPlan \/ PlanExpires \/ Refuse

Deploy ==
    \/ DeployPreflight \/ VerifyPlanTargets
    \/ RowUnchanged \/ PrepareRow \/ PrepareRowFails \/ InstallRow \/ CheckRow
    \/ VerifyFinalState \/ HostPreflight \/ Commit \/ PointLatest \/ DeployPass \/ Raise
    \/ RestoreEntry \/ RestoreEntryFails \/ RemovePointer \/ SaveRolledBack

Rollback ==
    \/ RollbackStart \/ VerifyRollbackInputs
    \/ RollBackEntry \/ RollBackEntryFails
    \/ SaveManuallyRolledBack \/ UnlinkPointer \/ RollbackPass \/ RollbackRaises
    \/ RedoEntry \/ RedoEntryFails \/ RewritePointer \/ SaveCompensated

Next == Plan \/ Deploy \/ Rollback \/ Sync \/ Drift \/ Interrupt

Spec == Init /\ [][Next]_vars

-----------------------------------------------------------------------------
(* Properties *)

\* The three ways an operation on transaction tx may end, of which the first two are about
\* the targets S.
Deployed(S) ==
    /\ txs'[tx].status = "success"
    /\ \A t \in S : live'[t] = txs[tx].desired[t]
    /\ pointer' = tx

Undone(as, S) ==
    /\ txs'[tx].status = as
    /\ \A t \in S : live'[t] = txs[tx].before[t]
    /\ pointer' # tx

Reported == txs'[tx].status = "rollback_failed"

\* "Atomic apply": when deploy returns or raises, either every target holds the
\* planned content and latest-success names the transaction, or every target is as
\* it was and latest-success does not name it, or the transaction says that it
\* could not be undone.
ApplyIsAtomic ==
    [][pc' = "idle" /\ pc \in Applying \cup Undoing
       => Deployed(Targets) \/ Undone("rolled_back", Targets) \/ Reported]_vars

\* "Any exception after an ordinary target enters the mutation set starts automatic
\* rollback" (V12_CONTROLLED_DEPLOY_CONTRACT.md:278): no deployment ends with some of
\* its targets replaced and others not, unless the transaction says so.
MixIsReported ==
    [][pc' = "idle" /\ pc \in Applying \cup Undoing =>
         \/ \A t \in Targets : live[t] = txs[tx].before[t]
         \/ \A t \in Targets : live[t] = txs[tx].desired[t]
         \/ Reported]_vars

\* Some deployment or rollback could not be undone, and says so.
Mixed == \E x \in DOMAIN txs : txs[x].status = "rollback_failed"

\* "Manual rollback": when it returns or raises after its first write, every target
\* is as it was before the deployment and nothing is the latest success, or all of
\* them are deployed again and the transaction is the latest success, or the
\* transaction says that neither could be reached. After a later deployment that
\* could not be undone this is so of the targets that the transaction changed.
RollbackIsAtomic ==
    [][pc' = "idle" /\ pc \in Backing \cup Redoing =>
         LET S == IF Mixed THEN txs[tx].changed ELSE Targets
         IN  Undone("manually_rolled_back", S) \/ Deployed(S) \/ Reported]_vars

\* What the disk holds is enough to undo the deployment by hand at any instant: a
\* target the deployment may have changed is recorded with a backup of what it was.
\* A target that is not recorded is as it was, unless someone else edited it.
RecordedBeforeTouched ==
    pc \in Applying \cup Undoing =>
        \A t \in Targets :
            IF t \in txs[tx].changed THEN Snapshot(t) = txs[tx].before[t]
            ELSE live[t] \in {txs[tx].before[t]} \cup Foreign

\* latest-success proves a commit: it names a transaction that got past every check,
\* of exactly the files of the commit it records, and never one that was undone.
PointerProvesCommit ==
    pointer # 0 =>
        /\ txs[pointer].desired = Source[txs[pointer].commit]
        /\ txs[pointer].status \notin {"running", "rolled_back"}

\* V12_FINDINGS.md, review finding 1: while no operation is under way, a transaction
\* that appears to be the latest success is what the host runs, unless some
\* transaction is on record as rollback_failed.
LatestSuccessIsLive ==
    pc = "idle" /\ pointer # 0 /\ txs[pointer].status = "success" =>
        live = txs[pointer].desired \/ Mixed

\* "Immediately before processing each row ... the engine rechecks" the live file, and
\* a rollback "refuses to overwrite later content" (V12_CONTROLLED_DEPLOY_CONTRACT.md:
\* 251, 304): what someone else wrote is only replaced by a deployment whose reviewed
\* plan shows that very content, unless it was written while the operation at work had
\* the target on its list already.  Such an edit is overwritten, by the rename or by
\* what undoes it.
DriftIsReviewed ==
    [][\A t \in Targets :
         live[t] \in Foreign /\ live'[t] \notin Foreign =>
             tx # 0 /\ (txs[tx].before[t] = live[t] \/ t \in late)]_vars

\* The V25 backup bundle is never written by the engine: neither when a plan that was
\* made for another bundle is applied nor when something is undone. Others may write it.
AttestedIsUntouched ==
    [][\A t \in AttestOnly : live'[t] = live[t] \/ Drift]_vars
=============================================================================
