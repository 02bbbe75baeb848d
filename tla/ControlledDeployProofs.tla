------------------------ MODULE ControlledDeployProofs ------------------------
(* Theorems about the controlled deploy engine, for every manifest, every      *)
(* history of main and every number of transactions.                           *)
EXTENDS ControlledDeploy, SequenceTheorems, TLAPS

OnTx == Applying \cup Undoing \cup Backing \cup Redoing

-----------------------------------------------------------------------------
(* The inductive invariant                                                     *)

\* What an operation has in memory at each place.
Places ==
    /\ pc \in {"idle", "planning", "verify"} => tx = 0
    /\ pc \in {"idle", "planning", "verify", "inputs"} => changed = {} /\ restored = {} /\ ~failed
    /\ pc \in {"inputs"} \cup OnTx => tx # 0
    /\ pc = "planning" => seen \in Commits /\ seen <= head
    /\ pc \in {"verify"} \cup Applying \cup Undoing => work \in Plans
    /\ pc = "row" => at >= 1
    /\ pc \in {"install", "check"} => at \in DOMAIN Manifest
    /\ pc \in Applying \cup Undoing => restored = {}
    /\ pc \in Applying \cup Backing => ~failed
    /\ pc \in {"save", "unlink", "backlog"} => changed = {}
    /\ pc = "resave" => restored = {}

\* A plan that still can be applied is the plan of its commit, even if main moved while it was
\* made.
PlanOfCommit ==
    /\ plan # None => plan.commit <= head /\ (plan.commit = head => plan.desired = Source[head])
    /\ pc \in {"verify"} \cup Applying \cup Undoing => work.desired = Source[work.commit]

\* The transaction at work is that of the plan.
OfPlan ==
    pc \in Applying \cup Undoing =>
        /\ txs[tx].before = work.before /\ txs[tx].desired = work.desired
        /\ \A t \in AttestOnly : work.before[t] = work.desired[t]

\* What was there before can be restored.
Saved(x, t) == txs[x].before[t] = Absent \/ txs[x].backup[t] = txs[x].before[t]

Recorded ==
    \A x \in DOMAIN txs :
        /\ txs[x].desired = Source[txs[x].commit]
        /\ \A t \in txs[x].changed : t \notin AttestOnly /\ Saved(x, t)

StatusOfPlace ==
    /\ pc \in Applying \ {"point", "log"} => txs[tx].status = "running"
    /\ pc \in {"point", "log", "inputs", "back"} => txs[tx].status = "success"
    /\ pc \in Undoing => txs[tx].status \in {"running", "success"}
    /\ pc \in {"unlink", "backlog"} => txs[tx].status = "manually_rolled_back"
    /\ pc \in Redoing => txs[tx].status \in {"success", "manually_rolled_back"}

PointerOfPlace ==
    /\ pointer # 0 => pointer \in DOMAIN txs /\ txs[pointer].status \notin {"running", "rolled_back"}
    /\ pc = "inputs" => pointer = tx
    /\ pc = "save" => failed \/ pointer # tx

\* The rows up to the one at work.
Passed(n) == {Manifest[i] : i \in {j \in DOMAIN Manifest : j < n}}

\* Entries to undo were saved and are not attested. Unless someone wrote them since they were
\* listed, they are as they were, or as a commit wants them; at the place where one is about to
\* be replaced, it is as it was.
Entries ==
    pc \in Applying \cup Undoing =>
        /\ \A t \in changed :
              /\ t \notin AttestOnly /\ Saved(tx, t)
              /\ \/ t \in late
                 \/ live[t] = txs[tx].before[t]
                 \/ \E c \in Commits : live[t] = Source[c][t]
        /\ pc = "row" => changed \subseteq Passed(at)
        /\ pc \in {"install", "check"} => /\ changed \subseteq Passed(at + 1)
                                          /\ Row \in changed \cap txs[tx].changed
        /\ pc = "install" => Row \in late \/ live[Row] = txs[tx].before[Row]

Others == IF "drift" \in Faults THEN Foreign ELSE {}

\* What has not been recorded has not been touched.
Unrecorded ==
    pc \in Applying \cup Undoing =>
        \A t \in Targets : t \notin txs[tx].changed => live[t] \in {txs[tx].before[t]} \cup Others

\* A manual rollback writes what the transaction changed: what is left to restore is as
\* deployed, what it restored is as deployed or as before, unless someone wrote it since.
BackEntries ==
    pc \in Backing \cup Redoing =>
        /\ changed \subseteq txs[tx].changed /\ restored \subseteq txs[tx].changed
        /\ pc = "back" => \A t \in changed : t \in late \/ live[t] = txs[tx].desired[t]
        /\ \A t \in restored : t \in late \/ live[t] \in {txs[tx].before[t], txs[tx].desired[t]}

IInv ==
    /\ TypeOK /\ Places /\ PlanOfCommit /\ OfPlan /\ Recorded
    /\ StatusOfPlace /\ PointerOfPlace /\ Entries /\ Unrecorded /\ BackEntries

-----------------------------------------------------------------------------
(* The strengthening without interruptions and foreign edits                   *)

\* What a rollback answers for.
Accounted == IF Mixed THEN txs[tx].changed ELSE Targets

\* The latest success is what the host runs, or ran before the deployment at work.
SuccessBelow ==
    pointer # 0 /\ txs[pointer].status = "success" /\ ~Mixed =>
        /\ pc \in {"idle", "planning", "verify", "inputs"} => live = txs[pointer].desired
        /\ pc \in Applying \cup Undoing /\ pointer # tx => txs[tx].before = txs[pointer].desired

\* A deployment that got past its checks changed nothing that is not recorded.
KeptRows ==
    \A x \in DOMAIN txs :
        txs[x].status \in {"success", "manually_rolled_back"} =>
            \A t \in Targets \ txs[x].changed : txs[x].before[t] = txs[x].desired[t]

ApplyExact ==
    /\ pc \in Applying \cup Undoing /\ ~failed =>
          \A t \in Targets \ changed : live[t] = txs[tx].before[t]
    /\ pc \in {"commit", "point", "log"} => live = txs[tx].desired
    /\ pc = "log" => pointer = tx

RollbackExact ==
    /\ pc \in Backing => txs[tx].changed = changed \cup restored
    /\ pc \in {"back", "redo", "resave"} /\ ~failed =>
          \A t \in Accounted \ restored : live[t] = txs[tx].desired[t]
    /\ pc \in {"unlink", "backlog"} => \A t \in Accounted : live[t] = txs[tx].before[t]
    /\ pc = "backlog" => pointer = 0
    /\ pc = "resave" /\ ~failed => pointer = tx

ErrorsInv == IInv /\ SuccessBelow /\ KeptRows /\ ApplyExact /\ RollbackExact

-----------------------------------------------------------------------------
(* Lemmas about the constants and the transactions on disk                     *)

LEMMA ConstantFacts ==
    /\ Commits = 1 .. Len(Source) /\ Len(Source) \in Nat /\ 1 \in Commits
    /\ Commits \subseteq Nat
    /\ \A c \in Commits : Source[c] \in [Targets -> Contents] /\ Source[c] \in Files
    /\ DOMAIN Manifest = 1 .. Len(Manifest) /\ Len(Manifest) \in Nat
    /\ \A i \in DOMAIN Manifest : Manifest[i] \in Targets
  <1>1. Source \in Seq([Targets -> Contents]) /\ Source # <<>> /\ Manifest \in Seq(Targets)
    BY ConstantsAssumption
  <1>2. Len(Source) \in Nat /\ DOMAIN Source = 1 .. Len(Source) /\ Len(Source) # 0
    BY <1>1
  <1>3. \A c \in Commits : Source[c] \in [Targets -> Contents]
    BY <1>1 DEF Commits
  <1>4. QED
    BY <1>1, <1>2, <1>3 DEF Commits, Files

\* The parts of a transaction.
LEMMA TransactionFacts ==
    ASSUME NEW r \in Transaction
    PROVE  /\ r.status \in Statuses /\ r.commit \in Commits /\ r.before \in Files
           /\ r.desired \in Files /\ r.changed \subseteq Targets
           /\ r.backup \in [Targets -> Contents \cup {None}]
  BY DEF Transaction

\* What no step changes in a transaction on disk.
SameReview(x) ==
    txs'[x].commit = txs[x].commit /\ txs'[x].before = txs[x].before /\ txs'[x].desired = txs[x].desired

SameRecord(x) == txs'[x].changed = txs[x].changed /\ txs'[x].backup = txs[x].backup

\* A transaction at work is one on disk.
LEMMA AtWork ==
    ASSUME TypeOK, tx # 0
    PROVE  tx \in DOMAIN txs /\ txs[tx] \in Transaction /\ DOMAIN txs = 1 .. Len(txs) /\ Len(txs) \in Nat
  BY DEF TypeOK

LEMMA StatusEntry ==
    ASSUME TypeOK, tx # 0, NEW s \in Statuses, Status(s)
    PROVE  /\ txs' \in Seq(Transaction) /\ Len(txs') = Len(txs) /\ DOMAIN txs' = DOMAIN txs
           /\ txs'[tx].status = s
           /\ \A x \in DOMAIN txs : /\ SameReview(x) /\ SameRecord(x)
                                    /\ x # tx => txs'[x].status = txs[x].status
  <1>1. tx \in DOMAIN txs /\ txs[tx] \in Transaction /\ txs \in Seq(Transaction)
    BY AtWork DEF TypeOK
  <1>2. [txs[tx] EXCEPT !.status = s] \in Transaction
    BY <1>1 DEF Transaction
  <1>3. txs' = [txs EXCEPT ![tx] = [txs[tx] EXCEPT !.status = s]]
    BY DEF Status
  <1>4. txs' \in Seq(Transaction) /\ Len(txs') = Len(txs) /\ DOMAIN txs' = DOMAIN txs
    BY <1>1, <1>2, <1>3
  <1>5. txs'[tx] = [txs[tx] EXCEPT !.status = s] /\ \A x \in DOMAIN txs \ {tx} : txs'[x] = txs[x]
    BY <1>1, <1>3
  <1>6. SameReview(tx) /\ SameRecord(tx) /\ txs'[tx].status = s
    BY <1>1, <1>5 DEF SameReview, SameRecord, Transaction
  <1>7. QED
    BY <1>4, <1>5, <1>6 DEF SameReview, SameRecord

\* As PrepareRow and PrepareRowFails write the entry of row t.
EntryWritten(t, recorded) ==
    txs' = [txs EXCEPT ![tx].changed = @ \cup recorded, ![tx].backup[t] = Backup(t)]

LEMMA RowEntry ==
    ASSUME TypeOK, tx # 0, NEW t \in Targets, NEW recorded \in SUBSET Targets, EntryWritten(t, recorded)
    PROVE  /\ txs' \in Seq(Transaction) /\ Len(txs') = Len(txs) /\ DOMAIN txs' = DOMAIN txs
           /\ \A x \in DOMAIN txs : SameReview(x) /\ txs'[x].status = txs[x].status
           /\ \A x \in DOMAIN txs \ {tx} : SameRecord(x)
           /\ txs'[tx].changed = txs[tx].changed \cup recorded
           /\ txs'[tx].backup[t] = Backup(t)
           /\ \A u \in Targets \ {t} : txs'[tx].backup[u] = txs[tx].backup[u]
  <1> DEFINE r == [txs[tx] EXCEPT !.changed = @ \cup recorded, !.backup = [@ EXCEPT ![t] = Backup(t)]]
  <1>1. tx \in DOMAIN txs /\ txs[tx] \in Transaction /\ txs \in Seq(Transaction)
    BY AtWork DEF TypeOK
  <1>2. Backup(t) \in Contents \cup {None}
    BY DEF Backup, TypeOK, Files
  <1>3. /\ r \in Transaction
        /\ r.commit = txs[tx].commit /\ r.before = txs[tx].before /\ r.desired = txs[tx].desired
        /\ r.status = txs[tx].status /\ r.changed = txs[tx].changed \cup recorded
        /\ r.backup = [txs[tx].backup EXCEPT ![t] = Backup(t)]
    BY <1>1, <1>2 DEF Transaction
  <1>4. r.backup[t] = Backup(t) /\ \A u \in Targets \ {t} : r.backup[u] = txs[tx].backup[u]
    BY <1>1, <1>3 DEF Transaction
  <1>5. txs' = [txs EXCEPT ![tx] = r]
    BY <1>1 DEF EntryWritten
  <1> HIDE DEF r
  <1>6. txs' \in Seq(Transaction) /\ Len(txs') = Len(txs) /\ DOMAIN txs' = DOMAIN txs
    BY <1>1, <1>3, <1>5
  <1>7. txs'[tx] = r /\ \A x \in DOMAIN txs \ {tx} : txs'[x] = txs[x]
    BY <1>1, <1>5
  <1>8. QED
    BY <1>3, <1>4, <1>6, <1>7 DEF SameReview, SameRecord

LEMMA NewEntry ==
    ASSUME TypeOK, work \in Plans, VerifyPlanTargets
    PROVE  /\ txs' \in Seq(Transaction) /\ Len(txs') = Len(txs) + 1 /\ Len(txs') <= MaxTx
           /\ DOMAIN txs' = DOMAIN txs \cup {tx'} /\ tx' = Len(txs) + 1 /\ tx' \notin DOMAIN txs
           /\ \A x \in DOMAIN txs : txs'[x] = txs[x]
           /\ txs'[tx'].status = "running" /\ txs'[tx'].commit = work.commit
           /\ txs'[tx'].before = work.before /\ txs'[tx'].desired = work.desired
           /\ txs'[tx'].changed = {} /\ txs'[tx'].backup \in [Targets -> {None}]
  <1> DEFINE r == [status |-> "running", commit |-> work.commit,
                   before |-> work.before, desired |-> work.desired,
                   changed |-> {}, backup |-> [t \in Targets |-> None]]
  <1>1. r \in Transaction
    BY DEF Plans, Transaction, Statuses
  <1>2. /\ r.status = "running" /\ r.commit = work.commit /\ r.before = work.before
        /\ r.desired = work.desired /\ r.changed = {} /\ r.backup \in [Targets -> {None}]
    OBVIOUS
  <1>3. txs' = Append(txs, r) /\ tx' = Len(txs) + 1 /\ Len(txs) < MaxTx
    BY DEF VerifyPlanTargets
  <1> HIDE DEF r
  <1>4. txs \in Seq(Transaction) /\ MaxTx \in Nat /\ Len(txs) \in Nat
    BY ConstantsAssumption DEF TypeOK
  <1>5. /\ txs' \in Seq(Transaction) /\ Len(txs') = Len(txs) + 1
        /\ txs'[Len(txs) + 1] = r /\ \A x \in 1 .. Len(txs) : txs'[x] = txs[x]
    BY <1>1, <1>3, <1>4, AppendProperties
  <1>6. DOMAIN txs' = 1 .. Len(txs) + 1 /\ DOMAIN txs = 1 .. Len(txs)
    BY <1>4, <1>5
  <1>7. QED
    BY <1>2, <1>3, <1>4, <1>5, <1>6

-----------------------------------------------------------------------------
(* Types                                                                       *)

\* Contents of target files that restore and install write are fingerprints.
LEMMA LiveType ==
    ASSUME TypeOK, NEW t \in Targets, NEW f \in Contents \cup {Absent}, Install(t, f)
    PROVE  /\ live' \in Files /\ live'[t] = f
           /\ \A u \in Targets \ {t} : live'[u] = live[u]
  BY DEF TypeOK, Files, Install

\* Of a saved entry, the snapshot is what was there before.
LEMMA SnapshotOfSaved ==
    ASSUME TypeOK, tx # 0, NEW t \in Targets, Saved(tx, t)
    PROVE  Snapshot(t) = txs[tx].before[t] /\ Snapshot(t) \in Contents \cup {Absent}
  <1>1. txs[tx].before[t] \in Contents \cup {Absent}
    BY AtWork, TransactionFacts DEF Files
  <1>2. QED
    BY <1>1 DEF Saved, Snapshot

LEMMA RowFacts ==
    ASSUME at \in DOMAIN Manifest
    PROVE  Row \in Targets
  BY ConstantFacts DEF Row

LEMMA TypeInit == Init => TypeOK
  <1> SUFFICES ASSUME Init PROVE TypeOK
    OBVIOUS
  <1>1. head \in Commits /\ live \in Files /\ txs \in Seq(Transaction) /\ Len(txs) <= MaxTx
    BY ConstantsAssumption, ConstantFacts DEF Init
  <1>2. /\ plan \in Plans \cup {None} /\ work \in Plans \cup {None} /\ failed \in BOOLEAN
        /\ pc = "idle" /\ tx = 0 /\ pointer = 0 /\ seen = 0 /\ changed = {} /\ restored = {}
        /\ late = {}
    BY DEF Init
  <1>3. at \in 0 .. Len(Manifest) + 1
    BY ConstantFacts DEF Init
  <1>4. QED
    BY <1>1, <1>2, <1>3 DEF TypeOK

LEMMA LeaveType ==
    ASSUME TypeOK, Leave
    PROVE  /\ pc' = "idle" /\ seen' \in Commits \cup {0} /\ work' \in Plans \cup {None}
           /\ tx' = 0 /\ at' \in 0 .. Len(Manifest) + 1
           /\ changed' \subseteq Targets /\ restored' \subseteq Targets /\ failed' \in BOOLEAN
           /\ late' \subseteq Targets
  <1>1. /\ pc' = "idle" /\ seen' = 0 /\ work' = None /\ tx' = 0
        /\ changed' = {} /\ restored' = {} /\ failed' = FALSE /\ late' = {}
    BY DEF Leave
  <1>2. at' \in 0 .. Len(Manifest) + 1
    BY ConstantFacts DEF Leave
  <1>3. failed' \in BOOLEAN
    BY <1>1
  <1>4. QED
    BY <1>1, <1>2, <1>3

\* Entries that a handler or a rollback is about to restore are saved.
LEMMA EntriesSaved ==
    ASSUME IInv, pc \in {"undo", "back"}, NEW t \in changed
    PROVE  t \in Targets /\ tx # 0 /\ Saved(tx, t) /\ t \notin AttestOnly
  <1>1. TypeOK /\ tx # 0 /\ t \in Targets
    BY DEF IInv, TypeOK, Places, OnTx, Undoing, Backing
  <1>2. CASE pc = "undo"
    BY <1>1, <1>2 DEF IInv, Entries, Undoing
  <1>3. CASE pc = "back"
    <2>1. t \in txs[tx].changed
      BY <1>3 DEF IInv, BackEntries, Backing
    <2>2. QED
      BY <1>1, <2>1, AtWork DEF IInv, Recorded
  <1>4. QED
    BY <1>2, <1>3

LEMMA TypeStep == IInv /\ [Next]_vars => TypeOK'
  <1> SUFFICES ASSUME IInv, [Next]_vars PROVE TypeOK'
    OBVIOUS
  <1> USE DEF disk, memory
  <1>0. TypeOK /\ Places
    BY DEF IInv
  <1>1. CASE PlanPreflight
    BY <1>0, <1>1 DEF PlanPreflight, TypeOK
  <1>2. CASE TargetPlan
    <2>1. plan' \in Plans
      BY <1>0, <1>2, ConstantFacts DEF TargetPlan, TypeOK, Places, Plans
    <2>2. QED
      BY <1>0, <1>2, <2>1, LeaveType DEF TargetPlan, TypeOK
  <1>3. CASE PlanExpires
    BY <1>0, <1>3 DEF PlanExpires, TypeOK
  <1>4. CASE Refuse \/ DeployPass \/ RollbackPass \/ Interrupt
    <2>1. Leave /\ UNCHANGED <<head, disk>>
      BY <1>4 DEF Refuse, DeployPass, RollbackPass, Interrupt
    <2>2. QED
      BY <1>0, <2>1, LeaveType DEF TypeOK
  <1>5. CASE DeployPreflight
    BY <1>0, <1>5 DEF DeployPreflight, TypeOK
  <1>6. CASE VerifyPlanTargets
    <2>1. work \in Plans
      BY <1>0, <1>6 DEF VerifyPlanTargets, Places
    <2>2. at' \in 0 .. Len(Manifest) + 1
      BY <1>6, ConstantFacts DEF VerifyPlanTargets
    <2>3. QED
      BY <1>0, <1>6, <2>1, <2>2, NewEntry DEF VerifyPlanTargets, TypeOK, Applying
  <1>7. CASE RowUnchanged \/ CheckRow
    <2>1. at' \in 0 .. Len(Manifest) + 1
      BY <1>0, <1>7, ConstantFacts DEF RowUnchanged, CheckRow, TypeOK, Places, Continue
    <2>2. QED
      BY <1>0, <1>7, <2>1 DEF RowUnchanged, CheckRow, TypeOK, Continue, Applying
  <1>8. CASE PrepareRow \/ PrepareRowFails
    <2>1. at \in DOMAIN Manifest /\ Row \in Targets /\ tx # 0
      BY <1>0, <1>8, ConstantFacts, RowFacts
         DEF PrepareRow, PrepareRowFails, Replaceable, Continue, TypeOK, Places, OnTx, Applying
    <2>2. PICK recorded \in SUBSET Targets : EntryWritten(Row, recorded)
      <3>1. CASE PrepareRow
        BY <2>1, <3>1 DEF PrepareRow, EntryWritten
      <3>2. CASE PrepareRowFails
        <4>1. EntryWritten(Row, {})
          BY <1>0, <2>1, <3>2, AtWork, TransactionFacts DEF PrepareRowFails, EntryWritten
        <4>2. QED
          BY <4>1
      <3>3. QED
        BY <1>8, <3>1, <3>2
    <2>3. txs' \in Seq(Transaction) /\ Len(txs') = Len(txs) /\ DOMAIN txs' = DOMAIN txs
      BY <1>0, <2>1, <2>2, RowEntry
    <2>4. QED
      BY <1>0, <1>8, <2>1, <2>3 DEF PrepareRow, PrepareRowFails, TypeOK, Continue, Applying, Undoing
  <1>9. CASE InstallRow
    <2>1. Row \in Targets
      BY <1>0, <1>9, RowFacts DEF InstallRow, Continue, Places
    <2>2. Source[head][Row] \in Contents
      BY <1>0, <2>1, ConstantFacts DEF TypeOK
    <2>3. QED
      BY <1>0, <1>9, <2>1, <2>2, LiveType DEF InstallRow, TypeOK, Continue, Applying
  <1>10. CASE VerifyFinalState \/ HostPreflight \/ Raise \/ RollbackRaises
    BY <1>0, <1>10 DEF VerifyFinalState, HostPreflight, Raise, RollbackRaises, TypeOK, Continue,
                       Applying, Undoing, Redoing
  <1>11. CASE Commit \/ SaveManuallyRolledBack
    <2>1. tx # 0
      BY <1>0, <1>11 DEF Commit, SaveManuallyRolledBack, Continue, Places, OnTx, Applying, Backing
    <2>2. txs' \in Seq(Transaction) /\ Len(txs') = Len(txs) /\ DOMAIN txs' = DOMAIN txs
      BY <1>0, <1>11, <2>1, StatusEntry DEF Commit, SaveManuallyRolledBack, Statuses
    <2>3. QED
      BY <1>0, <1>11, <2>2 DEF Commit, SaveManuallyRolledBack, Continue, TypeOK, Applying, Backing
  <1>12. CASE SaveRolledBack \/ SaveCompensated
    <2>1. tx # 0
      BY <1>0, <1>12 DEF SaveRolledBack, SaveCompensated, Places, OnTx, Undoing, Redoing
    <2>2. PICK s \in Statuses : Status(s)
      BY <1>12 DEF SaveRolledBack, SaveCompensated, Statuses
    <2>3. txs' \in Seq(Transaction) /\ Len(txs') = Len(txs)
      BY <1>0, <2>1, <2>2, StatusEntry
    <2>4. QED
      BY <1>0, <1>12, <2>3, LeaveType DEF SaveRolledBack, SaveCompensated, TypeOK
  <1>13. CASE PointLatest \/ UnlinkPointer \/ RemovePointer \/ RewritePointer
    <2>1. tx \in {0} \cup TxIds
      BY <1>0, ConstantsAssumption DEF TypeOK, TxIds
    <2>2. pointer' \in {0} \cup TxIds
      BY <1>0, <1>13, <2>1 DEF PointLatest, UnlinkPointer, RemovePointer, RewritePointer, Continue, TypeOK
    <2>3. failed' \in BOOLEAN
      BY <1>0, <1>13 DEF PointLatest, UnlinkPointer, RemovePointer, RewritePointer, TypeOK
    <2>4. QED
      BY <1>0, <1>13, <2>2, <2>3 DEF PointLatest, UnlinkPointer, RemovePointer, RewritePointer, Continue,
                               TypeOK, Applying, Undoing, Backing, Redoing
  <1>14. CASE RestoreEntry \/ RestoreEntryFails \/ RollBackEntry \/ RollBackEntryFails
    <2>1. PICK t \in Targets : /\ LastOf(t, changed)
                               /\ UNCHANGED live \/ Install(t, Snapshot(t))
                               /\ changed' \in {changed, changed \ {t}}
                               /\ restored' \in {restored, restored \cup {t}}
      BY <1>14 DEF RestoreEntry, RestoreEntryFails, RollBackEntry, RollBackEntryFails
    <2>2. Snapshot(t) \in Contents \cup {Absent}
      BY <1>0, <1>14, <2>1, EntriesSaved, SnapshotOfSaved
         DEF LastOf, RestoreEntry, RestoreEntryFails, RollBackEntry, RollBackEntryFails, Continue
    <2>3. live' \in Files
      BY <1>0, <2>1, <2>2, LiveType DEF TypeOK
    <2>4. failed' \in BOOLEAN
      BY <1>0, <1>14 DEF RestoreEntry, RestoreEntryFails, RollBackEntry, RollBackEntryFails, TypeOK
    <2>5. QED
      BY <1>0, <1>14, <2>1, <2>3, <2>4
         DEF RestoreEntry, RestoreEntryFails, RollBackEntry, RollBackEntryFails, Continue, TypeOK,
             Undoing, Backing, Redoing
  <1>15. CASE RollbackStart \/ VerifyRollbackInputs
    <2>1. tx' \in {0} \cup DOMAIN txs
      BY <1>0, <1>15 DEF RollbackStart, VerifyRollbackInputs, Continue, TypeOK, IInv, PointerOfPlace
    <2>2. changed' \subseteq Targets
      <3>1. CASE VerifyRollbackInputs
        BY <1>0, <3>1, AtWork, TransactionFacts
           DEF VerifyRollbackInputs, Continue, Places
      <3>2. CASE RollbackStart
        BY <1>0, <3>2 DEF RollbackStart, TypeOK
      <3>3. QED
        BY <1>15, <3>1, <3>2
    <2>3. QED
      BY <1>0, <1>15, <2>1, <2>2 DEF RollbackStart, VerifyRollbackInputs, Continue, TypeOK, Backing
  <1>16. CASE RedoEntry \/ RedoEntryFails
    <2>1. PICK t \in Targets : /\ UNCHANGED live \/ Install(t, txs[tx].desired[t])
                               /\ restored' = restored \ {t}
      BY <1>16 DEF RedoEntry, RedoEntryFails
    <2>2. tx # 0
      BY <1>0, <1>16 DEF RedoEntry, RedoEntryFails, Continue, Places, OnTx, Redoing
    <2>3. txs[tx].desired[t] \in Contents \cup {Absent}
      BY <1>0, <2>1, <2>2, AtWork, TransactionFacts DEF Files
    <2>4. live' \in Files
      BY <1>0, <2>1, <2>3, LiveType DEF TypeOK
    <2>5. failed' \in BOOLEAN
      BY <1>0, <1>16 DEF RedoEntry, RedoEntryFails, TypeOK
    <2>6. QED
      BY <1>0, <1>16, <2>1, <2>4, <2>5 DEF RedoEntry, RedoEntryFails, Continue, TypeOK, Redoing
  <1>17. CASE Sync
    BY <1>0, <1>17 DEF Sync, TypeOK
  <1>18. CASE Drift
    <2>1. PICK t \in Targets, f \in Foreign : Install(t, f)
      BY <1>18 DEF Drift
    <2>2. f \in Contents \cup {Absent}
      BY ConstantsAssumption
    <2>3. live' \in Files
      BY <1>0, <2>1, <2>2, LiveType
    <2>4. QED
      BY <1>0, <1>18, <2>3 DEF Drift, TypeOK
  <1>19. CASE UNCHANGED vars
    BY <1>0, <1>19 DEF vars, TypeOK
  <1>20. QED
    BY <1>1, <1>2, <1>3, <1>4, <1>5, <1>6, <1>7, <1>8, <1>9, <1>10, <1>11, <1>12, <1>13, <1>14,
       <1>15, <1>16, <1>17, <1>18, <1>19 DEF Next, Plan, Deploy, Rollback

-----------------------------------------------------------------------------
(* Places, and the plan                                                        *)

\* An operation that ends leaves nothing in memory.
LEMMA AtRest ==
    ASSUME Leave
    PROVE  Places' /\ OfPlan' /\ StatusOfPlace' /\ Entries' /\ Unrecorded' /\ BackEntries'
  <1>1. pc' = "idle" /\ tx' = 0 /\ changed' = {} /\ restored' = {} /\ ~failed'
    BY DEF Leave
  <1>2. QED
    BY <1>1 DEF Places, OfPlan, StatusOfPlace, Entries, Unrecorded, BackEntries,
                OnTx, Applying, Undoing, Backing, Redoing

LEMMA PlacesStep == IInv /\ [Next]_vars => Places'
  <1> SUFFICES ASSUME IInv, [Next]_vars PROVE Places'
    OBVIOUS
  <1> USE DEF disk, memory, OnTx, Applying, Undoing, Backing, Redoing
  <1>0. TypeOK /\ Places
    BY DEF IInv
  <1>1. ASSUME Leave PROVE Places'
    BY <1>1, AtRest
  <1>2. CASE TargetPlan \/ Refuse \/ DeployPass \/ RollbackPass \/ Interrupt
             \/ SaveRolledBack \/ SaveCompensated
    BY <1>1, <1>2 DEF TargetPlan, Refuse, DeployPass, RollbackPass, Interrupt,
                      SaveRolledBack, SaveCompensated
  <1>3. CASE PlanPreflight
    BY <1>0, <1>3, ConstantFacts DEF PlanPreflight, Places, TypeOK
  <1>4. CASE PlanExpires
    BY <1>0, <1>4 DEF PlanExpires, Places
  <1>5. CASE DeployPreflight
    BY <1>0, <1>5 DEF DeployPreflight, Places, TypeOK
  <1>6. CASE VerifyPlanTargets
    <2>1. tx' # 0
      BY <1>0, <1>6, NewEntry DEF VerifyPlanTargets, Places, TypeOK
    <2>2. QED
      BY <1>0, <1>6, <2>1 DEF VerifyPlanTargets, Places
  <1>7. CASE RowUnchanged \/ CheckRow
    <2>1. at' >= 1
      BY <1>0, <1>7, ConstantFacts DEF RowUnchanged, CheckRow, Places, TypeOK, Continue
    <2>2. QED
      BY <1>0, <1>7, <2>1 DEF RowUnchanged, CheckRow, Places, Continue
  <1>8. CASE PrepareRow \/ PrepareRowFails
    <2>1. at \in DOMAIN Manifest
      BY <1>0, <1>8, ConstantFacts
         DEF PrepareRow, PrepareRowFails, Replaceable, Continue, TypeOK, Places
    <2>2. QED
      BY <1>0, <1>8, <2>1 DEF PrepareRow, PrepareRowFails, Places, Continue
  <1>9. CASE InstallRow
    BY <1>0, <1>9 DEF InstallRow, Places, Continue
  <1>10. CASE VerifyFinalState \/ HostPreflight \/ Raise \/ RollbackRaises
    BY <1>0, <1>10 DEF VerifyFinalState, HostPreflight, Raise, RollbackRaises, Places, Continue
  <1>11. CASE Commit \/ SaveManuallyRolledBack
    BY <1>0, <1>11 DEF Commit, SaveManuallyRolledBack, Continue, Places
  <1>12. CASE PointLatest \/ UnlinkPointer \/ RemovePointer \/ RewritePointer
    BY <1>0, <1>12 DEF PointLatest, UnlinkPointer, RemovePointer, RewritePointer, Continue, Places
  <1>13. CASE RestoreEntry \/ RestoreEntryFails \/ RollBackEntry \/ RollBackEntryFails
    BY <1>0, <1>13 DEF RestoreEntry, RestoreEntryFails, RollBackEntry, RollBackEntryFails, Continue, Places
  <1>14. CASE RollbackStart \/ VerifyRollbackInputs
    BY <1>0, <1>14 DEF RollbackStart, VerifyRollbackInputs, Continue, Places
  <1>15. CASE RedoEntry \/ RedoEntryFails
    BY <1>0, <1>15 DEF RedoEntry, RedoEntryFails, Continue, Places
  <1>16. CASE Sync
    <2>1. head' >= head
      BY <1>0, <1>16, ConstantFacts DEF Sync, TypeOK
    <2>2. QED
      BY <1>0, <1>16, <2>1, ConstantFacts DEF Sync, Places, TypeOK
  <1>17. CASE Drift
    BY <1>0, <1>17 DEF Drift, Places
  <1>18. CASE UNCHANGED vars
    BY <1>0, <1>18 DEF vars, Places
  <1>19. QED
    BY <1>2, <1>3, <1>4, <1>5, <1>6, <1>7, <1>8, <1>9, <1>10, <1>11, <1>12, <1>13, <1>14,
       <1>15, <1>16, <1>17, <1>18 DEF Next, Plan, Deploy, Rollback

\* Where the plan and the head are changed.
LEMMA PlanFrame ==
    ASSUME Next
    PROVE  /\ Sync \/ UNCHANGED head
           /\ TargetPlan \/ PlanExpires \/ UNCHANGED plan
           /\ \/ pc' \in {"idle", "planning"} \/ DeployPreflight
              \/ pc' \in {"inputs"} \cup Backing \cup Redoing
              \/ UNCHANGED work /\ (pc \in {"verify"} \cup Applying \cup Undoing \/ UNCHANGED pc)
  <1> USE DEF disk, memory, Leave, Continue, Applying, Undoing, Backing, Redoing
  <1>1. CASE PlanPreflight \/ TargetPlan \/ PlanExpires \/ Refuse \/ DeployPreflight \/ VerifyPlanTargets
             \/ Sync \/ Drift \/ Interrupt
    BY <1>1 DEF PlanPreflight, TargetPlan, PlanExpires, Refuse, DeployPreflight, VerifyPlanTargets,
                Sync, Drift, Interrupt
  <1>2. CASE RowUnchanged \/ PrepareRow \/ PrepareRowFails \/ InstallRow \/ CheckRow \/ VerifyFinalState
             \/ HostPreflight \/ Commit \/ PointLatest \/ DeployPass \/ Raise
    BY <1>2 DEF RowUnchanged, PrepareRow, PrepareRowFails, InstallRow, CheckRow, VerifyFinalState,
                HostPreflight, Commit, PointLatest, DeployPass, Raise
  <1>3. CASE RestoreEntry \/ RestoreEntryFails \/ RemovePointer \/ SaveRolledBack
    BY <1>3 DEF RestoreEntry, RestoreEntryFails, RemovePointer, SaveRolledBack
  <1>4. CASE Rollback
    BY <1>4 DEF Rollback, RollbackStart, VerifyRollbackInputs, RollBackEntry, RollBackEntryFails,
                SaveManuallyRolledBack, UnlinkPointer, RollbackPass, RollbackRaises, RedoEntry,
                RedoEntryFails, RewritePointer, SaveCompensated
  <1>5. QED
    BY <1>1, <1>2, <1>3, <1>4 DEF Next, Plan, Deploy

LEMMA PlanOfCommitStep == IInv /\ [Next]_vars => PlanOfCommit'
  <1> SUFFICES ASSUME IInv, Next PROVE PlanOfCommit'
    BY DEF vars, disk, memory, IInv, PlanOfCommit
  <1>0. TypeOK /\ Places /\ PlanOfCommit
    BY DEF IInv
  <1>1. head \in Nat /\ head' \in Nat /\ head' >= head
    BY <1>0, PlanFrame, ConstantFacts DEF TypeOK, Sync
  <1>2. plan' # None => plan'.commit <= head' /\ (plan'.commit = head' => plan'.desired = Source[head'])
    <2>1. CASE TargetPlan
      BY <1>0, <1>1, <2>1, ConstantFacts DEF TargetPlan, Places
    <2>2. CASE PlanExpires
      BY <2>2 DEF PlanExpires
    <2>3. CASE UNCHANGED plan /\ plan # None
      <3>1. plan.commit \in Nat
        BY <1>0, <2>3, ConstantFacts DEF TypeOK, Plans
      <3>2. head' = plan.commit => head = plan.commit
        BY <1>0, <1>1, <2>3, <3>1 DEF PlanOfCommit
      <3>3. QED
        BY <1>0, <1>1, <2>3, <3>1, <3>2 DEF PlanOfCommit
    <2>4. QED
      BY <2>1, <2>2, <2>3, PlanFrame
  <1>3. ASSUME pc' \in {"verify"} \cup Applying \cup Undoing
        PROVE  work'.desired = Source[work'.commit]
    <2>1. CASE DeployPreflight
      BY <1>0, <2>1 DEF DeployPreflight, PlanOfCommit
    <2>2. CASE UNCHANGED work /\ (pc \in {"verify"} \cup Applying \cup Undoing \/ UNCHANGED pc)
      BY <1>0, <1>3, <2>2 DEF PlanOfCommit
    <2>3. QED
      BY <1>3, <2>1, <2>2, PlanFrame DEF Applying, Undoing, Backing, Redoing
  <1>4. QED
    BY <1>2, <1>3 DEF PlanOfCommit

-----------------------------------------------------------------------------
(* What is on disk                                                             *)

Settles == Commit \/ SaveManuallyRolledBack \/ SaveRolledBack \/ SaveCompensated
Prepares == PrepareRow \/ PrepareRowFails

\* Where transactions, and which of them is at work, are changed.
LEMMA TxFrame ==
    ASSUME [Next]_vars
    PROVE  /\ UNCHANGED txs \/ VerifyPlanTargets \/ Prepares \/ Settles
           /\ UNCHANGED tx \/ VerifyPlanTargets \/ RollbackStart \/ Leave
           /\ UNCHANGED live \/ InstallRow \/ RestoreEntry \/ RestoreEntryFails \/ RollBackEntry
                \/ RollBackEntryFails \/ RedoEntry \/ RedoEntryFails \/ Drift
           /\ UNCHANGED pointer \/ PointLatest \/ RemovePointer \/ UnlinkPointer \/ RewritePointer
  <1> USE DEF disk, memory, Continue, Prepares, Settles
  <1>1. CASE PlanPreflight \/ TargetPlan \/ PlanExpires \/ Refuse \/ DeployPreflight \/ VerifyPlanTargets
             \/ Sync \/ Drift \/ Interrupt \/ UNCHANGED vars
    BY <1>1 DEF PlanPreflight, TargetPlan, PlanExpires, Refuse, DeployPreflight, VerifyPlanTargets,
                Sync, Drift, Interrupt, vars
  <1>2. CASE RowUnchanged \/ PrepareRow \/ PrepareRowFails \/ InstallRow \/ CheckRow \/ VerifyFinalState
             \/ HostPreflight \/ Commit \/ PointLatest \/ DeployPass \/ Raise
    BY <1>2 DEF RowUnchanged, PrepareRow, PrepareRowFails, InstallRow, CheckRow, VerifyFinalState,
                HostPreflight, Commit, PointLatest, DeployPass, Raise
  <1>3. CASE RestoreEntry \/ RestoreEntryFails \/ RemovePointer \/ SaveRolledBack
    BY <1>3 DEF RestoreEntry, RestoreEntryFails, RemovePointer, SaveRolledBack
  <1>4. CASE Rollback
    BY <1>4 DEF Rollback, RollbackStart, VerifyRollbackInputs, RollBackEntry, RollBackEntryFails,
                SaveManuallyRolledBack, UnlinkPointer, RollbackPass, RollbackRaises, RedoEntry,
                RedoEntryFails, RewritePointer, SaveCompensated
  <1>5. QED
    BY <1>1, <1>2, <1>3, <1>4 DEF Next, Plan, Deploy

\* Saved, of the transactions as a step leaves them.
SavedAfter(x, t) == txs'[x].before[t] = Absent \/ txs'[x].backup[t] = txs'[x].before[t]

\* An entry is written for a row that is as it was, with what can restore it.
LEMMA PreparedRow ==
    ASSUME IInv, Prepares
    PROVE  /\ tx # 0 /\ at \in DOMAIN Manifest /\ Row \in Targets /\ Row \notin AttestOnly
           /\ live[Row] = txs[tx].before[Row] /\ SavedAfter(tx, Row)
           /\ txs' \in Seq(Transaction) /\ Len(txs') = Len(txs) /\ DOMAIN txs' = DOMAIN txs
           /\ \A x \in DOMAIN txs : SameReview(x) /\ txs'[x].status = txs[x].status
           /\ \A x \in DOMAIN txs \ {tx} : SameRecord(x)
           /\ txs'[tx].changed \in {txs[tx].changed, txs[tx].changed \cup {Row}}
           /\ PrepareRow => Row \in txs'[tx].changed
           /\ \A u \in Targets \ {Row} : txs'[tx].backup[u] = txs[tx].backup[u]
  <1>0. TypeOK /\ Places /\ pc = "row" /\ UNCHANGED tx
    BY DEF IInv, Prepares, PrepareRow, PrepareRowFails, Continue
  <1>1. tx # 0 /\ at \in DOMAIN Manifest /\ Row \in Targets
    BY <1>0, ConstantFacts, RowFacts
       DEF Prepares, PrepareRow, PrepareRowFails, Replaceable, TypeOK, Places, OnTx, Applying
  <1>2. live[Row] = txs[tx].before[Row] /\ Row \notin AttestOnly
    BY <1>0, <1>1 DEF IInv, OfPlan, Applying, Prepares, PrepareRow, PrepareRowFails, Replaceable, RowState
  <1>3. PICK recorded \in {{}, {Row}} :
            EntryWritten(Row, recorded) /\ (PrepareRow => recorded = {Row})
    <2>1. CASE PrepareRow
      BY <2>1 DEF PrepareRow, EntryWritten
    <2>2. CASE PrepareRowFails /\ ~PrepareRow
      BY <1>0, <1>1, <2>2, AtWork, TransactionFacts DEF PrepareRowFails, EntryWritten
    <2>3. QED
      BY <2>1, <2>2 DEF Prepares
  <1>4. /\ txs' \in Seq(Transaction) /\ Len(txs') = Len(txs) /\ DOMAIN txs' = DOMAIN txs
        /\ \A x \in DOMAIN txs : SameReview(x) /\ txs'[x].status = txs[x].status
        /\ \A x \in DOMAIN txs \ {tx} : SameRecord(x)
        /\ txs'[tx].changed = txs[tx].changed \cup recorded
        /\ txs'[tx].backup[Row] = Backup(Row)
        /\ \A u \in Targets \ {Row} : txs'[tx].backup[u] = txs[tx].backup[u]
    BY <1>0, <1>1, <1>3, RowEntry
  <1>5. SavedAfter(tx, Row)
    BY <1>0, <1>1, <1>2, <1>4, AtWork DEF SavedAfter, Backup, SameReview
  <1>6. QED
    BY <1>1, <1>2, <1>3, <1>4, <1>5

\* A transaction's end is written, and nothing else of it.
LEMMA Settled ==
    ASSUME IInv, Settles
    PROVE  /\ tx # 0 /\ tx \in DOMAIN txs /\ DOMAIN txs' = DOMAIN txs
           /\ txs'[tx].status = IF Commit \/ (SaveCompensated /\ ~failed) THEN "success"
                                ELSE IF SaveManuallyRolledBack THEN "manually_rolled_back"
                                ELSE IF failed THEN "rollback_failed" ELSE "rolled_back"
           /\ \A x \in DOMAIN txs : /\ SameReview(x) /\ SameRecord(x)
                                    /\ x # tx => txs'[x].status = txs[x].status
  <1>1. TypeOK /\ tx # 0
    BY DEF IInv, Settles, Commit, SaveManuallyRolledBack, SaveRolledBack, SaveCompensated, Continue,
           Places, OnTx, Applying, Undoing, Backing, Redoing
  <1>2. PICK s \in Statuses :
          /\ Status(s)
          /\ s = IF Commit \/ (SaveCompensated /\ ~failed) THEN "success"
                 ELSE IF SaveManuallyRolledBack THEN "manually_rolled_back"
                 ELSE IF failed THEN "rollback_failed" ELSE "rolled_back"
    BY DEF IInv, Settles, Commit, SaveManuallyRolledBack, SaveRolledBack, SaveCompensated, Continue, Statuses
  <1>3. QED
    BY <1>1, <1>2, StatusEntry, AtWork

\* What is on disk of a transaction stays there, and what was saved stays saved.
LEMMA Durable ==
    ASSUME IInv, [Next]_vars, NEW x \in DOMAIN txs
    PROVE  /\ x \in DOMAIN txs' /\ SameReview(x)
           /\ \A t \in Targets : Saved(x, t) => SavedAfter(x, t)
           /\ SameRecord(x) \/ (Prepares /\ x = tx)
  <1>1. CASE UNCHANGED txs
    BY <1>1 DEF SameReview, SameRecord, Saved, SavedAfter
  <1>2. CASE VerifyPlanTargets
    <2>1. work \in Plans
      BY <1>2 DEF VerifyPlanTargets, IInv, Places
    <2>2. x \in DOMAIN txs' /\ txs'[x] = txs[x]
      BY <1>2, <2>1, NewEntry DEF IInv
    <2>3. QED
      BY <2>2 DEF SameReview, SameRecord, Saved, SavedAfter
  <1>3. CASE Prepares
    <2>1. x \in DOMAIN txs' /\ SameReview(x) /\ (SameRecord(x) \/ x = tx)
      BY <1>3, PreparedRow
    <2>2. ASSUME NEW t \in Targets, Saved(x, t) PROVE SavedAfter(x, t)
      <3>1. CASE x = tx /\ t = Row
        BY <1>3, <3>1, PreparedRow
      <3>2. CASE ~(x = tx /\ t = Row)
        <4>1. txs'[x].backup[t] = txs[x].backup[t]
          BY <1>3, <2>1, <2>2, <3>2, PreparedRow DEF SameRecord
        <4>2. QED
          BY <2>1, <2>2, <4>1 DEF Saved, SavedAfter, SameReview
      <3>3. QED
        BY <3>1, <3>2
    <2>3. QED
      BY <1>3, <2>1, <2>2
  <1>4. CASE Settles
    BY <1>4, Settled DEF SameReview, SameRecord, Saved, SavedAfter
  <1>5. QED
    BY <1>1, <1>2, <1>3, <1>4, TxFrame

LEMMA RecordedStep == IInv /\ [Next]_vars => Recorded'
  <1> SUFFICES ASSUME IInv, [Next]_vars, NEW x \in DOMAIN txs'
               PROVE  /\ txs'[x].desired = Source[txs'[x].commit]
                      /\ \A t \in txs'[x].changed : t \notin AttestOnly /\ SavedAfter(x, t)
    BY DEF Recorded, Saved, SavedAfter
  <1>0. TypeOK /\ Recorded
    BY DEF IInv
  <1>1. CASE x \in DOMAIN txs
    <2>1. txs'[x].desired = Source[txs'[x].commit]
      BY <1>0, <1>1, Durable DEF Recorded, SameReview
    <2>2. ASSUME NEW t \in txs'[x].changed PROVE t \notin AttestOnly /\ SavedAfter(x, t)
      <3>1. CASE t \in txs[x].changed
        <4>1. t \in Targets
          BY <1>0, <1>1, <3>1, TransactionFacts DEF TypeOK
        <4>2. QED
          BY <1>0, <1>1, <3>1, <4>1, Durable DEF Recorded
      <3>2. CASE t \notin txs[x].changed
        <4>1. Prepares /\ x = tx
          BY <1>1, <3>2, <2>2, Durable DEF SameRecord
        <4>2. t = Row
          BY <2>2, <3>2, <4>1, PreparedRow
        <4>3. QED
          BY <4>1, <4>2, PreparedRow
      <3>3. QED
        BY <3>1, <3>2
    <2>3. QED
      BY <2>1, <2>2
  <1>2. CASE x \notin DOMAIN txs
    <2>1. VerifyPlanTargets
      BY <1>2, TxFrame, PreparedRow, Settled
    <2>2. work \in Plans /\ work.desired = Source[work.commit]
      BY <2>1 DEF VerifyPlanTargets, IInv, Places, PlanOfCommit
    <2>3. x = tx'
      BY <1>0, <1>2, <2>1, <2>2, NewEntry
    <2>4. QED
      BY <1>0, <2>1, <2>2, <2>3, NewEntry
  <1>3. QED
    BY <1>1, <1>2

-----------------------------------------------------------------------------
(* The transaction at work                                                     *)

\* How an operation gets to work on a transaction, and that it stays at work on it.
LEMMA WorkFrame ==
    ASSUME TypeOK, [Next]_vars
    PROVE  /\ pc' \in Applying \cup Undoing =>
                  VerifyPlanTargets \/ (pc \in Applying \cup Undoing /\ UNCHANGED <<tx, work>>)
           /\ pc' \in {"inputs"} \cup Backing \cup Redoing =>
                  RollbackStart \/ (pc \in {"inputs"} \cup Backing \cup Redoing /\ UNCHANGED tx)
           /\ pc' \in Backing \cup Redoing =>
                  VerifyRollbackInputs \/ pc \in Backing \cup Redoing
  <1> USE DEF disk, memory, Continue, Leave, Applying, Undoing, Backing, Redoing
  <1>1. CASE PlanPreflight \/ TargetPlan \/ PlanExpires \/ Refuse \/ DeployPreflight \/ VerifyPlanTargets
             \/ Sync \/ Drift \/ Interrupt \/ UNCHANGED vars
    BY <1>1 DEF PlanPreflight, TargetPlan, PlanExpires, Refuse, DeployPreflight, VerifyPlanTargets,
                Sync, Drift, Interrupt, vars
  <1>2. CASE RowUnchanged \/ PrepareRow \/ PrepareRowFails \/ InstallRow \/ CheckRow \/ VerifyFinalState
             \/ HostPreflight \/ Commit \/ PointLatest \/ DeployPass \/ Raise
    BY <1>2 DEF RowUnchanged, PrepareRow, PrepareRowFails, InstallRow, CheckRow, VerifyFinalState,
                HostPreflight, Commit, PointLatest, DeployPass, Raise
  <1>3. CASE RestoreEntry \/ RestoreEntryFails \/ RemovePointer \/ SaveRolledBack
    BY <1>3 DEF RestoreEntry, RestoreEntryFails, RemovePointer, SaveRolledBack
  <1>4. CASE Rollback
    BY <1>4 DEF Rollback, RollbackStart, VerifyRollbackInputs, RollBackEntry, RollBackEntryFails,
                SaveManuallyRolledBack, UnlinkPointer, RollbackPass, RollbackRaises, RedoEntry,
                RedoEntryFails, RewritePointer, SaveCompensated
  <1>5. QED
    BY <1>1, <1>2, <1>3, <1>4 DEF Next, Plan, Deploy

\* Its review stays what it was.
LEMMA ReviewKept ==
    ASSUME IInv, [Next]_vars, tx # 0
    PROVE  /\ tx \in DOMAIN txs' /\ txs'[tx].before = txs[tx].before
           /\ txs'[tx].desired = txs[tx].desired
           /\ \A t \in Targets : Saved(tx, t) => SavedAfter(tx, t)
           /\ Prepares \/ txs'[tx].changed = txs[tx].changed
  <1>1. tx \in DOMAIN txs
    BY AtWork DEF IInv
  <1>2. QED
    BY <1>1, Durable DEF SameReview, SameRecord

LEMMA OfPlanStep == IInv /\ [Next]_vars => OfPlan'
  <1> SUFFICES ASSUME IInv, [Next]_vars, pc' \in Applying \cup Undoing
               PROVE  /\ txs'[tx'].before = work'.before /\ txs'[tx'].desired = work'.desired
                      /\ \A t \in AttestOnly : work'.before[t] = work'.desired[t]
    BY DEF OfPlan, Applying, Undoing
  <1>0. TypeOK /\ Places
    BY DEF IInv
  <1>1. CASE VerifyPlanTargets
    <2>1. work \in Plans /\ UNCHANGED work /\ AttestOnlyUnchanged(work)
      BY <1>0, <1>1 DEF VerifyPlanTargets, Places
    <2>2. QED
      BY <1>0, <1>1, <2>1, NewEntry DEF AttestOnlyUnchanged
  <1>2. CASE pc \in Applying \cup Undoing /\ UNCHANGED <<tx, work>>
    <2>1. tx # 0
      BY <1>0, <1>2 DEF Places, OnTx
    <2>2. QED
      BY <1>2, <2>1, ReviewKept DEF IInv, OfPlan
  <1>3. QED
    BY <1>0, <1>1, <1>2, WorkFrame

LEMMA StatusOfPlaceStep == IInv /\ [Next]_vars => StatusOfPlace'
  <1> SUFFICES ASSUME IInv, [Next]_vars PROVE StatusOfPlace'
    OBVIOUS
  <1> USE DEF disk, memory, Applying, Undoing, Backing, Redoing
  <1>0. TypeOK /\ Places /\ StatusOfPlace
    BY DEF IInv
  <1>1. CASE Leave
    BY <1>1, AtRest
  <1>2. CASE VerifyPlanTargets
    <2>1. txs'[tx'].status = "running" /\ pc' = "row"
      BY <1>0, <1>2, NewEntry DEF VerifyPlanTargets, Places
    <2>2. QED
      BY <2>1 DEF StatusOfPlace
  <1>3. CASE Prepares
    <2>1. txs'[tx'].status = "running" /\ pc' \in {"install", "undo"}
      BY <1>0, <1>3, PreparedRow, AtWork
         DEF StatusOfPlace, Prepares, PrepareRow, PrepareRowFails, Continue
    <2>2. QED
      BY <2>1 DEF StatusOfPlace
  <1>4. CASE Commit
    <2>1. txs'[tx'].status = "success" /\ pc' = "point"
      BY <1>4, Settled DEF Settles, Commit, Continue
    <2>2. QED
      BY <2>1 DEF StatusOfPlace
  <1>5. CASE SaveManuallyRolledBack
    <2>1. pc = "back" /\ pc' = "unlink" /\ UNCHANGED tx
      BY <1>5 DEF SaveManuallyRolledBack, Continue
    <2>2. txs'[tx'].status = "manually_rolled_back"
      BY <1>5, <2>1, Settled DEF Settles, Commit, SaveCompensated, Continue
    <2>3. QED
      BY <2>1, <2>2 DEF StatusOfPlace
  <1>6. CASE RollbackStart
    BY <1>6 DEF RollbackStart, StatusOfPlace
  <1>7. CASE PlanPreflight \/ PlanExpires \/ DeployPreflight \/ Sync \/ Drift \/ UNCHANGED vars
    BY <1>0, <1>7 DEF PlanPreflight, PlanExpires, DeployPreflight, Sync, Drift, vars, StatusOfPlace
  <1>8. CASE RowUnchanged \/ InstallRow \/ CheckRow \/ VerifyFinalState \/ HostPreflight \/ PointLatest \/ Raise
    BY <1>0, <1>8 DEF RowUnchanged, InstallRow, CheckRow, VerifyFinalState, HostPreflight, PointLatest,
                      Raise, Continue, StatusOfPlace
  <1>9. CASE RestoreEntry \/ RestoreEntryFails \/ RemovePointer
    BY <1>0, <1>9 DEF RestoreEntry, RestoreEntryFails, RemovePointer, Continue, StatusOfPlace
  <1>10. CASE VerifyRollbackInputs \/ RollBackEntry \/ RollBackEntryFails \/ UnlinkPointer
              \/ RollbackRaises \/ RedoEntry \/ RedoEntryFails \/ RewritePointer
    BY <1>0, <1>10 DEF VerifyRollbackInputs, RollBackEntry, RollBackEntryFails, UnlinkPointer,
                      RollbackRaises, RedoEntry, RedoEntryFails, RewritePointer, Continue, StatusOfPlace
  <1>11. QED
    BY <1>1, <1>2, <1>3, <1>4, <1>5, <1>6, <1>7, <1>8, <1>9, <1>10
       DEF Next, Plan, Deploy, Rollback, Prepares, TargetPlan, Refuse, DeployPass, RollbackPass,
           SaveRolledBack, SaveCompensated, Interrupt

\* What stays while a rollback checks its inputs and while the handler saves the outcome.
LEMMA KeptPlaces ==
    ASSUME [Next]_vars
    PROVE  /\ pc' = "inputs" => RollbackStart \/ (pc = "inputs" /\ UNCHANGED <<pointer, tx>>)
           /\ pc' = "save" => RemovePointer \/ (pc = "save" /\ UNCHANGED <<pointer, tx, failed>>)
  <1> USE DEF disk, memory, Continue, Leave
  <1>1. CASE PlanPreflight \/ TargetPlan \/ PlanExpires \/ Refuse \/ DeployPreflight \/ VerifyPlanTargets
             \/ Sync \/ Drift \/ Interrupt \/ UNCHANGED vars
    BY <1>1 DEF PlanPreflight, TargetPlan, PlanExpires, Refuse, DeployPreflight, VerifyPlanTargets,
                Sync, Drift, Interrupt, vars
  <1>2. CASE RowUnchanged \/ PrepareRow \/ PrepareRowFails \/ InstallRow \/ CheckRow \/ VerifyFinalState
             \/ HostPreflight \/ Commit \/ PointLatest \/ DeployPass \/ Raise
    BY <1>2 DEF RowUnchanged, PrepareRow, PrepareRowFails, InstallRow, CheckRow, VerifyFinalState,
                HostPreflight, Commit, PointLatest, DeployPass, Raise
  <1>3. CASE RestoreEntry \/ RestoreEntryFails \/ SaveRolledBack
    <2>1. pc' \in {"undo", "idle"}
      BY <1>3 DEF RestoreEntry, RestoreEntryFails, SaveRolledBack
    <2>2. QED
      BY <2>1
  <1>4. CASE RemovePointer
    <2>1. pc' = "save"
      BY <1>4 DEF RemovePointer
    <2>2. QED
      BY <1>4, <2>1
  <1>5. CASE VerifyRollbackInputs \/ RollBackEntry \/ RollBackEntryFails \/ SaveManuallyRolledBack
             \/ UnlinkPointer \/ RollbackPass
    <2>1. pc' \in {"back", "redo", "unlink", "backlog", "idle"}
      BY <1>5 DEF VerifyRollbackInputs, RollBackEntry, RollBackEntryFails, SaveManuallyRolledBack,
                  UnlinkPointer, RollbackPass
    <2>2. QED
      BY <2>1
  <1>6. CASE RollbackRaises \/ RedoEntry \/ RedoEntryFails \/ RewritePointer \/ SaveCompensated
    <2>1. pc' \in {"redo", "resave", "idle"}
      BY <1>6 DEF RollbackRaises, RedoEntry, RedoEntryFails, RewritePointer, SaveCompensated
    <2>2. QED
      BY <2>1
  <1>7. CASE RollbackStart
    <2>1. pc' = "inputs"
      BY <1>7 DEF RollbackStart
    <2>2. QED
      BY <1>7, <2>1
  <1>8. QED
    BY <1>1, <1>2, <1>3, <1>4, <1>5, <1>6, <1>7 DEF Next, Plan, Deploy, Rollback

LEMMA PointerOfPlaceStep == IInv /\ [Next]_vars => PointerOfPlace'
  <1> SUFFICES ASSUME IInv, [Next]_vars PROVE PointerOfPlace'
    OBVIOUS
  <1>0. TypeOK /\ Places /\ StatusOfPlace /\ PointerOfPlace
    BY DEF IInv
  <1> DEFINE Proves(p) == p # 0 => p \in DOMAIN txs' /\ txs'[p].status \notin {"running", "rolled_back"}
  <1>1. Proves(pointer')
    <2>1. CASE UNCHANGED pointer /\ pointer # 0
      <3>1. pointer \in DOMAIN txs /\ txs[pointer].status \notin {"running", "rolled_back"}
        BY <1>0, <2>1 DEF PointerOfPlace
      <3>2. CASE UNCHANGED txs
        BY <2>1, <3>1, <3>2
      <3>3. CASE VerifyPlanTargets
        BY <1>0, <2>1, <3>1, <3>3, NewEntry DEF VerifyPlanTargets, Places
      <3>4. CASE Prepares
        BY <2>1, <3>1, <3>4, PreparedRow
      <3>5. CASE Settles
        <4>1. CASE pointer = tx
          <5>1. SaveRolledBack => failed
            BY <1>0, <4>1 DEF SaveRolledBack, PointerOfPlace
          <5>2. txs'[tx].status # "running" /\ (txs'[tx].status = "rolled_back" => SaveRolledBack /\ ~failed)
            BY <3>5, Settled DEF Settles
          <5>3. QED
            BY <2>1, <3>1, <3>5, <4>1, <5>1, <5>2, Settled
        <4>2. CASE pointer # tx
          BY <2>1, <3>1, <3>5, <4>2, Settled
        <4>3. QED
          BY <4>1, <4>2
      <3>6. QED
        BY <3>2, <3>3, <3>4, <3>5, TxFrame
    <2>2. CASE PointLatest \/ RewritePointer \/ RemovePointer \/ UnlinkPointer
      <3>1. pointer' \in {0, pointer, tx} /\ UNCHANGED txs
        BY <2>2 DEF PointLatest, RewritePointer, RemovePointer, UnlinkPointer
      <3>2. CASE pointer' = tx
        <4>1. pc \in {"point", "redo"} \/ pointer' = pointer
          <5>1. tx # 0
            BY <1>0, <2>2 DEF PointLatest, RewritePointer, RemovePointer, UnlinkPointer, Continue, Places,
                              OnTx, Applying, Undoing, Backing, Redoing
          <5>2. QED
            BY <2>2, <3>2, <5>1 DEF PointLatest, RewritePointer, RemovePointer, UnlinkPointer, Continue
        <4>2. CASE pc \in {"point", "redo"}
          BY <1>0, <3>1, <3>2, <4>2, AtWork DEF StatusOfPlace, Redoing
        <4>3. QED
          BY <1>0, <3>1, <4>1, <4>2 DEF PointerOfPlace
      <3>3. QED
        BY <1>0, <3>1, <3>2 DEF PointerOfPlace
    <2>3. QED
      BY <2>1, <2>2, TxFrame
  <1>2. pc' = "inputs" => pointer' = tx'
    <2>1. ASSUME pc' = "inputs"
          PROVE  RollbackStart \/ (pc = "inputs" /\ UNCHANGED <<pointer, tx>>)
      BY <2>1, KeptPlaces
    <2>2. QED
      BY <1>0, <2>1 DEF RollbackStart, disk, PointerOfPlace
  <1>3. pc' = "save" => failed' \/ pointer' # tx'
    <2>1. ASSUME pc' = "save"
          PROVE  RemovePointer \/ (pc = "save" /\ UNCHANGED <<pointer, tx, failed>>)
      BY <2>1, KeptPlaces
    <2>2. CASE RemovePointer
      BY <1>0, <2>2 DEF RemovePointer, Continue, Places, OnTx, Undoing
    <2>3. QED
      BY <1>0, <2>1, <2>2 DEF PointerOfPlace
  <1>4. QED
    BY <1>1, <1>2, <1>3 DEF PointerOfPlace
-----------------------------------------------------------------------------
(* The target files while a deployment is at work                              *)

Outside == Sync \/ Drift \/ PlanExpires \/ UNCHANGED vars

LEMMA OutsideFrame ==
    ASSUME Outside
    PROVE  /\ UNCHANGED <<pointer, txs, pc, seen, work, tx, at, changed, restored, failed>>
           /\ late \subseteq late'
  BY DEF Outside, Sync, Drift, PlanExpires, vars, disk, memory

\* How a deployment gets to a row and through it.
LEMMA RowFrame ==
    ASSUME [Next]_vars, pc' \in {"row", "install", "check"}
    PROVE  VerifyPlanTargets \/ RowUnchanged \/ CheckRow \/ PrepareRow \/ InstallRow \/ Outside
  <1>1. CASE PlanPreflight \/ TargetPlan \/ Refuse \/ DeployPreflight \/ Interrupt
    BY <1>1 DEF PlanPreflight, TargetPlan, Refuse, DeployPreflight, Interrupt, Leave
  <1>2. CASE PrepareRowFails \/ VerifyFinalState \/ HostPreflight \/ Commit \/ PointLatest \/ DeployPass \/ Raise
    BY <1>2 DEF PrepareRowFails, VerifyFinalState, HostPreflight, Commit, PointLatest, DeployPass, Raise,
                Continue, Leave
  <1>3. CASE RestoreEntry \/ RestoreEntryFails \/ RemovePointer \/ SaveRolledBack
    BY <1>3 DEF RestoreEntry, RestoreEntryFails, RemovePointer, SaveRolledBack, Continue, Leave
  <1>4. CASE RollbackStart \/ VerifyRollbackInputs \/ RollBackEntry \/ RollBackEntryFails
             \/ SaveManuallyRolledBack \/ UnlinkPointer
    BY <1>4 DEF RollbackStart, VerifyRollbackInputs, RollBackEntry, RollBackEntryFails,
                SaveManuallyRolledBack, UnlinkPointer, Continue
  <1>5. CASE RollbackPass \/ RollbackRaises \/ RedoEntry \/ RedoEntryFails \/ RewritePointer \/ SaveCompensated
    BY <1>5 DEF RollbackPass, RollbackRaises, RedoEntry, RedoEntryFails, RewritePointer, SaveCompensated,
                Continue, Leave
  <1>6. QED
    BY <1>1, <1>2, <1>3, <1>4, <1>5 DEF Next, Plan, Deploy, Rollback, Outside

LEMMA PassedFacts ==
    ASSUME at \in Nat
    PROVE  /\ Passed(at) \subseteq Passed(at + 1)
           /\ at \in DOMAIN Manifest => Row \in Passed(at + 1)
  <1>1. DOMAIN Manifest \subseteq Nat
    BY ConstantFacts
  <1>2. QED
    BY <1>1 DEF Passed, Row

\* The operation at work forgets no edit of others.
LEMMA LateKept ==
    ASSUME [Next]_vars, pc' # "idle"
    PROVE  late \subseteq late'
  <1>1. CASE Outside
    BY <1>1, OutsideFrame
  <1>2. CASE PlanPreflight \/ TargetPlan \/ Refuse \/ DeployPreflight \/ VerifyPlanTargets \/ Interrupt
             \/ DeployPass \/ SaveRolledBack \/ RollbackStart \/ RollbackPass \/ SaveCompensated
    BY <1>2 DEF PlanPreflight, TargetPlan, Refuse, DeployPreflight, VerifyPlanTargets, Interrupt,
                DeployPass, SaveRolledBack, RollbackStart, RollbackPass, SaveCompensated, Leave
  <1>3. CASE RowUnchanged \/ PrepareRow \/ PrepareRowFails \/ InstallRow \/ CheckRow \/ VerifyFinalState
             \/ HostPreflight \/ Commit \/ PointLatest \/ Raise
    BY <1>3 DEF RowUnchanged, PrepareRow, PrepareRowFails, InstallRow, CheckRow, VerifyFinalState,
                HostPreflight, Commit, PointLatest, Raise, Continue
  <1>4. CASE RestoreEntry \/ RestoreEntryFails \/ RemovePointer \/ VerifyRollbackInputs \/ RollBackEntry
             \/ RollBackEntryFails \/ SaveManuallyRolledBack \/ UnlinkPointer
    BY <1>4 DEF RestoreEntry, RestoreEntryFails, RemovePointer, VerifyRollbackInputs, RollBackEntry,
                RollBackEntryFails, SaveManuallyRolledBack, UnlinkPointer, Continue
  <1>5. CASE RollbackRaises \/ RedoEntry \/ RedoEntryFails \/ RewritePointer
    BY <1>5 DEF RollbackRaises, RedoEntry, RedoEntryFails, RewritePointer, Continue
  <1>6. QED
    BY <1>1, <1>2, <1>3, <1>4, <1>5 DEF Next, Plan, Deploy, Rollback, Outside

\* What others write is theirs, and noted if the operation at work lists the target.
LEMMA DriftStep ==
    ASSUME TypeOK, Drift, NEW t \in Targets
    PROVE  \/ live'[t] = live[t]
           \/ live'[t] \in Others /\ live'[t] \in Foreign /\ (t \in changed \cup restored => t \in late')
  <1>1. PICK u \in Targets, f \in Foreign : Install(u, f) /\ late' = late \cup ({u} \cap (changed \cup restored))
    BY DEF Drift
  <1>2. f \in Contents \cup {Absent} /\ f \in Others
    BY ConstantsAssumption DEF Others, Drift
  <1>3. QED
    BY <1>1, <1>2, LiveType

\* What happens to a target file while a deployment is at work.
LEMMA LiveStep ==
    ASSUME IInv, [Next]_vars, pc \in Applying \cup Undoing, NEW t \in Targets
    PROVE  \/ live'[t] = live[t]
           \/ InstallRow /\ pc = "install" /\ t = Row /\ live'[t] = Source[head][t]
           \/ (RestoreEntry \/ RestoreEntryFails) /\ t \in changed /\ live'[t] = txs[tx].before[t]
           \/ Drift /\ (t \in changed => t \in late') /\ live'[t] \in Others
  <1>0. TypeOK /\ Places /\ tx # 0
    BY DEF IInv, Places, OnTx
  <1>1. CASE InstallRow
    <2>1. pc = "install" /\ Row \in Targets
      BY <1>0, <1>1, RowFacts DEF InstallRow, Continue, Places
    <2>2. Install(Row, Source[head][Row]) /\ Source[head][Row] \in Contents
      BY <1>0, <1>1, <2>1, ConstantFacts DEF InstallRow, TypeOK
    <2>3. QED
      BY <1>0, <1>1, <2>1, <2>2, LiveType
  <1>2. CASE RestoreEntry \/ RestoreEntryFails
    <2>1. pc = "undo"
      BY <1>2 DEF RestoreEntry, RestoreEntryFails, Continue
    <2>2. PICK u \in Targets : LastOf(u, changed) /\ (UNCHANGED live \/ Install(u, Snapshot(u)))
      BY <1>2 DEF RestoreEntry, RestoreEntryFails
    <2>3. u \in changed
      BY <2>2 DEF LastOf
    <2>4. Snapshot(u) = txs[tx].before[u] /\ Snapshot(u) \in Contents \cup {Absent}
      BY <1>0, <2>1, <2>3, EntriesSaved, SnapshotOfSaved
    <2>5. QED
      BY <1>0, <1>2, <2>2, <2>3, <2>4, LiveType
  <1>3. CASE Drift
    BY <1>0, <1>3, DriftStep
  <1>4. CASE RollBackEntry \/ RollBackEntryFails \/ RedoEntry \/ RedoEntryFails
    BY <1>4 DEF RollBackEntry, RollBackEntryFails, RedoEntry, RedoEntryFails, Continue, Applying, Undoing
  <1>5. QED
    BY <1>1, <1>2, <1>3, <1>4, TxFrame

\* What happens to apply_plan's list of entries.
LEMMA ChangedStep ==
    ASSUME IInv, [Next]_vars, pc \in Applying \cup Undoing, pc' \in Applying \cup Undoing
    PROVE  \/ changed' \subseteq changed
           \/ Prepares /\ changed' = changed \cup {Row}
  <1> USE DEF Applying, Undoing
  <1>1. CASE Outside
    BY <1>1, OutsideFrame
  <1>2. CASE PlanPreflight \/ TargetPlan \/ Refuse \/ DeployPreflight \/ VerifyPlanTargets \/ Interrupt
             \/ DeployPass \/ SaveRolledBack
    BY <1>2 DEF PlanPreflight, TargetPlan, Refuse, DeployPreflight, VerifyPlanTargets, Interrupt,
                DeployPass, SaveRolledBack, Leave
  <1>3. CASE RowUnchanged \/ PrepareRow \/ PrepareRowFails \/ InstallRow \/ CheckRow \/ VerifyFinalState
             \/ HostPreflight \/ Commit \/ PointLatest \/ Raise
    BY <1>3 DEF RowUnchanged, PrepareRow, PrepareRowFails, InstallRow, CheckRow, VerifyFinalState,
                HostPreflight, Commit, PointLatest, Raise, Prepares
  <1>4. CASE RestoreEntry \/ RestoreEntryFails \/ RemovePointer
    BY <1>4 DEF RestoreEntry, RestoreEntryFails, RemovePointer
  <1>5. CASE RollbackStart \/ VerifyRollbackInputs \/ RollBackEntry \/ RollBackEntryFails
             \/ SaveManuallyRolledBack \/ UnlinkPointer
    BY <1>5 DEF RollbackStart, VerifyRollbackInputs, RollBackEntry, RollBackEntryFails,
                SaveManuallyRolledBack, UnlinkPointer, Continue
  <1>6. CASE RollbackPass \/ RollbackRaises \/ RedoEntry \/ RedoEntryFails \/ RewritePointer \/ SaveCompensated
    BY <1>6 DEF RollbackPass, RollbackRaises, RedoEntry, RedoEntryFails, RewritePointer, SaveCompensated,
                Continue, Leave
  <1>7. QED
    BY <1>1, <1>2, <1>3, <1>4, <1>5, <1>6 DEF Next, Plan, Deploy, Rollback, Outside

LEMMA EntriesStep == IInv /\ [Next]_vars => Entries'
  <1> SUFFICES ASSUME IInv, [Next]_vars, pc' \in Applying \cup Undoing
               PROVE  /\ \A t \in changed' :
                            /\ t \notin AttestOnly /\ SavedAfter(tx', t)
                            /\ \/ t \in late'
                               \/ live'[t] = txs'[tx'].before[t]
                               \/ \E c \in Commits : live'[t] = Source[c][t]
                      /\ pc' = "row" => changed' \subseteq Passed(at')
                      /\ pc' \in {"install", "check"} => /\ changed' \subseteq Passed(at' + 1)
                                                         /\ Manifest[at'] \in changed' \cap txs'[tx'].changed
                      /\ pc' = "install" => \/ Manifest[at'] \in late'
                                            \/ live'[Manifest[at']] = txs'[tx'].before[Manifest[at']]
    BY DEF Entries, Saved, SavedAfter, Applying, Undoing, Row, Passed
  <1>0. TypeOK /\ Places /\ Entries
    BY DEF IInv
  <1>1. CASE VerifyPlanTargets
    BY <1>0, <1>1 DEF VerifyPlanTargets, Places
  <1>2. CASE pc \in Applying \cup Undoing /\ UNCHANGED <<tx, work>>
    <2>0. tx # 0 /\ at \in Nat /\ changed \subseteq Targets /\ head \in Commits
      BY <1>0, <1>2, ConstantFacts DEF Places, OnTx, TypeOK
    <2>1. ASSUME NEW t \in changed'
          PROVE  /\ t \notin AttestOnly /\ SavedAfter(tx', t)
                 /\ \/ t \in late'
                    \/ live'[t] = txs'[tx'].before[t]
                    \/ \E c \in Commits : live'[t] = Source[c][t]
      <3>1. CASE t \in changed
        <4>1. /\ t \in Targets /\ t \notin AttestOnly /\ Saved(tx, t)
              /\ \/ t \in late
                 \/ live[t] = txs[tx].before[t]
                 \/ \E c \in Commits : live[t] = Source[c][t]
          BY <1>0, <1>2, <2>0, <3>1 DEF Entries
        <4>2. SavedAfter(tx', t) /\ txs'[tx'].before = txs[tx].before
          BY <1>2, <2>0, <4>1, ReviewKept
        <4>3. \/ live'[t] = live[t] \/ live'[t] = txs[tx].before[t]
              \/ \E c \in Commits : live'[t] = Source[c][t]
              \/ t \in late'
          BY <1>2, <2>0, <3>1, <4>1, LiveStep
        <4>4. late \subseteq late'
          BY LateKept DEF Applying, Undoing
        <4>5. QED
          BY <4>1, <4>2, <4>3, <4>4
      <3>2. CASE t \notin changed
        <4>1. Prepares /\ t = Row
          BY <1>2, <2>1, <3>2, ChangedStep
        <4>2. t \notin AttestOnly /\ SavedAfter(tx', t) /\ live[t] = txs[tx].before[t]
          BY <1>2, <4>1, PreparedRow
        <4>3. live' = live
          BY <4>1 DEF Prepares, PrepareRow, PrepareRowFails
        <4>4. txs'[tx'].before = txs[tx].before
          BY <1>2, <2>0, ReviewKept
        <4>5. QED
          BY <4>2, <4>3, <4>4
      <3>3. QED
        BY <3>1, <3>2
    <2>2. CASE pc' \notin {"row", "install", "check"}
      BY <2>1, <2>2
    <2>3. CASE RowUnchanged
      <3>1. pc = "row" /\ pc' = "row" /\ at' = at + 1 /\ changed' = changed
        BY <2>3 DEF RowUnchanged, Continue
      <3>2. changed' \subseteq Passed(at')
        BY <1>0, <1>2, <2>0, <3>1, PassedFacts DEF Entries
      <3>3. QED
        BY <2>1, <3>1, <3>2
    <2>4. CASE CheckRow
      <3>1. pc = "check" /\ pc' = "row" /\ at' = at + 1 /\ changed' = changed
        BY <2>4 DEF CheckRow, Continue
      <3>2. changed' \subseteq Passed(at')
        BY <1>0, <1>2, <2>0, <3>1 DEF Entries
      <3>3. QED
        BY <2>1, <3>1, <3>2
    <2>5. CASE PrepareRow
      <3>1. pc = "row" /\ pc' = "install" /\ at' = at /\ changed' = changed \cup {Row} /\ live' = live
        BY <2>5 DEF PrepareRow, Continue
      <3>2. Row \in txs'[tx'].changed /\ live[Row] = txs[tx].before[Row] /\ at \in DOMAIN Manifest
        BY <1>2, <2>5, PreparedRow DEF Prepares
      <3>3. changed' \subseteq Passed(at' + 1)
        BY <1>0, <1>2, <2>0, <3>1, <3>2, PassedFacts DEF Entries
      <3>4. txs'[tx'].before = txs[tx].before
        BY <1>2, <2>0, ReviewKept
      <3>5. QED
        BY <2>1, <3>1, <3>2, <3>3, <3>4 DEF Row
    <2>6. CASE InstallRow
      <3>1. pc = "install" /\ pc' = "check" /\ at' = at /\ changed' = changed /\ txs' = txs
        BY <2>6 DEF InstallRow, Continue
      <3>2. QED
        BY <1>0, <1>2, <2>1, <3>1 DEF Entries, Row
    <2>7. CASE Outside
      <3>1. UNCHANGED <<txs, pc, tx, at, changed>>
        BY <2>7, OutsideFrame
      <3>2. pc = "install" => Row \in late' \/ live'[Row] = txs[tx].before[Row]
        <4>1. ASSUME pc = "install" PROVE Row \in late' \/ live'[Row] = txs[tx].before[Row]
          <5>1. Row \in Targets /\ Row \in changed /\ (Row \in late \/ live[Row] = txs[tx].before[Row])
            BY <1>0, <1>2, <4>1, RowFacts DEF Entries, Places
          <5>2. late \subseteq late' /\ (live'[Row] = live[Row] \/ Row \in late')
            <6>1. CASE Drift
              BY <1>0, <2>7, <5>1, <6>1, DriftStep, OutsideFrame
            <6>2. CASE ~Drift
              BY <2>7, <6>2, OutsideFrame DEF Outside, Sync, PlanExpires, vars, disk
            <6>3. QED
              BY <6>1, <6>2
          <5>3. QED
            BY <5>1, <5>2
        <4>2. QED
          BY <4>1
      <3>3. QED
        BY <1>0, <1>2, <2>1, <3>1, <3>2 DEF Entries, Row
    <2>8. CASE VerifyPlanTargets
      BY <1>1, <2>8
    <2>9. QED
      BY <2>2, <2>3, <2>4, <2>5, <2>6, <2>7, <2>8, RowFrame
  <1>3. QED
    BY <1>0, <1>1, <1>2, WorkFrame

LEMMA UnrecordedStep == IInv /\ [Next]_vars => Unrecorded'
  <1> SUFFICES ASSUME IInv, [Next]_vars, pc' \in Applying \cup Undoing, NEW t \in Targets, t \notin txs'[tx'].changed
               PROVE  live'[t] \in {txs'[tx'].before[t]} \cup Others
    BY DEF Unrecorded, Applying, Undoing, Others
  <1>0. TypeOK /\ Places
    BY DEF IInv
  <1>1. CASE VerifyPlanTargets
    <2>1. live' = live /\ live = work.before /\ txs'[tx'].before = work.before
      BY <1>0, <1>1, NewEntry DEF VerifyPlanTargets, Places
    <2>2. QED
      BY <2>1
  <1>2. CASE pc \in Applying \cup Undoing /\ UNCHANGED <<tx, work>>
    <2>0. tx # 0
      BY <1>0, <1>2 DEF Places, OnTx
    <2>1. txs'[tx'].before = txs[tx].before /\ t \notin txs[tx].changed
      BY <1>2, <2>0, ReviewKept, PreparedRow
    <2>2. live[t] \in {txs[tx].before[t]} \cup Others
      BY <1>2, <2>1 DEF IInv, Unrecorded
    <2>3. ~(pc = "install" /\ t = Row)
      BY <2>1 DEF IInv, Entries, Applying
    <2>4. QED
      BY <1>2, <2>1, <2>2, <2>3, LiveStep
  <1>3. QED
    BY <1>0, <1>1, <1>2, WorkFrame
-----------------------------------------------------------------------------
(* The target files while a rollback is at work                                *)

\* What a rollback writes, and what it keeps track of.
LEMMA BackFrame ==
    ASSUME [Next]_vars, pc \in Backing \cup Redoing, pc' \in Backing \cup Redoing
    PROVE  \/ RollBackEntry \/ RollBackEntryFails \/ RedoEntry \/ RedoEntryFails
           \/ UNCHANGED <<live, changed, restored>> /\ (pc' = "back" => pc = "back")
           \/ Drift /\ UNCHANGED <<pc, changed, restored>>
  <1> USE DEF Backing, Redoing
  <1>1. CASE Outside
    <2>1. live' = live \/ Drift
      BY <1>1 DEF Outside, Sync, PlanExpires, vars, disk
    <2>2. QED
      BY <1>1, <2>1, OutsideFrame
  <1>2. CASE PlanPreflight \/ TargetPlan \/ Refuse \/ DeployPreflight \/ VerifyPlanTargets \/ Interrupt
             \/ DeployPass \/ SaveRolledBack
    BY <1>2 DEF PlanPreflight, TargetPlan, Refuse, DeployPreflight, VerifyPlanTargets, Interrupt,
                DeployPass, SaveRolledBack, Leave
  <1>3. CASE RowUnchanged \/ PrepareRow \/ PrepareRowFails \/ InstallRow \/ CheckRow \/ VerifyFinalState
             \/ HostPreflight \/ Commit \/ PointLatest \/ Raise
    BY <1>3 DEF RowUnchanged, PrepareRow, PrepareRowFails, InstallRow, CheckRow, VerifyFinalState,
                HostPreflight, Commit, PointLatest, Raise, Continue, Applying
  <1>4. CASE RestoreEntry \/ RestoreEntryFails \/ RemovePointer
    BY <1>4 DEF RestoreEntry, RestoreEntryFails, RemovePointer, Continue
  <1>5. CASE RollbackStart \/ VerifyRollbackInputs \/ SaveManuallyRolledBack \/ UnlinkPointer \/ RollbackPass
    BY <1>5 DEF RollbackStart, VerifyRollbackInputs, SaveManuallyRolledBack, UnlinkPointer, RollbackPass,
                Continue, Leave
  <1>6. CASE RollbackRaises \/ RewritePointer \/ SaveCompensated
    BY <1>6 DEF RollbackRaises, RewritePointer, SaveCompensated, Continue, Leave
  <1>7. QED
    BY <1>1, <1>2, <1>3, <1>4, <1>5, <1>6 DEF Next, Plan, Deploy, Rollback, Outside

\* A step back restores one of the entries that are left, or raises.
LEMMA RollBackStep ==
    ASSUME IInv, RollBackEntry \/ RollBackEntryFails
    PROVE  \E t \in changed :
              /\ pc = "back" /\ t \in Targets
              /\ live'[t] = txs[tx].before[t] \/ (RollBackEntryFails /\ live'[t] = live[t])
              /\ \A u \in Targets \ {t} : live'[u] = live[u]
              /\ restored' = restored \cup {t}
              /\ \/ RollBackEntry /\ pc' = "back" /\ changed' = changed \ {t}
                 \/ RollBackEntryFails /\ pc' = "redo" /\ changed' = changed
  <1>0. TypeOK /\ pc = "back"
    BY DEF IInv, RollBackEntry, RollBackEntryFails, Continue
  <1>1. tx # 0
    BY <1>0 DEF IInv, Places, OnTx, Backing
  <1>2. CASE RollBackEntry
    <2>1. PICK t \in Targets : /\ LastOf(t, changed) /\ Install(t, Snapshot(t))
                               /\ restored' = restored \cup {t} /\ changed' = changed \ {t}
      BY <1>2 DEF RollBackEntry
    <2>2. t \in changed
      BY <2>1 DEF LastOf
    <2>3. Snapshot(t) = txs[tx].before[t] /\ Snapshot(t) \in Contents \cup {Absent}
      BY <1>0, <1>1, <2>2, EntriesSaved, SnapshotOfSaved
    <2>4. live'[t] = txs[tx].before[t] /\ \A u \in Targets \ {t} : live'[u] = live[u]
      BY <1>0, <2>1, <2>3, LiveType
    <2>5. pc' = "back"
      BY <1>2 DEF RollBackEntry, Continue
    <2>6. QED
      BY <1>0, <1>2, <2>1, <2>2, <2>4, <2>5
  <1>3. CASE RollBackEntryFails
    <2>1. PICK t \in Targets : /\ LastOf(t, changed) /\ (UNCHANGED live \/ Install(t, Snapshot(t)))
                               /\ restored' = restored \cup {t}
      BY <1>3 DEF RollBackEntryFails
    <2>2. t \in changed
      BY <2>1 DEF LastOf
    <2>3. Snapshot(t) = txs[tx].before[t] /\ Snapshot(t) \in Contents \cup {Absent}
      BY <1>0, <1>1, <2>2, EntriesSaved, SnapshotOfSaved
    <2>4. /\ live'[t] \in {txs[tx].before[t], live[t]}
          /\ \A u \in Targets \ {t} : live'[u] = live[u]
      BY <1>0, <2>1, <2>3, LiveType
    <2>5. pc' = "redo" /\ changed' = changed
      BY <1>3 DEF RollBackEntryFails, Continue
    <2>6. QED
      BY <1>0, <1>3, <2>1, <2>2, <2>4, <2>5
  <1>4. QED
    BY <1>2, <1>3

\* A step forward deploys one of the restored entries again, or fails to.
LEMMA RedoStep ==
    ASSUME IInv, RedoEntry \/ RedoEntryFails
    PROVE  \E t \in restored :
              /\ pc = "redo" /\ pc' = "redo" /\ t \in Targets
              /\ live'[t] = txs[tx].desired[t] \/ (RedoEntryFails /\ live'[t] = live[t])
              /\ \A u \in Targets \ {t} : live'[u] = live[u]
              /\ restored' = restored \ {t} /\ changed' = changed
  <1>0. TypeOK /\ pc = "redo" /\ pc' = "redo" /\ changed' = changed
    BY DEF IInv, RedoEntry, RedoEntryFails, Continue
  <1>1. tx # 0
    BY <1>0 DEF IInv, Places, OnTx, Redoing
  <1>2. PICK t \in Targets :
          /\ FirstOf(t, restored) /\ restored' = restored \ {t}
          /\ Install(t, txs[tx].desired[t]) \/ (RedoEntryFails /\ UNCHANGED live)
    BY DEF RedoEntry, RedoEntryFails
  <1>3. t \in restored
    BY <1>2 DEF FirstOf
  <1>4. txs[tx].desired[t] \in Contents \cup {Absent}
    BY <1>0, <1>1, AtWork, TransactionFacts DEF Files
  <1>5. QED
    BY <1>0, <1>2, <1>3, <1>4, LiveType

LEMMA BackEntriesStep == IInv /\ [Next]_vars => BackEntries'
  <1> SUFFICES ASSUME IInv, [Next]_vars, pc' \in Backing \cup Redoing
               PROVE  /\ changed' \subseteq txs'[tx'].changed /\ restored' \subseteq txs'[tx'].changed
                      /\ pc' = "back" => \A t \in changed' : t \in late' \/ live'[t] = txs'[tx'].desired[t]
                      /\ \A t \in restored' :
                            t \in late' \/ live'[t] \in {txs'[tx'].before[t], txs'[tx'].desired[t]}
    BY DEF BackEntries, Backing, Redoing
  <1>0. TypeOK /\ Places
    BY DEF IInv
  <1>1. CASE VerifyRollbackInputs
    BY <1>0, <1>1 DEF VerifyRollbackInputs, Continue, Places
  <1>2. CASE pc \in Backing \cup Redoing
    <2>0. tx # 0 /\ tx' = tx /\ changed \subseteq Targets /\ restored \subseteq Targets
      <3>1. tx' = tx
        <4>1. ~RollbackStart
          BY <1>2 DEF RollbackStart, Backing, Redoing
        <4>2. QED
          BY <1>0, <4>1, WorkFrame
      <3>2. QED
        BY <1>0, <1>2, <3>1 DEF Places, OnTx, TypeOK
    <2>1. txs'[tx'].before = txs[tx].before /\ txs'[tx'].desired = txs[tx].desired
          /\ txs'[tx'].changed = txs[tx].changed
      <3>1. ~Prepares
        BY <1>2 DEF Prepares, PrepareRow, PrepareRowFails, Continue, Backing, Redoing
      <3>2. QED
        BY <2>0, <3>1, ReviewKept
    <2>2. /\ changed \subseteq txs[tx].changed /\ restored \subseteq txs[tx].changed
          /\ pc = "back" => \A t \in changed : t \in late \/ live[t] = txs[tx].desired[t]
          /\ \A t \in restored : t \in late \/ live[t] \in {txs[tx].before[t], txs[tx].desired[t]}
          /\ late \subseteq late'
      BY <1>2, LateKept DEF IInv, BackEntries, Backing, Redoing
    <2>3. CASE RollBackEntry \/ RollBackEntryFails
      BY <2>0, <2>1, <2>2, <2>3, RollBackStep
    <2>4. CASE RedoEntry \/ RedoEntryFails
      BY <2>0, <2>1, <2>2, <2>4, RedoStep
    <2>5. CASE UNCHANGED <<live, changed, restored>> /\ (pc' = "back" => pc = "back")
      BY <2>1, <2>2, <2>5
    <2>6. CASE Drift /\ UNCHANGED <<pc, changed, restored>>
      <3>1. \A t \in changed \cup restored : live'[t] = live[t] \/ t \in late'
        BY <1>0, <2>0, <2>6, DriftStep
      <3>2. QED
        BY <2>1, <2>2, <2>6, <3>1
    <2>7. QED
      BY <1>2, <2>3, <2>4, <2>5, <2>6, BackFrame
  <1>3. QED
    BY <1>0, <1>1, <1>2, WorkFrame

-----------------------------------------------------------------------------
(* The invariant                                                               *)

LEMMA InvInit == Init => IInv
  <1> SUFFICES ASSUME Init PROVE IInv
    OBVIOUS
  <1>1. /\ pc = "idle" /\ tx = 0 /\ changed = {} /\ restored = {} /\ ~failed
        /\ plan = None /\ pointer = 0 /\ txs = <<>>
    BY DEF Init
  <1>2. Places /\ PlanOfCommit /\ OfPlan /\ StatusOfPlace /\ PointerOfPlace /\ Entries /\ Unrecorded
        /\ BackEntries
    BY <1>1 DEF Places, PlanOfCommit, OfPlan, StatusOfPlace, PointerOfPlace, Entries, Unrecorded,
                BackEntries, OnTx, Applying, Undoing, Backing, Redoing
  <1>3. Recorded
    BY <1>1 DEF Recorded
  <1>4. QED
    BY <1>2, <1>3, TypeInit DEF IInv

LEMMA InvStep == IInv /\ [Next]_vars => IInv'
  BY TypeStep, PlacesStep, PlanOfCommitStep, OfPlanStep, RecordedStep, StatusOfPlaceStep,
     PointerOfPlaceStep, EntriesStep, UnrecordedStep, BackEntriesStep DEF IInv

\* Whatever is interrupted, cannot be undone or is edited by someone else, the engine's memory
\* agrees with the transactions on disk.
THEOREM Invariance == Spec => []IInv
  BY InvInit, InvStep, PTL DEF Spec
-----------------------------------------------------------------------------
(* What holds whatever happens                                                 *)

\* Every operation leaves well-formed metadata, plans and files, at every place it can die.
THEOREM TypeCorrect == Spec => []TypeOK
  <1>1. IInv => TypeOK
    BY DEF IInv
  <1>2. QED
    BY <1>1, Invariance, PTL

\* apply_plan records an entry, with a backup of what it is about to replace, before it touches
\* the file: whenever it dies, what is on disk is enough to undo it.
THEOREM RecordedFirst == Spec => []RecordedBeforeTouched
  <1>1. ASSUME IInv, pc \in Applying \cup Undoing, NEW t \in Targets
        PROVE  IF t \in txs[tx].changed THEN Snapshot(t) = txs[tx].before[t]
               ELSE live[t] \in {txs[tx].before[t]} \cup Foreign
    <2>1. TypeOK /\ tx # 0
      BY <1>1 DEF IInv, Places, OnTx
    <2>2. CASE t \in txs[tx].changed
      BY <1>1, <2>1, <2>2, AtWork, SnapshotOfSaved DEF IInv, Recorded
    <2>3. CASE t \notin txs[tx].changed
      BY <1>1, <2>3 DEF IInv, Unrecorded, Others
    <2>4. QED
      BY <2>2, <2>3
  <1>2. IInv => RecordedBeforeTouched
    BY <1>1 DEF RecordedBeforeTouched
  <1>3. QED
    BY <1>2, Invariance, PTL

\* latest-success only ever names a transaction of exactly its commit's files that got past
\* every check and was not undone by its own handler, even across interruptions.
THEOREM PointerTruthful == Spec => []PointerProvesCommit
  <1>1. IInv => PointerProvesCommit
    BY DEF IInv, PointerProvesCommit, PointerOfPlace, Recorded
  <1>2. QED
    BY <1>1, Invariance, PTL

\* How a step changes a target file, at any place.
LEMMA LiveChange ==
    ASSUME IInv, [Next]_vars, NEW t \in Targets, live'[t] # live[t]
    PROVE  \/ InstallRow /\ pc = "install" /\ t = Row
           \/ pc \in Undoing /\ t \in changed
           \/ pc \in Backing /\ t \in changed /\ pc = "back"
           \/ pc \in Redoing /\ t \in restored
           \/ Drift /\ live'[t] \in Foreign
  <1>0. TypeOK
    BY DEF IInv
  <1>1. CASE Drift
    BY <1>0, <1>1, DriftStep
  <1>2. CASE InstallRow
    <2>1. pc \in Applying
      BY <1>2 DEF InstallRow, Continue, Applying
    <2>2. ~(RestoreEntry \/ RestoreEntryFails)
      BY <1>2 DEF InstallRow, RestoreEntry, RestoreEntryFails, Continue
    <2>3. QED
      BY <1>1, <2>1, <2>2, LiveStep
  <1>3. CASE RestoreEntry \/ RestoreEntryFails
    <2>1. pc \in Undoing
      BY <1>3 DEF RestoreEntry, RestoreEntryFails, Continue, Undoing
    <2>2. pc # "install"
      BY <1>3 DEF RestoreEntry, RestoreEntryFails, Continue
    <2>3. QED
      BY <1>1, <2>1, <2>2, LiveStep
  <1>4. CASE RollBackEntry \/ RollBackEntryFails
    BY <1>4, RollBackStep DEF Backing
  <1>5. CASE RedoEntry \/ RedoEntryFails
    BY <1>5, RedoStep DEF Redoing
  <1>6. QED
    BY <1>1, <1>2, <1>3, <1>4, <1>5, TxFrame

\* What someone else wrote before the operation at work listed the target is replaced only by a
\* deployment whose plan shows it: else the engine finds what a commit installs or what a
\* reviewed plan shows wherever it writes.
THEOREM DriftReviewed == Spec => DriftIsReviewed
  <1>1. ASSUME IInv, [Next]_vars, NEW t \in Targets, live[t] \in Foreign, live'[t] \notin Foreign
        PROVE  tx # 0 /\ (txs[tx].before[t] = live[t] \/ t \in late)
    <2>0. TypeOK /\ Places /\ live'[t] # live[t]
      BY <1>1 DEF IInv
    <2>1. \A c \in Commits : live[t] # Source[c][t]
      BY <1>1, ForeignAssumption
    <2>2. CASE pc \in OnTx
      <3>1. tx # 0 /\ tx \in DOMAIN txs /\ txs[tx].desired = Source[txs[tx].commit]
            /\ txs[tx].commit \in Commits
        BY <1>1, <2>0, <2>2, AtWork, TransactionFacts DEF Places, IInv, Recorded
      <3>2. txs[tx].desired[t] # live[t]
        BY <2>1, <3>1
      <3>3. CASE pc = "install" /\ t = Row
        BY <1>1, <3>1, <3>3 DEF IInv, Entries, Applying
      <3>4. CASE pc \in Undoing /\ t \in changed
        BY <1>1, <2>1, <3>1, <3>4 DEF IInv, Entries
      <3>5. CASE pc \in Backing /\ t \in changed /\ pc = "back"
        BY <1>1, <3>1, <3>2, <3>5 DEF IInv, BackEntries
      <3>6. CASE pc \in Redoing /\ t \in restored
        BY <1>1, <3>1, <3>2, <3>6 DEF IInv, BackEntries
      <3>7. QED
        BY <1>1, <2>0, <3>3, <3>4, <3>5, <3>6, LiveChange
    <2>3. CASE pc \notin OnTx
      BY <1>1, <2>0, <2>3, LiveChange DEF OnTx, Applying, Undoing, Backing, Redoing
    <2>4. QED
      BY <2>2, <2>3
  <1>2. IInv /\ [Next]_vars =>
          [\A t \in Targets : live[t] \in Foreign /\ live'[t] \notin Foreign =>
               tx # 0 /\ (txs[tx].before[t] = live[t] \/ t \in late)]_vars
    BY <1>1
  <1>3. QED
    BY <1>2, Invariance, PTL DEF Spec, DriftIsReviewed

\* No step of the engine writes an attestation-only target: no entry is ever made for it.
THEOREM AttestedUntouched == Spec => AttestedIsUntouched
  <1>1. ASSUME IInv, [Next]_vars, NEW t \in AttestOnly, live'[t] # live[t] PROVE Drift
    <2>0. TypeOK /\ Places /\ t \in Targets
      BY <1>1, ConstantsAssumption DEF IInv
    <2>1. CASE pc = "install" /\ t = Row
      BY <1>1, <2>1 DEF IInv, Entries, Applying
    <2>2. CASE pc \in Undoing /\ t \in changed
      BY <1>1, <2>2 DEF IInv, Entries
    <2>3. CASE (pc \in Backing /\ t \in changed) \/ (pc \in Redoing /\ t \in restored)
      <3>1. t \in txs[tx].changed
        BY <1>1, <2>3 DEF IInv, BackEntries
      <3>2. tx \in DOMAIN txs
        BY <2>0, <2>3, AtWork DEF Places, OnTx
      <3>3. QED
        BY <1>1, <3>1, <3>2 DEF IInv, Recorded
    <2>4. QED
      BY <1>1, <2>0, <2>1, <2>2, <2>3, LiveChange
  <1>2. IInv /\ [Next]_vars => [\A t \in AttestOnly : live'[t] = live[t] \/ Drift]_vars
    BY <1>1
  <1>3. QED
    BY <1>2, Invariance, PTL DEF Spec, AttestedIsUntouched
-----------------------------------------------------------------------------
(* Errors alone: no operation dies and nobody else edits a target              *)

ErrorsOnly == "interrupt" \notin Faults /\ "drift" \notin Faults

Looking == {"idle", "planning", "verify", "inputs"}

\* The actions that end in each part of the program.
Looks ==
    \/ PlanPreflight \/ TargetPlan \/ Refuse \/ DeployPreflight \/ DeployPass \/ SaveRolledBack
    \/ RollbackStart \/ RollbackPass \/ SaveCompensated \/ Interrupt

Applies ==
    \/ VerifyPlanTargets \/ RowUnchanged \/ Prepares \/ InstallRow \/ CheckRow \/ VerifyFinalState
    \/ HostPreflight \/ Commit \/ PointLatest \/ Raise
    \/ RestoreEntry \/ RestoreEntryFails \/ RemovePointer

RollsBack ==
    \/ VerifyRollbackInputs \/ RollBackEntry \/ RollBackEntryFails \/ SaveManuallyRolledBack
    \/ UnlinkPointer \/ RollbackRaises \/ RedoEntry \/ RedoEntryFails \/ RewritePointer

LEMMA ByPlace ==
    ASSUME [Next]_vars
    PROVE  /\ Looks \/ Applies \/ RollsBack \/ Outside
           /\ Looks => pc' \in Looking
           /\ Applies => pc' \in Applying \cup Undoing
           /\ RollsBack => pc' \in Backing \cup Redoing
  <1> USE DEF Looking, Applying, Undoing, Backing, Redoing
  <1>1. Looks \/ Applies \/ RollsBack \/ Outside
    BY DEF Next, Plan, Deploy, Rollback, Looks, Applies, RollsBack, Outside, Prepares
  <1>2. Looks => pc' \in Looking
    BY DEF Looks, PlanPreflight, TargetPlan, Refuse, DeployPreflight, DeployPass, SaveRolledBack,
           RollbackStart, RollbackPass, SaveCompensated, Interrupt, Leave
  <1>3. ASSUME Applies PROVE pc' \in Applying \cup Undoing
    <2>1. CASE VerifyPlanTargets \/ RowUnchanged \/ Prepares \/ InstallRow \/ CheckRow \/ VerifyFinalState
               \/ HostPreflight
      BY <2>1 DEF VerifyPlanTargets, RowUnchanged, Prepares, PrepareRow, PrepareRowFails, InstallRow,
                  CheckRow, VerifyFinalState, HostPreflight, Continue
    <2>2. CASE Commit \/ PointLatest \/ Raise \/ RestoreEntry \/ RestoreEntryFails \/ RemovePointer
      BY <2>2 DEF Commit, PointLatest, Raise, RestoreEntry, RestoreEntryFails, RemovePointer, Continue
    <2>3. QED
      BY <1>3, <2>1, <2>2 DEF Applies
  <1>4. ASSUME RollsBack PROVE pc' \in Backing \cup Redoing
    <2>1. CASE VerifyRollbackInputs \/ RollBackEntry \/ RollBackEntryFails \/ SaveManuallyRolledBack
               \/ UnlinkPointer
      BY <2>1 DEF VerifyRollbackInputs, RollBackEntry, RollBackEntryFails, SaveManuallyRolledBack,
                  UnlinkPointer, Continue
    <2>2. CASE RollbackRaises \/ RedoEntry \/ RedoEntryFails \/ RewritePointer
      BY <2>2 DEF RollbackRaises, RedoEntry, RedoEntryFails, RewritePointer, Continue
    <2>3. QED
      BY <1>4, <2>1, <2>2 DEF RollsBack
  <1>5. QED
    BY <1>1, <1>2, <1>3, <1>4

\* The parts of the program have no place in common.
LEMMA Disjoint ==
    /\ Looking \cap (Applying \cup Undoing) = {} /\ Looking \cap (Backing \cup Redoing) = {}
    /\ (Applying \cup Undoing) \cap (Backing \cup Redoing) = {}
  BY DEF Looking, Applying, Undoing, Backing, Redoing

LEMMA Quiet ==
    ASSUME ErrorsOnly, Outside
    PROVE  /\ UNCHANGED <<pointer, txs, pc, seen, work, tx, at, changed, restored, failed>>
           /\ live' = live
  BY OutsideFrame DEF ErrorsOnly, Outside, Sync, Drift, PlanExpires, vars, disk

\* A transaction that is on record as rollback_failed stays so, and an operation that adds one ends.
LEMMA MixedStep ==
    ASSUME IInv, [Next]_vars
    PROVE  /\ Mixed => Mixed'
           /\ Mixed' => Mixed \/ (failed /\ (SaveRolledBack \/ SaveCompensated))
           /\ failed /\ (SaveRolledBack \/ SaveCompensated) => Mixed'
  <1>0. TypeOK /\ Places
    BY DEF IInv
  <1> DEFINE Failing(x) == txs[x].status = "rollback_failed"
  <1>1. CASE UNCHANGED txs /\ ~Settles
    BY <1>1 DEF Mixed, Settles
  <1>2. CASE VerifyPlanTargets
    <2>1. work \in Plans /\ ~Settles
      BY <1>0, <1>2 DEF VerifyPlanTargets, Places, Settles, Commit, SaveManuallyRolledBack, SaveRolledBack,
                        SaveCompensated, Continue
    <2>2. /\ DOMAIN txs' = DOMAIN txs \cup {tx'} /\ txs'[tx'].status = "running"
          /\ \A x \in DOMAIN txs : txs'[x] = txs[x]
      BY <1>0, <1>2, <2>1, NewEntry
    <2>3. QED
      BY <2>1, <2>2 DEF Mixed, Settles
  <1>3. CASE Prepares
    <2>1. ~Settles
      BY <1>3 DEF Prepares, PrepareRow, PrepareRowFails, Settles, Commit, SaveManuallyRolledBack,
                  SaveRolledBack, SaveCompensated, Continue
    <2>2. QED
      BY <1>3, <2>1, PreparedRow DEF Mixed, Settles
  <1>4. CASE Settles
    <2>1. txs[tx].status # "rollback_failed"
      BY <1>4 DEF Settles, Commit, SaveManuallyRolledBack, SaveRolledBack, SaveCompensated, Continue,
                  IInv, StatusOfPlace, Applying, Undoing, Redoing
    <2>2. ~failed => txs'[tx].status # "rollback_failed"
      BY <1>4, Settled
    <2>3. Commit \/ SaveManuallyRolledBack => ~failed /\ ~SaveRolledBack /\ ~SaveCompensated
      BY <1>0 DEF Commit, SaveManuallyRolledBack, SaveRolledBack, SaveCompensated, Continue, Places,
                  Applying, Backing
    <2>4. failed /\ (SaveRolledBack \/ SaveCompensated) => txs'[tx].status = "rollback_failed"
      BY <1>4, <2>3, Settled
    <2>5. /\ tx \in DOMAIN txs /\ DOMAIN txs' = DOMAIN txs
          /\ \A x \in DOMAIN txs : x # tx => txs'[x].status = txs[x].status
      BY <1>4, Settled
    <2>6. QED
      BY <1>4, <2>1, <2>2, <2>3, <2>4, <2>5 DEF Mixed, Settles
  <1>5. QED
    BY <1>1, <1>2, <1>3, <1>4, TxFrame

\* Without foreign edits, a file that is not recorded is as it was.
LEMMA UnrecordedExact ==
    ASSUME ErrorsOnly, IInv, pc \in Applying \cup Undoing, NEW t \in Targets, t \notin txs[tx].changed
    PROVE  live[t] = txs[tx].before[t]
  BY DEF ErrorsOnly, IInv, Unrecorded, Others

LEMMA KeptRowsStep == ErrorsOnly /\ ErrorsInv /\ [Next]_vars => KeptRows'
  <1> SUFFICES ASSUME ErrorsOnly, ErrorsInv, [Next]_vars, NEW x \in DOMAIN txs',
                      txs'[x].status \in {"success", "manually_rolled_back"},
                      NEW t \in Targets, t \notin txs'[x].changed
               PROVE  txs'[x].before[t] = txs'[x].desired[t]
    BY DEF KeptRows
  <1>0. IInv /\ TypeOK /\ Places /\ KeptRows /\ ApplyExact
    BY DEF ErrorsInv, IInv
  <1>1. CASE x \in DOMAIN txs /\ SameRecord(x) /\ txs[x].status \in {"success", "manually_rolled_back"}
    BY <1>0, <1>1, Durable DEF KeptRows, SameRecord, SameReview
  <1>2. CASE UNCHANGED txs
    BY <1>0, <1>2 DEF KeptRows
  <1>3. CASE VerifyPlanTargets
    <2>1. work \in Plans
      BY <1>0, <1>3 DEF VerifyPlanTargets, Places
    <2>2. x # tx'
      BY <1>0, <1>3, <2>1, NewEntry
    <2>3. x \in DOMAIN txs /\ txs'[x] = txs[x]
      BY <1>0, <1>3, <2>1, <2>2, NewEntry
    <2>4. QED
      BY <1>0, <2>3 DEF KeptRows
  <1>4. CASE Prepares
    <2>1. x \in DOMAIN txs /\ txs'[x].status = txs[x].status
      BY <1>0, <1>4, PreparedRow
    <2>2. txs[tx].status = "running"
      BY <1>0, <1>4 DEF Prepares, PrepareRow, PrepareRowFails, Continue, IInv, StatusOfPlace, Applying
    <2>3. SameRecord(x)
      BY <1>0, <1>4, <2>1, <2>2, PreparedRow
    <2>4. QED
      BY <1>1, <2>1, <2>3
  <1>5. CASE Settles
    <2>1. /\ x \in DOMAIN txs /\ SameReview(x) /\ SameRecord(x)
          /\ x # tx => txs'[x].status = txs[x].status
      BY <1>0, <1>5, Settled
    <2>2. CASE x = tx /\ Commit
      <3>1. pc = "commit" /\ pc \in Applying
        BY <2>2 DEF Commit, Continue, Applying
      <3>2. live = txs[tx].desired
        BY <1>0, <3>1 DEF ApplyExact
      <3>3. live[t] = txs[tx].before[t]
        BY <1>0, <2>1, <2>2, <3>1, UnrecordedExact DEF SameRecord
      <3>4. QED
        BY <2>1, <2>2, <3>2, <3>3 DEF SameReview
    <2>3. CASE x = tx /\ SaveRolledBack
      <3>1. ~Commit /\ ~SaveCompensated /\ ~SaveManuallyRolledBack
        BY <2>3 DEF Commit, SaveCompensated, SaveManuallyRolledBack, SaveRolledBack, Continue
      <3>2. QED
        BY <1>0, <1>5, <2>3, <3>1, Settled
    <2>4. CASE x = tx /\ (SaveManuallyRolledBack \/ SaveCompensated)
      <3>1. txs[x].status \in {"success", "manually_rolled_back"}
        BY <1>0, <2>4 DEF SaveManuallyRolledBack, SaveCompensated, Continue, IInv, StatusOfPlace, Redoing
      <3>2. QED
        BY <1>1, <2>1, <3>1
    <2>5. CASE x # tx
      BY <1>1, <2>1, <2>5
    <2>6. QED
      BY <1>5, <2>2, <2>3, <2>4, <2>5 DEF Settles
  <1>6. QED
    BY <1>2, <1>3, <1>4, <1>5, TxFrame
\* Until its handler fails, what a deployment still has to undo is all that it changed.
LEMMA UndoneSoFar ==
    ASSUME ErrorsOnly, ErrorsInv, [Next]_vars, pc' \in Applying \cup Undoing, ~failed',
           NEW t \in Targets, t \notin changed'
    PROVE  live'[t] = txs'[tx'].before[t]
  <1>0. IInv /\ TypeOK /\ Places /\ ApplyExact
    BY DEF ErrorsInv, IInv
  <1>1. CASE VerifyPlanTargets
    <2>1. live' = live /\ live = work.before /\ txs'[tx'].before = work.before
      BY <1>0, <1>1, NewEntry DEF VerifyPlanTargets, Places
    <2>2. QED
      BY <2>1
  <1>2. CASE pc \in Applying \cup Undoing /\ UNCHANGED <<tx, work>>
    <2>0. txs'[tx'].before = txs[tx].before
      BY <1>0, <1>2, ReviewKept DEF Places, OnTx
    <2>1. ASSUME ~failed, t \notin changed PROVE live[t] = txs[tx].before[t]
      BY <1>0, <1>2, <2>1 DEF ApplyExact
    <2>2. CASE Outside
      BY <2>0, <2>1, <2>2, Quiet
    <2>3. CASE RowUnchanged \/ CheckRow \/ VerifyFinalState \/ HostPreflight \/ Commit \/ PointLatest \/ Raise
      <3>1. UNCHANGED <<live, changed, failed>>
        BY <2>3 DEF RowUnchanged, CheckRow, VerifyFinalState, HostPreflight, Commit, PointLatest, Raise
      <3>2. QED
        BY <2>0, <2>1, <3>1
    <2>4. CASE Prepares
      <3>1. UNCHANGED <<live, failed>> /\ changed \subseteq changed'
        BY <2>4 DEF Prepares, PrepareRow, PrepareRowFails
      <3>2. QED
        BY <2>0, <2>1, <3>1
    <2>5. CASE InstallRow
      <3>1. UNCHANGED <<changed, failed>> /\ pc = "install"
        BY <2>5 DEF InstallRow, Continue
      <3>2. t # Row
        BY <1>0, <3>1 DEF IInv, Entries, Applying
      <3>3. live'[t] = live[t]
        <4>1. ~RestoreEntry /\ ~RestoreEntryFails /\ ~Drift
          BY <3>1 DEF RestoreEntry, RestoreEntryFails, Continue, Drift, ErrorsOnly
        <4>2. QED
          BY <1>0, <1>2, <3>2, <4>1, LiveStep
      <3>4. QED
        BY <2>0, <2>1, <3>1, <3>3
    <2>6. CASE RestoreEntry
      <3>1. PICK u \in Targets : LastOf(u, changed) /\ Install(u, Snapshot(u)) /\ changed' = changed \ {u}
        BY <2>6 DEF RestoreEntry
      <3>2. pc = "undo" /\ UNCHANGED failed /\ u \in changed /\ tx # 0
        BY <1>0, <2>6, <3>1 DEF RestoreEntry, Continue, LastOf, Places, OnTx, Undoing
      <3>3. Snapshot(u) = txs[tx].before[u] /\ Snapshot(u) \in Contents \cup {Absent}
        BY <1>0, <3>2, EntriesSaved, SnapshotOfSaved
      <3>4. live'[u] = txs[tx].before[u] /\ (t # u => live'[t] = live[t])
        BY <1>0, <3>1, <3>3, LiveType
      <3>5. QED
        BY <2>0, <2>1, <3>1, <3>2, <3>4
    <2>7. CASE RestoreEntryFails
      BY <2>7 DEF RestoreEntryFails
    <2>8. CASE RemovePointer
      <3>1. live' = live /\ changed' = changed /\ ~failed
        BY <2>8 DEF RemovePointer
      <3>2. QED
        BY <2>0, <2>1, <3>1
    <2>9. CASE VerifyPlanTargets
      BY <1>1, <2>9
    <2>10. QED
      BY <2>2, <2>3, <2>4, <2>5, <2>6, <2>7, <2>8, <2>9, ByPlace, Disjoint DEF Applies
  <1>3. QED
    BY <1>0, <1>1, <1>2, WorkFrame

LEMMA ApplyExactStep == ErrorsOnly /\ ErrorsInv /\ [Next]_vars => ApplyExact'
  <1> SUFFICES ASSUME ErrorsOnly, ErrorsInv, [Next]_vars PROVE ApplyExact'
    OBVIOUS
  <1>0. IInv /\ TypeOK /\ Places /\ OfPlan /\ ApplyExact
    BY DEF ErrorsInv, IInv
  <1>1. pc' \in Applying \cup Undoing /\ ~failed' => \A t \in Targets \ changed' : live'[t] = txs'[tx'].before[t]
    BY UndoneSoFar
  <1>2. ASSUME pc' \in {"commit", "point", "log"}
        PROVE  live' = txs'[tx'].desired /\ (pc' = "log" => pointer' = tx')
    <2>1. HostPreflight \/ Commit \/ PointLatest \/ Outside
      <3>1. Applies \/ Outside
        BY <1>2, ByPlace, Disjoint DEF Applying
      <3>2. CASE VerifyPlanTargets \/ RowUnchanged \/ Prepares \/ InstallRow \/ CheckRow \/ VerifyFinalState
        BY <1>2, <3>2 DEF VerifyPlanTargets, RowUnchanged, Prepares, PrepareRow, PrepareRowFails,
                          InstallRow, CheckRow, VerifyFinalState, Continue
      <3>3. CASE Raise \/ RestoreEntry \/ RestoreEntryFails \/ RemovePointer
        BY <1>2, <3>3 DEF Raise, RestoreEntry, RestoreEntryFails, RemovePointer, Continue
      <3>4. QED
        BY <3>1, <3>2, <3>3 DEF Applies
    <2>2. CASE HostPreflight
      <3>1. pc \in Applying /\ pc' = "commit" /\ UNCHANGED <<live, txs, tx>> /\ live = work.desired
        BY <2>2 DEF HostPreflight, Continue, FinalState, Applying
      <3>2. QED
        BY <1>0, <3>1 DEF OfPlan
    <2>3. CASE Commit
      <3>1. pc = "commit" /\ pc' = "point" /\ UNCHANGED <<live, tx>>
        BY <2>3 DEF Commit, Continue
      <3>2. txs'[tx'].desired = txs[tx].desired
        BY <1>0, <3>1, ReviewKept DEF Places, OnTx, Applying
      <3>3. QED
        BY <1>0, <3>1, <3>2 DEF ApplyExact
    <2>4. CASE PointLatest
      BY <1>0, <2>4 DEF PointLatest, Continue, ApplyExact
    <2>5. CASE Outside
      BY <1>0, <1>2, <2>5, Quiet DEF ApplyExact
    <2>6. QED
      BY <2>1, <2>2, <2>3, <2>4, <2>5
  <1>3. QED
    BY <1>1, <1>2 DEF ApplyExact

LEMMA RollbackExactStep == ErrorsOnly /\ ErrorsInv /\ [Next]_vars => RollbackExact'
  <1> SUFFICES ASSUME ErrorsOnly, ErrorsInv, [Next]_vars, pc' \in Backing \cup Redoing
               PROVE  RollbackExact'
    BY DEF RollbackExact, Backing, Redoing
  <1> USE DEF Backing, Redoing
  <1>0. IInv /\ TypeOK /\ Places /\ StatusOfPlace /\ RollbackExact
    BY DEF ErrorsInv, IInv
  <1>1. /\ VerifyRollbackInputs \/ pc \in Backing \cup Redoing
        /\ tx' = tx /\ tx # 0
    <2>1. ~RollbackStart
      BY DEF RollbackStart
    <2>2. VerifyRollbackInputs \/ pc \in Backing \cup Redoing
      BY <1>0, WorkFrame
    <2>3. QED
      BY <1>0, <2>1, <2>2, WorkFrame DEF VerifyRollbackInputs, Continue, Places, OnTx
  <1>2. /\ txs'[tx'].before = txs[tx].before /\ txs'[tx'].desired = txs[tx].desired
        /\ txs'[tx'].changed = txs[tx].changed
    <2>1. ~Prepares
      BY <1>1 DEF VerifyRollbackInputs, Prepares, PrepareRow, PrepareRowFails, Continue
    <2>2. QED
      BY <1>0, <1>1, <2>1, ReviewKept
  <1>3. Accounted' = Accounted
    <2>1. ~SaveRolledBack /\ ~SaveCompensated
      BY DEF SaveRolledBack, SaveCompensated, Leave
    <2>2. Mixed' <=> Mixed
      BY <1>0, <2>1, MixedStep
    <2>3. QED
      BY <1>2, <2>2 DEF Accounted
  <1>4. Accounted \subseteq Targets
    BY <1>0, <1>1, AtWork, TransactionFacts DEF Accounted
  <1> DEFINE Kept == \A t \in Targets \ txs[tx].changed : txs[tx].before[t] = txs[tx].desired[t]
  <1>5. ASSUME txs[tx].status \in {"success", "manually_rolled_back"} PROVE Kept
    BY <1>0, <1>1, <1>5, AtWork DEF ErrorsInv, KeptRows
  <1>6. CASE VerifyRollbackInputs
    <2>1. /\ pc = "inputs" /\ pc' = "back" /\ UNCHANGED live
          /\ changed' = txs[tx].changed /\ restored' = {}
          /\ \A t \in txs[tx].changed : live[t] = txs[tx].desired[t]
      BY <1>0, <1>6 DEF VerifyRollbackInputs, Continue, Places
    <2>2. pointer = tx /\ txs[tx].status = "success"
      BY <1>0, <2>1 DEF IInv, PointerOfPlace, StatusOfPlace
    <2>3. ~Mixed => live = txs[tx].desired
      BY <1>1, <2>1, <2>2 DEF ErrorsInv, SuccessBelow
    <2>4. \A t \in Accounted : live[t] = txs[tx].desired[t]
      BY <2>1, <2>3 DEF Accounted
    <2>5. QED
      BY <1>2, <1>3, <2>1, <2>4 DEF RollbackExact
  <1>7. CASE RollBackEntry \/ RollBackEntryFails
    <2>1. PICK t \in changed :
              /\ pc = "back" /\ t \in Targets
              /\ live'[t] = txs[tx].before[t] \/ (RollBackEntryFails /\ live'[t] = live[t])
              /\ \A u \in Targets \ {t} : live'[u] = live[u]
              /\ restored' = restored \cup {t}
              /\ \/ RollBackEntry /\ pc' = "back" /\ changed' = changed \ {t}
                 \/ RollBackEntryFails /\ pc' = "redo" /\ changed' = changed
      BY <1>0, <1>7, RollBackStep
    <2>2. ~failed /\ txs[tx].changed = changed \cup restored
      BY <1>0, <2>1 DEF Places, RollbackExact
    <2>3. \A u \in Accounted \ restored' : live'[u] = txs[tx].desired[u]
      BY <1>0, <1>4, <2>1, <2>2 DEF RollbackExact
    <2>4. pc' = "back" => txs[tx].changed = changed' \cup restored'
      BY <2>1, <2>2
    <2>5. QED
      BY <1>2, <1>3, <2>1, <2>3, <2>4 DEF RollbackExact
  <1>8. CASE SaveManuallyRolledBack
    <2>1. /\ pc = "back" /\ pc' = "unlink" /\ changed = {} /\ UNCHANGED <<live, changed, restored>>
          /\ \A t \in txs[tx].changed : live[t] = txs[tx].before[t]
      BY <1>8 DEF SaveManuallyRolledBack, Continue
    <2>2. ~failed /\ txs[tx].changed = restored /\ Kept
      BY <1>0, <1>5, <2>1 DEF Places, RollbackExact, StatusOfPlace
    <2>3. \A t \in Accounted \ restored : live[t] = txs[tx].desired[t]
      BY <1>0, <2>1, <2>2 DEF RollbackExact
    <2>4. \A t \in Accounted : live[t] = txs[tx].before[t]
      BY <1>4, <2>1, <2>2, <2>3
    <2>5. QED
      BY <1>2, <1>3, <2>1, <2>2, <2>4 DEF RollbackExact
  <1>9. CASE UnlinkPointer
    <2>1. pc = "unlink" /\ pc' = "backlog" /\ pointer' = 0 /\ UNCHANGED <<live, txs, changed, restored>>
      BY <1>9 DEF UnlinkPointer, Continue
    <2>2. QED
      BY <1>0, <1>2, <1>3, <2>1 DEF RollbackExact
  <1>10. CASE RollbackRaises
    <2>1. pc \in {"back", "unlink", "backlog"} /\ pc' = "redo" /\ UNCHANGED <<live, changed, restored, failed>>
      BY <1>10 DEF RollbackRaises, Continue
    <2>2. CASE pc = "back"
      BY <1>0, <1>2, <1>3, <2>1, <2>2 DEF RollbackExact
    <2>3. CASE pc \in {"unlink", "backlog"}
      <3>1. changed = {} /\ txs[tx].changed = changed \cup restored /\ Kept
        BY <1>0, <1>5, <2>3 DEF Places, RollbackExact, StatusOfPlace
      <3>2. \A t \in Accounted : live[t] = txs[tx].before[t]
        BY <1>0, <2>3 DEF RollbackExact
      <3>3. \A t \in Accounted \ restored : live[t] = txs[tx].desired[t]
        BY <1>4, <3>1, <3>2
      <3>4. QED
        BY <1>2, <1>3, <2>1, <3>3 DEF RollbackExact
    <2>4. QED
      BY <2>1, <2>2, <2>3
  <1>11. CASE RedoEntry \/ RedoEntryFails
    <2>1. PICK t \in restored :
              /\ pc = "redo" /\ pc' = "redo" /\ t \in Targets
              /\ live'[t] = txs[tx].desired[t] \/ (RedoEntryFails /\ live'[t] = live[t])
              /\ \A u \in Targets \ {t} : live'[u] = live[u]
              /\ restored' = restored \ {t} /\ changed' = changed
      BY <1>0, <1>11, RedoStep
    <2>2. ~failed' => ~failed /\ ~RedoEntryFails
      BY <1>11 DEF RedoEntry, RedoEntryFails
    <2>3. ~failed' => \A u \in Accounted \ restored' : live'[u] = txs[tx].desired[u]
      BY <1>0, <1>4, <2>1, <2>2 DEF RollbackExact
    <2>4. QED
      BY <1>2, <1>3, <2>1, <2>3 DEF RollbackExact
  <1>12. CASE RewritePointer
    <2>1. pc = "redo" /\ pc' = "resave" /\ UNCHANGED <<live, changed, restored>>
      BY <1>12 DEF RewritePointer, Continue
    <2>2. ~failed' => ~failed /\ pointer' = tx
      BY <1>12 DEF RewritePointer
    <2>3. QED
      BY <1>0, <1>1, <1>2, <1>3, <2>1, <2>2 DEF RollbackExact
  <1>13. CASE Outside
    <2>1. UNCHANGED <<live, txs, pc, pointer, changed, restored, failed>>
      BY <1>13, Quiet
    <2>2. QED
      BY <1>0, <1>1, <1>2, <1>3, <2>1 DEF RollbackExact
  <1>14. QED
    BY <1>6, <1>7, <1>8, <1>9, <1>10, <1>11, <1>12, <1>13, ByPlace, Disjoint DEF RollsBack
\* An undone deployment leaves every file as it was.
LEMMA UndoneExactly ==
    ASSUME ErrorsInv, SaveRolledBack, ~failed
    PROVE  live = txs[tx].before /\ pointer # tx
  <1>1. IInv /\ pc = "save" /\ changed = {} /\ tx # 0
    BY DEF ErrorsInv, IInv, SaveRolledBack, Places, OnTx, Undoing
  <1>2. \A t \in Targets : live[t] = txs[tx].before[t]
    BY <1>1 DEF ErrorsInv, ApplyExact, Undoing
  <1>3. live \in Files /\ txs[tx].before \in Files
    BY <1>1, AtWork, TransactionFacts DEF IInv, TypeOK
  <1>4. live = txs[tx].before
    BY <1>2, <1>3 DEF Files
  <1>5. QED
    BY <1>1, <1>4 DEF IInv, PointerOfPlace

\* A compensated rollback leaves what it answers for as deployed.
LEMMA CompensatedExactly ==
    ASSUME ErrorsInv, SaveCompensated, ~failed
    PROVE  pointer = tx /\ \A t \in Accounted : live[t] = txs[tx].desired[t]
  <1>1. IInv /\ pc = "resave" /\ restored = {}
    BY DEF ErrorsInv, IInv, SaveCompensated, Places
  <1>2. QED
    BY <1>1 DEF ErrorsInv, RollbackExact

\* A step that neither settles nor drops it keeps the latest success what it is.
LEMMA LatestKept ==
    ASSUME IInv, [Next]_vars, pointer' # 0, pointer' = pointer, txs'[pointer].status = "success", pointer # tx
    PROVE  txs[pointer].status = "success" /\ txs'[pointer].desired = txs[pointer].desired
  <1>0. TypeOK /\ Places /\ pointer \in DOMAIN txs
    BY DEF IInv, PointerOfPlace
  <1>1. txs'[pointer].desired = txs[pointer].desired
    BY <1>0, Durable DEF SameReview
  <1>2. CASE VerifyPlanTargets
    BY <1>0, <1>1, <1>2, NewEntry DEF VerifyPlanTargets, Places
  <1>3. CASE Prepares
    BY <1>0, <1>1, <1>3, PreparedRow
  <1>4. CASE Settles
    BY <1>0, <1>1, <1>4, Settled
  <1>5. QED
    BY <1>1, <1>2, <1>3, <1>4, TxFrame

LEMMA SuccessBelowStep == ErrorsOnly /\ ErrorsInv /\ [Next]_vars => SuccessBelow'
  <1> SUFFICES ASSUME ErrorsOnly, ErrorsInv, [Next]_vars,
                      pointer' # 0, txs'[pointer'].status = "success", ~Mixed'
               PROVE  /\ pc' \in Looking => live' = txs'[pointer'].desired
                      /\ pc' \in Applying \cup Undoing /\ pointer' # tx' =>
                            txs'[tx'].before = txs'[pointer'].desired
    BY DEF SuccessBelow, Looking, Applying, Undoing
  <1>0. /\ IInv /\ TypeOK /\ Places /\ PointerOfPlace /\ SuccessBelow /\ ApplyExact /\ RollbackExact /\ ~Mixed
        /\ ~(failed /\ (SaveRolledBack \/ SaveCompensated))
    BY MixedStep DEF ErrorsInv, IInv
  <1>1. CASE Outside
    <2>1. UNCHANGED <<live, txs, pc, tx, pointer>>
      BY <1>1, Quiet
    <2>2. QED
      BY <1>0, <2>1 DEF SuccessBelow, Looking
  <1>2. CASE Looks
    <2>1. pc' \in Looking /\ pc' \notin Applying \cup Undoing
      BY <1>2, ByPlace, Disjoint
    <2>2. CASE PlanPreflight \/ TargetPlan \/ Refuse \/ DeployPreflight \/ RollbackStart
      <3>1. pc \in Looking /\ UNCHANGED <<live, txs, pointer>>
        BY <2>2 DEF PlanPreflight, TargetPlan, Refuse, DeployPreflight, RollbackStart, Looking, disk
      <3>2. QED
        BY <1>0, <2>1, <3>1 DEF SuccessBelow, Looking
    <2>3. CASE DeployPass
      <3>1. pc = "log" /\ UNCHANGED <<live, txs, pointer>>
        BY <2>3 DEF DeployPass, disk
      <3>2. QED
        BY <1>0, <2>1, <3>1 DEF ApplyExact
    <2>4. CASE SaveRolledBack
      <3>1. live' = live /\ pointer' = pointer /\ pc \in Undoing /\ ~failed
        BY <1>0, <2>4 DEF SaveRolledBack, Undoing
      <3>2. live = txs[tx].before /\ pointer # tx
        BY <2>4, <3>1, UndoneExactly
      <3>3. txs[pointer].status = "success" /\ txs'[pointer].desired = txs[pointer].desired
        BY <1>0, <3>1, <3>2, LatestKept
      <3>4. txs[tx].before = txs[pointer].desired
        BY <1>0, <3>1, <3>2, <3>3 DEF SuccessBelow
      <3>5. QED
        BY <2>1, <3>1, <3>2, <3>3, <3>4
    <2>5. CASE RollbackPass
      BY <1>0, <2>5 DEF RollbackPass, RollbackExact, disk
    <2>6. CASE SaveCompensated
      <3>1. live' = live /\ pointer' = pointer /\ ~failed /\ tx # 0
        BY <1>0, <2>6 DEF SaveCompensated, Places, OnTx, Redoing
      <3>2. pointer = tx /\ \A t \in Targets : live[t] = txs[tx].desired[t]
        BY <1>0, <2>6, <3>1, CompensatedExactly DEF Accounted
      <3>3. live \in Files /\ txs[tx].desired \in Files
        BY <1>0, <3>1, AtWork, TransactionFacts DEF TypeOK
      <3>4. live = txs[tx].desired
        BY <3>2, <3>3 DEF Files
      <3>5. txs'[tx].desired = txs[tx].desired
        BY <1>0, <3>1, ReviewKept
      <3>6. QED
        BY <2>1, <3>1, <3>2, <3>4, <3>5
    <2>7. ~Interrupt
      BY DEF Interrupt, ErrorsOnly
    <2>8. QED
      BY <1>2, <2>2, <2>3, <2>4, <2>5, <2>6, <2>7 DEF Looks
  <1>3. CASE Applies
    <2>1. pc' \in Applying \cup Undoing /\ pc' \notin Looking
      BY <1>3, ByPlace, Disjoint
    <2>2. CASE VerifyPlanTargets
      <3>1. pc = "verify" /\ work \in Plans /\ live = work.before /\ UNCHANGED pointer /\ tx = 0
        BY <1>0, <2>2 DEF VerifyPlanTargets, Places
      <3>2. txs'[tx'].before = work.before
        BY <1>0, <2>2, <3>1, NewEntry
      <3>3. txs[pointer].status = "success" /\ txs'[pointer].desired = txs[pointer].desired
        BY <1>0, <3>1, LatestKept
      <3>4. live = txs[pointer].desired
        BY <1>0, <3>1, <3>3 DEF SuccessBelow
      <3>5. QED
        BY <2>1, <3>1, <3>2, <3>3, <3>4
    <2>3. CASE pc \in Applying \cup Undoing /\ UNCHANGED tx
      <3>1. tx # 0 /\ txs'[tx].before = txs[tx].before
        BY <1>0, <2>3, ReviewKept DEF Places, OnTx
      <3>2. SUFFICES ASSUME pointer' # tx PROVE txs'[tx].before = txs'[pointer'].desired
        BY <2>1, <2>3
      <3>3. pointer' = pointer
        <4>1. ~UnlinkPointer /\ ~RewritePointer
          BY <2>3 DEF UnlinkPointer, RewritePointer, Continue, Applying, Undoing
        <4>2. PointLatest => pointer' = tx
          BY DEF PointLatest
        <4>3. RemovePointer => pointer' \in {0, pointer}
          BY DEF RemovePointer
        <4>4. QED
          BY <3>2, <4>1, <4>2, <4>3, TxFrame
      <3>4. txs[pointer].status = "success" /\ txs'[pointer].desired = txs[pointer].desired
        BY <1>0, <3>2, <3>3, LatestKept
      <3>5. QED
        BY <1>0, <2>3, <3>1, <3>2, <3>3, <3>4 DEF SuccessBelow
    <2>4. QED
      BY <1>0, <2>1, <2>2, <2>3, WorkFrame
  <1>4. CASE RollsBack
    BY <1>4, ByPlace, Disjoint
  <1>5. QED
    BY <1>1, <1>2, <1>3, <1>4, ByPlace

LEMMA ErrorsInvariance ==
    ASSUME ErrorsOnly
    PROVE  Spec => []ErrorsInv
  <1>1. Init => ErrorsInv
    <2>1. ASSUME Init
          PROVE  pc = "idle" /\ pointer = 0 /\ txs = <<>>
      BY <2>1 DEF Init
    <2>2. Init => SuccessBelow /\ KeptRows /\ ApplyExact /\ RollbackExact
      BY <2>1 DEF SuccessBelow, KeptRows, ApplyExact, RollbackExact, Applying, Undoing, Backing, Redoing
    <2>3. QED
      BY <2>2, InvInit DEF ErrorsInv
  <1>2. ErrorsInv /\ [Next]_vars => ErrorsInv'
    BY InvStep, SuccessBelowStep, KeptRowsStep, ApplyExactStep, RollbackExactStep DEF ErrorsInv
  <1>3. QED
    BY <1>1, <1>2, PTL DEF Spec

\* Unless the engine dies or someone else edits a target, a transaction that appears to be the
\* latest success is what the host runs, or some transaction says that it could not be undone.
THEOREM SuccessIsLive ==
    ASSUME ErrorsOnly
    PROVE  Spec => []LatestSuccessIsLive
  <1>1. ErrorsInv => LatestSuccessIsLive
    BY DEF ErrorsInv, SuccessBelow, LatestSuccessIsLive
  <1>2. QED
    BY <1>1, ErrorsInvariance, PTL

\* Which action ends an operation that has written something.
LEMMA Ends ==
    ASSUME ErrorsOnly, [Next]_vars, pc' = "idle", pc \in OnTx
    PROVE  DeployPass \/ SaveRolledBack \/ RollbackPass \/ SaveCompensated
  <1> USE DEF OnTx, Applying, Undoing, Backing, Redoing
  <1>1. Looks \/ Outside
    BY ByPlace, Disjoint DEF Looking
  <1>2. ~Outside
    BY OutsideFrame
  <1>3. ~PlanPreflight /\ ~TargetPlan /\ ~Refuse /\ ~DeployPreflight /\ ~RollbackStart /\ ~Interrupt
    BY DEF PlanPreflight, TargetPlan, Refuse, DeployPreflight, RollbackStart, Interrupt, ErrorsOnly
  <1>4. QED
    BY <1>1, <1>2, <1>3 DEF Looks

\* apply_plan is atomic as far as errors go: it returns with every target deployed, or raises with
\* every target as it was, or says on disk that it could not undo itself.
THEOREM ApplyAtomic ==
    ASSUME ErrorsOnly
    PROVE  Spec => ApplyIsAtomic
  <1>1. ASSUME ErrorsInv, [Next]_vars, pc' = "idle", pc \in Applying \cup Undoing
        PROVE  Deployed(Targets) \/ Undone("rolled_back", Targets) \/ Reported
    <2>0. IInv /\ TypeOK /\ StatusOfPlace /\ ApplyExact
      BY <1>1 DEF ErrorsInv, IInv
    <2>1. CASE DeployPass
      <3>1. pc = "log" /\ UNCHANGED <<live, txs, pointer>>
        BY <2>1 DEF DeployPass, disk
      <3>2. live = txs[tx].desired /\ pointer = tx /\ txs[tx].status = "success"
        BY <2>0, <3>1 DEF ApplyExact, StatusOfPlace
      <3>3. QED
        BY <3>1, <3>2 DEF Deployed
    <2>2. CASE SaveRolledBack
      <3>1. ~Commit /\ ~SaveCompensated /\ ~SaveManuallyRolledBack /\ live' = live /\ pointer' = pointer
        BY <2>2 DEF Commit, SaveCompensated, SaveManuallyRolledBack, SaveRolledBack, Continue
      <3>2. txs'[tx].status = IF failed THEN "rollback_failed" ELSE "rolled_back"
        BY <2>0, <2>2, <3>1, Settled DEF Settles
      <3>3. QED
        BY <1>1, <2>2, <3>1, <3>2, UndoneExactly DEF Undone, Reported
    <2>3. ~RollbackPass /\ ~SaveCompensated
      BY <1>1 DEF RollbackPass, SaveCompensated, Applying, Undoing
    <2>4. QED
      BY <1>1, <2>1, <2>2, <2>3, Ends DEF OnTx
  <1>2. ErrorsInv /\ [Next]_vars =>
          [pc' = "idle" /\ pc \in Applying \cup Undoing
             => Deployed(Targets) \/ Undone("rolled_back", Targets) \/ Reported]_vars
    BY <1>1
  <1>3. QED
    BY <1>2, ErrorsInvariance, PTL DEF Spec, ApplyIsAtomic

\* manual_rollback is atomic as far as errors go: what it answers for is as before the deployment,
\* or deployed again, or the transaction says that neither could be reached.
THEOREM RollbackAtomic ==
    ASSUME ErrorsOnly
    PROVE  Spec => RollbackIsAtomic
  <1>1. ASSUME ErrorsInv, [Next]_vars, pc' = "idle", pc \in Backing \cup Redoing
        PROVE  Undone("manually_rolled_back", Accounted) \/ Deployed(Accounted) \/ Reported
    <2>0. IInv /\ TypeOK /\ Places /\ StatusOfPlace /\ RollbackExact
      BY <1>1 DEF ErrorsInv, IInv
    <2>1. CASE RollbackPass
      <3>1. pc = "backlog" /\ UNCHANGED <<live, txs, pointer>>
        BY <2>1 DEF RollbackPass, disk
      <3>2. /\ \A t \in Accounted : live[t] = txs[tx].before[t]
            /\ pointer = 0 /\ tx # 0 /\ txs[tx].status = "manually_rolled_back"
        BY <2>0, <3>1 DEF RollbackExact, StatusOfPlace, Places, OnTx, Backing
      <3>3. QED
        BY <3>1, <3>2 DEF Undone
    <2>2. CASE SaveCompensated
      <3>1. ~Commit /\ ~SaveManuallyRolledBack /\ live' = live /\ pointer' = pointer
        BY <2>2 DEF Commit, SaveCompensated, SaveManuallyRolledBack, Continue
      <3>2. txs'[tx].status = IF failed THEN "rollback_failed" ELSE "success"
        BY <2>0, <2>2, <3>1, Settled DEF Settles
      <3>3. QED
        BY <1>1, <2>2, <3>1, <3>2, CompensatedExactly DEF Deployed, Reported
    <2>3. ~DeployPass /\ ~SaveRolledBack
      BY <1>1 DEF DeployPass, SaveRolledBack, Backing, Redoing
    <2>4. QED
      BY <1>1, <2>1, <2>2, <2>3, Ends DEF OnTx
  <1>2. ErrorsInv /\ [Next]_vars =>
          [pc' = "idle" /\ pc \in Backing \cup Redoing =>
             LET S == IF Mixed THEN txs[tx].changed ELSE Targets
             IN  Undone("manually_rolled_back", S) \/ Deployed(S) \/ Reported]_vars
    BY <1>1 DEF Accounted
  <1>3. QED
    BY <1>2, ErrorsInvariance, PTL DEF Spec, RollbackIsAtomic
=============================================================================
