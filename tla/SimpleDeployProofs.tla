------------------------- MODULE SimpleDeployProofs -------------------------
(* Theorems about the reconciler, for every number of targets, processes,   *)
(* digests and registries, and for every kind of fault.                     *)
EXTENDS SimpleDeployLedger, TLAPS

\* What a process loaded for its target is a target specification; the digest it
\* wants is a digest.
LEMMA LoadedTarget ==
    ASSUME TypeOK, NEW p \in Procs
    PROVE  /\ Target(p) \in TargetSpec
           /\ Target(p).profile # None => Target(p).profile.derivative \in Digests
  <1>1. loaded[p] \in TargetRegistry
    BY ConstantsAssumption DEF TypeOK
  <1>2. Target(p) \in TargetSpec
    BY <1>1 DEF TypeOK, TargetRegistry, Target
  <1>3. Target(p).profile # None => Target(p).profile \in Profiles
    BY <1>2 DEF TargetSpec
  <1>4. QED
    BY <1>2, <1>3 DEF Profiles

\* main's loop variable stays a target and its remaining aliases a sequence.
LEMMA NextAliasType ==
    ASSUME TypeOK, NEW p \in Procs, NextAlias(p)
    PROVE  /\ alias' \in [Procs -> Targets]
           /\ rest' \in [Procs -> Seq(Targets)]
           /\ pc' \in [Procs -> {"idle", "loop"} \cup Locked]
  <1>1. CASE rest[p] = <<>>
    BY <1>1 DEF TypeOK, NextAlias, Goto
  <1>2. CASE rest[p] # <<>>
    <2>1. rest[p] \in Seq(Targets)
      BY DEF TypeOK
    <2>2. Head(rest[p]) \in Targets /\ Tail(rest[p]) \in Seq(Targets)
      BY <1>2, <2>1
    <2>3. QED
      BY <1>2, <2>2 DEF TypeOK, NextAlias, Goto
  <1>3. QED
    BY <1>1, <1>2

LEMMA LeaveType ==
    ASSUME TypeOK, NEW p \in Procs, Leave(p)
    PROVE  /\ alias' \in [Procs -> Targets]
           /\ rest' \in [Procs -> Seq(Targets)]
           /\ pc' \in [Procs -> {"idle", "loop"} \cup Locked]
           /\ loaded' \in [Procs -> Registries]
           /\ lock' \in [Targets -> Procs \cup {None}]
           /\ before' \in [Procs -> Digests \cup {None}]
           /\ desired' \in [Procs -> Digests \cup {None}]
  <1>1. NextAlias(p)
    BY DEF Leave
  <1>2. QED
    BY <1>1, NextAliasType DEF TypeOK, Leave

\* A status file written is a status.
LEMMA StatusType ==
    \A r \in Results, m \in BOOLEAN, d \in Digests \cup {None} :
        [result |-> r, mutation_started |-> m, digest |-> d] \in Status
  BY DEF Status

LEMMA StatusFileExists ==
    \A r \in Results, m \in BOOLEAN, d \in Digests \cup {None} :
        [result |-> r, mutation_started |-> m, digest |-> d] # None
  BY StatusType, ConstantsAssumption

LEMMA TypeInit == Init => TypeOK
  <1> SUFFICES ASSUME Init PROVE TypeOK
    OBVIOUS
  <1>1. registry \in TargetRegistry
    BY ConstantsAssumption DEF Init
  <1>2. compose \in [Targets -> ComposeFiles]
    BY <1>1 DEF Init, TargetRegistry, TargetSpec
  <1>3. \A p \in Procs : Head(Aliases[p]) \in Targets /\ <<>> \in Seq(Targets)
    BY ConstantsAssumption
  <1>4. QED
    BY <1>2, <1>3 DEF Init, TypeOK

\* Every step of a reconciler keeps the types.
LEMMA TypeRun ==
    ASSUME TypeOK, DesiredReviewed, NEW p \in Procs, Run(p)
    PROVE  TypeOK'
  <1> USE DEF TypeOK, host, files, Goto, Receipt, Results
  <1>1. CASE Start(p)
    <2>1. Aliases[p] \in Seq(Targets) /\ Aliases[p] # <<>>
      BY ConstantsAssumption
    <2>2. Head(Aliases[p]) \in Targets /\ Tail(Aliases[p]) \in Seq(Targets)
      BY <2>1
    <2>3. QED
      BY <1>1, <2>2 DEF Start
  <1>2. CASE Busy(p)
    BY <1>2, NextAliasType DEF Busy
  <1>3. CASE Refused(p)
    BY <1>3, NextAliasType DEF Refused
  <1>4. CASE Lock(p)
    BY <1>4 DEF Lock, Locked
  <1>5. CASE Verify(p)
    BY <1>5 DEF Verify, Continue, Locked
  <1>6. CASE ResolvePointer(p)
    <2>1. CASE Target(p).profile # None /\ pointer[alias[p]] # Target(p).profile.base
      <3>1. Leave(p) /\ WriteStatus(alias[p], "HOLD_ORIGIN_PAIR_REQUIRED", FALSE, pointer[alias[p]])
        BY <1>6, <2>1 DEF ResolvePointer
      <3>2. status' \in [Targets -> Status \cup {None}]
        BY <3>1, StatusType DEF WriteStatus
      <3>3. QED
        BY <1>6, <3>1, <3>2, LeaveType DEF ResolvePointer
    <2>2. CASE ~(Target(p).profile # None /\ pointer[alias[p]] # Target(p).profile.base)
      BY <1>6, <2>2 DEF ResolvePointer, Locked
    <2>3. QED
      BY <2>1, <2>2
  <1>7. CASE InspectImageFails(p)
    BY <1>7, LoadedTarget DEF InspectImageFails, Continue, Locked
  <1>8. \A d : d = DesiredDigest(p) => d \in Digests \cup {None}
    BY LoadedTarget DEF DesiredDigest
  <1>9. CASE RemovalForbidden(p)
    BY <1>9, <1>8 DEF RemovalForbidden, Continue, Locked
  <1>10. CASE NoOpCurrent(p)
    BY <1>10, <1>8, LeaveType DEF NoOpCurrent, WriteStatus, Status
  <1>11. CASE NeedsDeploy(p)
    BY <1>11, <1>8 DEF NeedsDeploy, Continue, Locked
  <1>12. CASE WriteOverride(p)
    BY <1>12 DEF WriteOverride, Continue, Locked
  <1>13. CASE WriteMutationStarting(p)
    BY <1>13 DEF WriteMutationStarting, WriteStatus, Status, Continue, Locked, Mutating
  <1>14. CASE ComposePull(p)
    BY <1>14 DEF ComposePull, Continue, Locked, Mutating
  <1>15. CASE ComposeUp(p)
    BY <1>15 DEF ComposeUp, Continue, Locked, Mutating
  <1>16. CASE ComposeUpReturns(p)
    BY <1>16 DEF ComposeUpReturns, Continue, Locked, Mutating
  <1>17. CASE CheckIdentity(p)
    BY <1>17 DEF CheckIdentity, Continue, Locked, Mutating
  <1>18. CASE CheckHealth(p)
    BY <1>18 DEF CheckHealth, Continue, Locked, Mutating
  <1>19. CASE ResolvePointerAgain(p)
    BY <1>19 DEF ResolvePointerAgain, Continue, Locked, Mutating
  <1>20. CASE WriteSuccess(p)
    <2>1. pc[p] = "receipt" /\ Target(p).profile \in Profiles \cup {None}
      BY <1>20, LoadedTarget DEF WriteSuccess, Continue, TargetSpec
    <2>2. desired[p] \in Digests
      BY <2>1, ConstantsAssumption DEF DesiredReviewed, Frozen, Mutating
    <2>3. receipt' \in [Targets -> Receipt \cup {None}]
      BY <1>20, <2>1, <2>2 DEF WriteSuccess
    <2>4. QED
      BY <1>20, <2>1, <2>3 DEF WriteSuccess, Continue, Locked, Mutating
  <1>21. CASE WriteSuccessStatus(p)
    BY <1>21, LeaveType DEF WriteSuccessStatus, WriteStatus, Status
  <1>22. CASE CommandFails(p)
    BY <1>22 DEF CommandFails, Continue, Locked, Mutating
  <1>23. CASE WriteFailure(p)
    <2>1. Leave(p)
      BY <1>23 DEF WriteFailure
    <2>2. status' \in [Targets -> Status \cup {None}]
      <3>1. \A r \in Results, m \in BOOLEAN :
               [result |-> r, mutation_started |-> m, digest |-> desired[p]] \in Status
        BY StatusType
      <3>2. CASE pc[p] = "stop"
        BY <1>23, <3>1, <3>2 DEF WriteFailure, WriteStatus
      <3>3. CASE pc[p] = "refuse"
        BY <1>23, <3>1, <3>3 DEF WriteFailure, WriteStatus
      <3>4. QED
        BY <1>23, <3>2, <3>3 DEF WriteFailure
    <2>3. QED
      BY <1>23, <2>1, <2>2, LeaveType DEF WriteFailure
  <1>24. QED
    BY <1>1, <1>2, <1>3, <1>4, <1>5, <1>6, <1>7, <1>9, <1>10, <1>11, <1>12, <1>13,
       <1>14, <1>15, <1>16, <1>17, <1>18, <1>19, <1>20, <1>21, <1>22, <1>23 DEF Run

LEMMA TypeStep ==
    ASSUME TypeOK, DesiredReviewed, [Next]_vars
    PROVE  TypeOK'
  <1>1. ASSUME NEW p \in Procs, Run(p) PROVE TypeOK'
    BY <1>1, TypeRun
  <1>2. ASSUME NEW p \in Procs, Dies(p) PROVE TypeOK'
    BY <1>2 DEF Dies, TypeOK, host, files, Goto
  <1>3. ASSUME NEW t \in Targets, MovePointer(t) PROVE TypeOK'
    BY <1>3 DEF MovePointer, TypeOK, files
  <1>4. ASSUME NEW t \in Targets, ReplaceCompose(t) PROVE TypeOK'
    BY <1>4 DEF ReplaceCompose, TypeOK, files
  <1>5. ASSUME NEW t \in Targets, ContainerExits(t) PROVE TypeOK'
    BY <1>5 DEF ContainerExits, TypeOK, host, files
  <1>6. CASE ReplaceRegistry
    BY <1>6 DEF ReplaceRegistry, TypeOK, files
  <1>7. CASE UNCHANGED vars
    BY <1>7 DEF vars, TypeOK, host, files
  <1>8. QED
    BY <1>1, <1>2, <1>3, <1>4, <1>5, <1>6, <1>7 DEF Next

\* What a step of p leaves alone: everything of the other processes, and the
\* files, container and lock of every target but alias[p].
LEMMA Frame ==
    ASSUME TypeOK, NEW p \in Procs, Run(p) \/ Dies(p)
    PROVE  /\ \A q \in Procs \ {p} :
                /\ pc'[q] = pc[q]
                /\ alias'[q] = alias[q]
                /\ loaded'[q] = loaded[q]
                /\ desired'[q] = desired[q]
           /\ \A t \in Targets \ {alias[p]} :
                /\ lock'[t] = lock[t]
                /\ status'[t] = status[t]
                /\ receipt'[t] = receipt[t]
                /\ override'[t] = override[t]
                /\ container'[t] = container[t]
  <1> USE DEF TypeOK, host, files, Goto, NextAlias, Leave, Continue, WriteStatus
  <1>1. CASE Start(p) \/ Busy(p) \/ Refused(p) \/ Lock(p)
    BY <1>1 DEF Start, Busy, Refused, Lock
  <1>2. CASE Verify(p) \/ InspectImageFails(p) \/ RemovalForbidden(p) \/ NeedsDeploy(p)
    BY <1>2 DEF Verify, InspectImageFails, RemovalForbidden, NeedsDeploy
  <1>3. CASE ResolvePointer(p)
    BY <1>3 DEF ResolvePointer
  <1>4. CASE NoOpCurrent(p)
    BY <1>4 DEF NoOpCurrent
  <1>5. CASE WriteOverride(p) \/ WriteMutationStarting(p) \/ WriteSuccess(p)
    BY <1>5 DEF WriteOverride, WriteMutationStarting, WriteSuccess
  <1>6. CASE ComposePull(p) \/ ComposeUp(p) \/ ComposeUpReturns(p)
    BY <1>6 DEF ComposePull, ComposeUp, ComposeUpReturns
  <1>7. CASE CheckIdentity(p) \/ CheckHealth(p) \/ ResolvePointerAgain(p) \/ CommandFails(p)
    BY <1>7 DEF CheckIdentity, CheckHealth, ResolvePointerAgain, CommandFails
  <1>8. CASE WriteSuccessStatus(p) \/ WriteFailure(p)
    BY <1>8 DEF WriteSuccessStatus, WriteFailure
  <1>9. CASE Dies(p)
    BY <1>9 DEF Dies
  <1>10. QED
    BY <1>1, <1>2, <1>3, <1>4, <1>5, <1>6, <1>7, <1>8, <1>9 DEF Run

\* A process that holds no lock changes no file and no container, and takes only a
\* free lock.
LEMMA Outside ==
    ASSUME TypeOK, NEW p \in Procs, Run(p) \/ Dies(p), pc[p] \notin Locked
    PROVE  /\ UNCHANGED <<status, receipt, override, container>>
           /\ lock[alias[p]] # None => lock' = lock
  <1> USE DEF host, files, Goto, Locked, Mutating, Continue
  <1>1. CASE Start(p) \/ Busy(p) \/ Refused(p) \/ Lock(p) \/ Dies(p)
    BY <1>1 DEF Start, Busy, Refused, Lock, Dies
  <1>2. CASE ~(Start(p) \/ Busy(p) \/ Refused(p) \/ Lock(p) \/ Dies(p))
    <2>1. CASE Verify(p) \/ InspectImageFails(p) \/ RemovalForbidden(p) \/ NeedsDeploy(p)
               \/ ResolvePointer(p) \/ NoOpCurrent(p) \/ WriteOverride(p)
      BY <2>1 DEF Verify, InspectImageFails, RemovalForbidden, NeedsDeploy, ResolvePointer,
                  NoOpCurrent, WriteOverride
    <2>2. CASE WriteMutationStarting(p) \/ WriteSuccess(p) \/ ComposePull(p) \/ ComposeUp(p)
               \/ ComposeUpReturns(p) \/ CheckIdentity(p) \/ CheckHealth(p)
      BY <2>2 DEF WriteMutationStarting, WriteSuccess, ComposePull, ComposeUp,
                  ComposeUpReturns, CheckIdentity, CheckHealth
    <2>3. CASE ResolvePointerAgain(p) \/ CommandFails(p) \/ WriteSuccessStatus(p)
               \/ WriteFailure(p)
      BY <2>3 DEF ResolvePointerAgain, CommandFails, WriteSuccessStatus, WriteFailure
    <2>4. QED
      BY <1>2, <2>1, <2>2, <2>3 DEF Run
  <1>3. QED
    BY <1>1, <1>2

\* Whatever another process does, the holder of a lock finds its target as it left it.
LEMMA HolderUndisturbed ==
    ASSUME TypeOK, LockHeld, NEW p \in Procs, Run(p) \/ Dies(p),
           NEW q \in Procs \ {p}, pc[q] \in Locked
    PROVE  /\ pc'[q] = pc[q]
           /\ alias'[q] = alias[q]
           /\ loaded'[q] = loaded[q]
           /\ desired'[q] = desired[q]
           /\ lock'[alias[q]] = lock[alias[q]]
           /\ status'[alias[q]] = status[alias[q]]
           /\ receipt'[alias[q]] = receipt[alias[q]]
           /\ override'[alias[q]] = override[alias[q]]
           /\ container'[alias[q]] = container[alias[q]]
  <1>1. lock[alias[q]] = q /\ alias[q] \in Targets /\ q # None
    BY ConstantsAssumption DEF LockHeld, TypeOK
  <1>2. CASE alias[q] # alias[p]
    BY <1>1, <1>2, Frame
  <1>3. CASE alias[q] = alias[p]
    <2>1. pc[p] \notin Locked
      BY <1>1, <1>3 DEF LockHeld
    <2>2. QED
      BY <1>1, <1>3, <2>1, Frame, Outside
  <1>4. QED
    BY <1>2, <1>3

\* main's next alias starts outside the lock.
LEMMA NextAliasPlace ==
    ASSUME TypeOK, NEW p \in Procs, NextAlias(p)
    PROVE  pc'[p] \in {"idle", "loop"}
  BY DEF TypeOK, NextAlias, Goto

\* A process under the lock owns it: only Lock enters, and every way out releases.
LEMMA LockHeldRun ==
    ASSUME TypeOK, LockHeld, NEW p \in Procs, Run(p) \/ Dies(p)
    PROVE  LockHeld'
  <1> SUFFICES ASSUME NEW q \in Procs, pc'[q] \in Locked
               PROVE  lock'[alias'[q]] = q
    BY DEF LockHeld
  <1>1. CASE q # p
    BY <1>1, Frame, HolderUndisturbed DEF LockHeld
  <1>2. CASE q = p
    <2> USE DEF TypeOK, Goto
    <2>1. ~NextAlias(p)
      BY <1>2, NextAliasPlace DEF Locked, Mutating
    <2>2. CASE Lock(p)
      BY <1>2, <2>2 DEF Lock
    <2>3. CASE \E from, to : from \in Locked /\ Continue(p, from, to)
      BY <1>2, <2>3 DEF Continue, LockHeld
    <2>4. CASE ResolvePointer(p)
      BY <1>2, <2>1, <2>4 DEF ResolvePointer, Leave, LockHeld, Locked
    <2>5. CASE Dies(p) \/ Start(p)
      BY <1>2, <2>5 DEF Dies, Start, Locked, Mutating
    <2>6. CASE ~Lock(p) /\ ~ResolvePointer(p) /\ ~Dies(p) /\ ~Start(p)
      BY <2>1, <2>3, <2>6
         DEF Run, Busy, Refused, Verify, InspectImageFails, RemovalForbidden, NoOpCurrent,
             NeedsDeploy, WriteOverride, WriteMutationStarting, ComposePull, ComposeUp,
             ComposeUpReturns, CheckIdentity, CheckHealth, ResolvePointerAgain,
             WriteSuccess, WriteSuccessStatus, CommandFails, WriteFailure, Leave, Locked,
             Mutating
    <2>7. QED
      BY <2>2, <2>4, <2>5, <2>6
  <1>3. QED
    BY <1>1, <1>2

\* Every step that keeps p under the lock is one of these.
LEMMA StepUnderLock ==
    ASSUME TypeOK, NEW p \in Procs, Run(p) \/ Dies(p), pc'[p] \in Locked
    PROVE  \/ Lock(p)
           \/ /\ ~Lock(p) /\ pc[p] \in Locked
              /\ alias' = alias /\ loaded' = loaded
              /\ \/ Verify(p) 
                 \/ ResolvePointer(p) /\ pc'[p] = "inspect" /\ status' = status
                 \/ InspectImageFails(p) \/ RemovalForbidden(p) \/ NeedsDeploy(p)
                 \/ WriteOverride(p) \/ WriteMutationStarting(p)
                 \/ ComposePull(p) \/ ComposeUp(p) \/ ComposeUpReturns(p)
                 \/ CheckIdentity(p) \/ CheckHealth(p) \/ ResolvePointerAgain(p)
                 \/ WriteSuccess(p) \/ CommandFails(p)
  <1> USE DEF TypeOK, Goto, Continue
  <1>1. ~NextAlias(p)
    BY NextAliasPlace DEF Locked, Mutating
  <1>2. ~Leave(p) /\ ~Start(p) /\ ~Busy(p) /\ ~Refused(p) /\ ~Dies(p)
    BY <1>1 DEF Leave, Start, Busy, Refused, Dies, Locked, Mutating
  <1>3. ~NoOpCurrent(p) /\ ~WriteSuccessStatus(p) /\ ~WriteFailure(p)
    BY <1>2 DEF NoOpCurrent, WriteSuccessStatus, WriteFailure
  <1>4. CASE ResolvePointer(p)
    BY <1>2, <1>4 DEF ResolvePointer, Locked, Lock
  <1>5. CASE Lock(p)
    BY <1>5
  <1>6. CASE ~Lock(p) /\ ~ResolvePointer(p)
    BY <1>2, <1>3, <1>6
       DEF Run, Verify, InspectImageFails, RemovalForbidden, NeedsDeploy, WriteOverride,
           WriteMutationStarting, ComposePull, ComposeUp, ComposeUpReturns, CheckIdentity,
           CheckHealth, ResolvePointerAgain, WriteSuccess, CommandFails, Locked, Mutating
  <1>7. QED
    BY <1>4, <1>5, <1>6

\* No process is under the lock of a target whose stop is on record.
LEMMA StopUnseenRun ==
    ASSUME TypeOK, LockHeld, StopUnseen, NEW p \in Procs, Run(p) \/ Dies(p)
    PROVE  StopUnseen'
  <1> SUFFICES ASSUME NEW q \in Procs, pc'[q] \in Locked
               PROVE  ~BlockedByPostMutationFailure(alias[q])'
    BY DEF StopUnseen
  <1> USE DEF BlockedByPostMutationFailure, files
  <1>1. CASE q # p
    BY <1>1, Frame, HolderUndisturbed DEF StopUnseen
  <1>2. CASE q = p /\ Lock(p)
    BY <1>2 DEF Lock
  <1>3. CASE q = p /\ WriteMutationStarting(p)
    BY <1>3 DEF WriteMutationStarting, WriteStatus, Continue, TypeOK
  <1>4. CASE q = p /\ ~Lock(p) /\ ~WriteMutationStarting(p)
    <2>1. status' = status /\ alias' = alias /\ pc[p] \in Locked
      BY <1>4, StepUnderLock
         DEF Verify, ResolvePointer, InspectImageFails, RemovalForbidden, NeedsDeploy,
             WriteOverride, ComposePull, ComposeUp, ComposeUpReturns, CheckIdentity,
             CheckHealth, ResolvePointerAgain, WriteSuccess, CommandFails
    <2>2. QED
      BY <1>4, <2>1 DEF StopUnseen
  <1>5. QED
    BY <1>1, <1>2, <1>3, <1>4

\* What p froze was accepted for its target.
LEMMA DesiredReviewedRun ==
    ASSUME TypeOK, LockHeld, DesiredReviewed, NEW p \in Procs, Run(p) \/ Dies(p)
    PROVE  DesiredReviewed'
  <1> SUFFICES ASSUME NEW q \in Procs, pc'[q] \in Frozen
               PROVE  desired'[q] \in Reviewed[alias'[q]]
    BY DEF DesiredReviewed
  <1> USE DEF Frozen
  <1>1. pc'[q] \in Locked
    BY DEF Locked
  <1>2. CASE q # p
    BY <1>1, <1>2, Frame, HolderUndisturbed DEF DesiredReviewed
  <1>3. CASE q = p /\ NeedsDeploy(p)
    BY <1>3 DEF NeedsDeploy, InspectImagePasses, Continue, TypeOK
  <1>4. CASE q = p /\ ~NeedsDeploy(p)
    <2> USE DEF Continue, Goto, TypeOK, Mutating
    <2>0. /\ ~Lock(p) /\ ~Verify(p) /\ ~InspectImageFails(p) /\ ~RemovalForbidden(p)
          /\ ~(ResolvePointer(p) /\ pc'[p] = "inspect")
      BY <1>4 DEF Lock, Verify, InspectImageFails, RemovalForbidden
    <2>1. desired' = desired /\ alias' = alias /\ pc[p] \in Frozen
      <3>1. CASE WriteOverride(p) \/ WriteMutationStarting(p) \/ WriteSuccess(p)
        BY <3>1 DEF WriteOverride, WriteMutationStarting, WriteSuccess
      <3>2. CASE ComposePull(p) \/ ComposeUp(p) \/ ComposeUpReturns(p) \/ CheckIdentity(p)
        BY <3>2 DEF ComposePull, ComposeUp, ComposeUpReturns, CheckIdentity
      <3>3. CASE CheckHealth(p) \/ ResolvePointerAgain(p) \/ CommandFails(p)
        BY <1>4, <3>3 DEF CheckHealth, ResolvePointerAgain, CommandFails
      <3>4. QED
        BY <1>1, <1>4, <2>0, <3>1, <3>2, <3>3, StepUnderLock
    <2>2. QED
      BY <1>4, <2>1 DEF DesiredReviewed
  <1>5. QED
    BY <1>2, <1>3, <1>4

\* The override file names the frozen digest until the attempt is over.
LEMMA OverrideFrozenRun ==
    ASSUME TypeOK, LockHeld, OverrideFrozen, NEW p \in Procs, Run(p) \/ Dies(p)
    PROVE  OverrideFrozen'
  <1> SUFFICES ASSUME NEW q \in Procs, pc'[q] \in Frozen \ {"override"}
               PROVE  override'[alias'[q]] = desired'[q]
    BY DEF OverrideFrozen
  <1> USE DEF Frozen
  <1>1. pc'[q] \in Locked
    BY DEF Locked
  <1>2. CASE q # p
    BY <1>1, <1>2, Frame, HolderUndisturbed DEF OverrideFrozen
  <1>3. CASE q = p /\ WriteOverride(p)
    BY <1>3 DEF WriteOverride, Continue, TypeOK
  <1>4. CASE q = p /\ ~WriteOverride(p)
    <2>1. ~Lock(p) /\ ~NeedsDeploy(p) /\ ~InspectImageFails(p) /\ ~RemovalForbidden(p)
      BY <1>4 DEF Lock, NeedsDeploy, InspectImageFails, RemovalForbidden, Continue, Goto,
                  TypeOK, Mutating
    <2>2. /\ desired' = desired /\ alias' = alias /\ override' = override
          /\ pc[p] \in Frozen \ {"override"}
      BY <1>1, <1>4, <2>1, StepUnderLock, ZenonT(60)
         DEF Verify, ResolvePointer, WriteMutationStarting, ComposePull, ComposeUp, ComposeUpReturns, CheckIdentity,
             CheckHealth, ResolvePointerAgain, WriteSuccess, CommandFails, Continue, Goto,
             TypeOK, Mutating, files
    <2>3. QED
      BY <1>4, <2>2 DEF OverrideFrozen
  <1>5. QED
    BY <1>2, <1>3, <1>4

\* During a mutation the status file says that one is starting.
LEMMA MarkerWrittenRun ==
    ASSUME TypeOK, LockHeld, MarkerWritten, NEW p \in Procs, Run(p) \/ Dies(p)
    PROVE  MarkerWritten'
  <1> SUFFICES ASSUME NEW q \in Procs, pc'[q] \in Mutating
               PROVE  /\ status'[alias'[q]] # None
                      /\ status'[alias'[q]].result = "MUTATION_STARTING"
    BY DEF MarkerWritten
  <1>1. pc'[q] \in Locked
    BY DEF Locked
  <1>2. CASE q # p
    BY <1>1, <1>2, Frame, HolderUndisturbed DEF MarkerWritten
  <1>3. CASE q = p /\ WriteMutationStarting(p)
    <2>1. [result |-> "MUTATION_STARTING", mutation_started |-> FALSE, digest |-> desired[p]]
            # None
      BY StatusFileExists DEF TypeOK, Results
    <2>2. QED
      BY <1>3, <2>1 DEF WriteMutationStarting, WriteStatus, Continue, TypeOK
  <1>4. CASE q = p /\ ~WriteMutationStarting(p)
    <2>1. alias' = alias /\ status' = status /\ pc[p] \in Mutating
      BY <1>1, <1>4, StepUnderLock, ZenonT(60)
         DEF Lock, Verify, ResolvePointer, InspectImageFails, RemovalForbidden, NeedsDeploy,
             WriteOverride, ComposePull, ComposeUp, ComposeUpReturns, CheckIdentity,
             CheckHealth, ResolvePointerAgain, WriteSuccess, CommandFails, Continue, Goto,
             TypeOK, Mutating, files
    <2>2. QED
      BY <1>4, <2>1 DEF MarkerWritten
  <1>5. QED
    BY <1>2, <1>3, <1>4

\* From the identity check to the end of the attempt the container runs the frozen
\* digest, or has exited.
LEMMA ContainerVerifiedRun ==
    ASSUME TypeOK, LockHeld, ContainerVerified, NEW p \in Procs, Run(p) \/ Dies(p)
    PROVE  ContainerVerified'
  <1> SUFFICES ASSUME NEW q \in Procs, pc'[q] \in Verified
               PROVE  container'[alias'[q]] \in {desired'[q], None}
    BY DEF ContainerVerified
  <1> USE DEF Verified
  <1>1. pc'[q] \in Locked
    BY DEF Locked, Mutating
  <1>2. CASE q # p
    BY <1>1, <1>2, Frame, HolderUndisturbed DEF ContainerVerified, Locked, Mutating
  <1>3. CASE q = p /\ CheckIdentity(p)
    BY <1>3 DEF CheckIdentity, Continue, TypeOK
  <1>4. CASE q = p /\ ~CheckIdentity(p)
    <2>1. ~Lock(p) /\ ~NeedsDeploy(p) /\ ~InspectImageFails(p) /\ ~RemovalForbidden(p)
             /\ ~CommandFails(p)
      BY <1>4 DEF Lock, NeedsDeploy, InspectImageFails, RemovalForbidden, CommandFails,
                  Continue, Goto, TypeOK
    <2>2. /\ desired' = desired /\ alias' = alias /\ container' = container
          /\ pc[p] \in Verified
      BY <1>1, <1>4, <2>1, StepUnderLock
         DEF Verify, ResolvePointer, WriteOverride, WriteMutationStarting, ComposePull,
             ComposeUp, ComposeUpReturns, CheckHealth, ResolvePointerAgain, WriteSuccess,
             Continue, Goto, TypeOK
    <2>3. QED
      BY <1>4, <2>2 DEF ContainerVerified
  <1>5. QED
    BY <1>2, <1>3, <1>4

\* Before SUCCESS is published the receipt names the frozen digest.
LEMMA ReceiptWrittenRun ==
    ASSUME TypeOK, DesiredReviewed, LockHeld, ReceiptWritten,
           NEW p \in Procs, Run(p) \/ Dies(p)
    PROVE  ReceiptWritten'
  <1> SUFFICES ASSUME NEW q \in Procs, pc'[q] = "success"
               PROVE  /\ receipt'[alias'[q]] # None
                      /\ receipt'[alias'[q]].digest = desired'[q]
    BY DEF ReceiptWritten
  <1>1. pc'[q] \in Locked
    BY DEF Locked, Mutating
  <1>2. CASE q # p
    BY <1>1, <1>2, Frame, HolderUndisturbed DEF ReceiptWritten, Locked, Mutating
  <1>3. CASE q = p
    <2>1. WriteSuccess(p)
      BY <1>1, <1>3, StepUnderLock
         DEF Lock, Verify, ResolvePointer, InspectImageFails, RemovalForbidden, NeedsDeploy,
             WriteOverride, WriteMutationStarting, ComposePull, ComposeUp, ComposeUpReturns,
             CheckIdentity, CheckHealth, ResolvePointerAgain, CommandFails, Continue, Goto,
             TypeOK
    <2>2. desired[p] \in Digests /\ Target(p).profile \in Profiles \cup {None}
      BY <2>1, LoadedTarget, ConstantsAssumption
         DEF WriteSuccess, Continue, DesiredReviewed, Frozen, Mutating, TypeOK, TargetSpec
    <2>3. [digest |-> desired[p], profile |-> Target(p).profile] # None
      BY <2>2, ConstantsAssumption DEF Receipt
    <2>4. QED
      BY <1>3, <2>1, <2>3 DEF WriteSuccess, Continue, TypeOK
  <1>4. QED
    BY <1>2, <1>3

\* An attempt that goes on without a profile saw no opted-in receipt, and still sees none.
LEMMA OptInCheckedRun ==
    ASSUME TypeOK, LockHeld, OptInChecked, NEW p \in Procs, Run(p) \/ Dies(p)
    PROVE  OptInChecked'
  <1> DEFINE S == Frozen \ {"success", "stop"}
  <1> SUFFICES ASSUME NEW q \in Procs, pc'[q] \in S
               PROVE  ~OriginProfileRemovalForbidden(q)'
    BY DEF OptInChecked
  <1> USE DEF OriginProfileRemovalForbidden, Target, Frozen
  <1>1. pc'[q] \in Locked
    BY DEF Locked
  <1>2. CASE q # p
    BY <1>1, <1>2, Frame, HolderUndisturbed DEF OptInChecked
  <1>3. CASE q = p /\ NeedsDeploy(p)
    BY <1>3 DEF NeedsDeploy, Continue, files
  <1>4. CASE q = p /\ ~NeedsDeploy(p)
    <2>1. ~Lock(p) /\ ~InspectImageFails(p) /\ ~RemovalForbidden(p) /\ ~CommandFails(p)
             /\ ~WriteSuccess(p)
      BY <1>4 DEF Lock, InspectImageFails, RemovalForbidden, CommandFails, WriteSuccess,
                  Continue, Goto, TypeOK, Mutating
    <2>2. /\ receipt' = receipt /\ alias' = alias /\ loaded' = loaded
          /\ pc[p] \in S
      BY <1>1, <1>4, <2>1, StepUnderLock, ZenonT(60)
         DEF Verify, ResolvePointer, WriteOverride, WriteMutationStarting, ComposePull,
             ComposeUp, ComposeUpReturns, CheckIdentity, CheckHealth, ResolvePointerAgain,
             Continue, Goto, TypeOK, Mutating, files
    <2>3. QED
      BY <1>4, <2>2 DEF OptInChecked
  <1>5. QED
    BY <1>2, <1>3, <1>4

\* Who writes what.
LEMMA Writers ==
    ASSUME TypeOK, NEW p \in Procs, Run(p) \/ Dies(p)
    PROVE  /\ container' # container => ComposeUp(p)
           /\ receipt' # receipt => WriteSuccess(p)
           /\ override' # override => WriteOverride(p)
           /\ status' # status =>
                \/ WriteMutationStarting(p) \/ WriteSuccessStatus(p)
                \/ \E r \in {"HOLD_ORIGIN_PAIR_REQUIRED", "NO_OP_CURRENT",
                             "PRE_MUTATION_FAILURE", "STOP_ERROR"},
                      m \in BOOLEAN, d \in Digests \cup {None} :
                        /\ WriteStatus(alias[p], r, m, d)
                        /\ r = "STOP_ERROR" => pc[p] = "stop"
  <1> USE DEF files
  <1>1. CASE Start(p) \/ Busy(p) \/ Refused(p) \/ Lock(p) \/ Verify(p) \/ Dies(p)
    BY <1>1 DEF Start, Busy, Refused, Lock, Verify, Dies
  <1>2. CASE InspectImageFails(p) \/ RemovalForbidden(p) \/ NeedsDeploy(p) \/ WriteOverride(p)
    BY <1>2 DEF InspectImageFails, RemovalForbidden, NeedsDeploy, WriteOverride
  <1>3. CASE ComposePull(p) \/ ComposeUp(p) \/ ComposeUpReturns(p) \/ CheckIdentity(p)
    BY <1>3 DEF ComposePull, ComposeUp, ComposeUpReturns, CheckIdentity
  <1>4. CASE CheckHealth(p) \/ ResolvePointerAgain(p) \/ CommandFails(p) \/ WriteSuccess(p)
    BY <1>4 DEF CheckHealth, ResolvePointerAgain, CommandFails, WriteSuccess
  <1>5. CASE WriteMutationStarting(p) \/ WriteSuccessStatus(p)
    BY <1>5 DEF WriteMutationStarting, WriteSuccessStatus
  <1>6. CASE ResolvePointer(p)
    BY <1>6 DEF ResolvePointer, TypeOK
  <1>7. CASE NoOpCurrent(p)
    <2>1. DesiredDigest(p) \in Digests \cup {None}
      BY LoadedTarget DEF DesiredDigest, TypeOK
    <2>2. QED
      BY <1>7, <2>1 DEF NoOpCurrent
  <1>8. CASE WriteFailure(p)
    <2>1. desired[p] \in Digests \cup {None}
      BY DEF TypeOK
    <2>2. QED
      BY <1>8, <2>1 DEF WriteFailure
  <1>9. QED
    BY <1>1, <1>2, <1>3, <1>4, <1>5, <1>6, <1>7, <1>8 DEF Run

\* Docker only ever starts the override's image, and that one was accepted.
LEMMA OnlyReviewedImagesRunRun ==
    ASSUME TypeOK, DesiredReviewed, OverrideFrozen, OnlyReviewedImagesRun,
           NEW p \in Procs, Run(p) \/ Dies(p)
    PROVE  OnlyReviewedImagesRun'
  <1> SUFFICES ASSUME NEW t \in Targets, container'[t] # None
               PROVE  container'[t] \in Reviewed[t]
    BY DEF OnlyReviewedImagesRun
  <1>1. CASE container' = container
    BY <1>1 DEF OnlyReviewedImagesRun
  <1>2. CASE ComposeUp(p)
    <2>1. override[alias[p]] \in Reviewed[alias[p]]
      BY <1>2 DEF ComposeUp, Continue, DesiredReviewed, OverrideFrozen, Frozen, Mutating
    <2>2. QED
      BY <1>2, <2>1, ZenonT(60) DEF ComposeUp, OnlyReviewedImagesRun, TypeOK
  <1>3. QED
    BY <1>1, <1>2, Writers

\* SUCCESS is published last and unpublished first.
LEMMA SuccessIsRunningRun ==
    ASSUME TypeOK, LockHeld, MarkerWritten, ContainerVerified, ReceiptWritten,
           SuccessIsRunning, NEW p \in Procs, Run(p) \/ Dies(p)
    PROVE  SuccessIsRunning'
  <1> SUFFICES ASSUME NEW t \in Targets, status'[t] # None, status'[t].result = "SUCCESS"
               PROVE  /\ receipt'[t] # None
                      /\ receipt'[t].digest = status'[t].digest
                      /\ container'[t] \in {receipt'[t].digest, None}
    BY DEF SuccessIsRunning
  <1>1. CASE t # alias[p]
    BY <1>1, Frame DEF SuccessIsRunning
  <1>2. CASE t = alias[p] /\ (ComposeUp(p) \/ WriteSuccess(p))
    <2>1. pc[p] \in Mutating /\ status' = status
      BY <1>2 DEF ComposeUp, WriteSuccess, Continue, Mutating, files
    <2>2. QED
      BY <1>2, <2>1 DEF MarkerWritten
  <1>3. CASE t = alias[p] /\ WriteSuccessStatus(p)
    <2>1. /\ receipt' = receipt /\ container' = container
          /\ status'[t].digest = desired[p]
          /\ pc[p] = "success"
      BY <1>3 DEF WriteSuccessStatus, WriteStatus, TypeOK
    <2>2. QED
      BY <1>3, <2>1 DEF ReceiptWritten, ContainerVerified, Verified
  <1>4. CASE t = alias[p] /\ ~ComposeUp(p) /\ ~WriteSuccess(p) /\ ~WriteSuccessStatus(p)
    <2>1. receipt' = receipt /\ container' = container
      BY <1>4, Writers
    <2>2. CASE status' = status
      BY <2>1, <2>2 DEF SuccessIsRunning
    <2>3. CASE WriteMutationStarting(p)
      BY <1>4, <2>3 DEF WriteMutationStarting, WriteStatus, TypeOK
    <2>4. CASE status' # status /\ ~WriteMutationStarting(p)
      <3>1. PICK r \in {"HOLD_ORIGIN_PAIR_REQUIRED", "NO_OP_CURRENT",
                        "PRE_MUTATION_FAILURE", "STOP_ERROR"},
                 m \in BOOLEAN, d \in Digests \cup {None} : WriteStatus(alias[p], r, m, d)
        BY <1>4, <2>4, Writers
      <3>2. status'[t].result = r
        BY <1>4, <3>1 DEF WriteStatus, TypeOK
      <3>3. QED
        BY <3>1, <3>2
    <2>5. QED
      BY <2>2, <2>3, <2>4
  <1>5. QED
    BY <1>1, <1>2, <1>3, <1>4

\* The publisher, the installers and the containers' own exits break nothing.
LEMMA InvOthers ==
    ASSUME IInv,
           \/ \E t \in Targets : MovePointer(t) \/ ReplaceCompose(t) \/ ContainerExits(t)
           \/ ReplaceRegistry
           \/ UNCHANGED vars
    PROVE  /\ LockHeld' /\ StopUnseen' /\ DesiredReviewed' /\ OverrideFrozen'
           /\ MarkerWritten' /\ ContainerVerified' /\ ReceiptWritten' /\ OptInChecked'
           /\ OnlyReviewedImagesRun' /\ SuccessIsRunning'
  <1>1. /\ UNCHANGED <<status, receipt, override, lock, pc, loaded, alias, desired>>
        /\ container \in [Targets -> Digests \cup {None}]
        /\ \A t \in Targets : container'[t] \in {container[t], None}
    BY DEF IInv, TypeOK, MovePointer, ReplaceCompose, ContainerExits, ReplaceRegistry, vars,
           host, files
  <1>2. LockHeld' /\ StopUnseen' /\ DesiredReviewed' /\ OverrideFrozen'
    BY <1>1 DEF IInv, LockHeld, StopUnseen, BlockedByPostMutationFailure, DesiredReviewed,
                OverrideFrozen
  <1>3. MarkerWritten' /\ ReceiptWritten' /\ OptInChecked'
    BY <1>1 DEF IInv, MarkerWritten, ReceiptWritten, OptInChecked,
                OriginProfileRemovalForbidden, Target
  <1>4. ContainerVerified'
    BY <1>1 DEF IInv, TypeOK, ContainerVerified
  <1>5. OnlyReviewedImagesRun' /\ SuccessIsRunning'
    BY <1>1 DEF IInv, TypeOK, OnlyReviewedImagesRun, SuccessIsRunning
  <1>6. QED
    BY <1>2, <1>3, <1>4, <1>5

LEMMA InvInit == Init => IInv
  <1> SUFFICES ASSUME Init PROVE IInv
    OBVIOUS
  <1>1. TypeOK
    BY TypeInit
  <1>2. \A p \in Procs : pc[p] = "idle"
    BY DEF Init
  <1>3. \A t \in Targets : container[t] = None /\ status[t] = None
    BY DEF Init
  <1>4. QED
    BY <1>1, <1>2, <1>3
       DEF IInv, LockHeld, StopUnseen, DesiredReviewed, OverrideFrozen, MarkerWritten,
           ContainerVerified, ReceiptWritten, OptInChecked, OnlyReviewedImagesRun,
           SuccessIsRunning, Locked, Frozen, Verified, Mutating

LEMMA InvStep == IInv /\ [Next]_vars => IInv'
  <1> SUFFICES ASSUME IInv, [Next]_vars PROVE IInv'
    OBVIOUS
  <1>1. TypeOK'
    BY TypeStep DEF IInv
  <1>2. ASSUME NEW p \in Procs, Run(p) \/ Dies(p) PROVE IInv'
    BY <1>1, <1>2, LockHeldRun, StopUnseenRun, DesiredReviewedRun, OverrideFrozenRun,
       MarkerWrittenRun, ContainerVerifiedRun, ReceiptWrittenRun, OptInCheckedRun,
       OnlyReviewedImagesRunRun, SuccessIsRunningRun DEF IInv
  <1>3. CASE ~\E p \in Procs : Run(p) \/ Dies(p)
    BY <1>1, <1>3, InvOthers DEF Next, IInv
  <1>4. QED
    BY <1>2, <1>3

\* The strengthening holds in every reachable state, whatever faults occur.
THEOREM Invariance == Spec => []IInv
  BY InvInit, InvStep, PTL DEF Spec

\* Type correctness of the reconciler, its files and its environment.
THEOREM TypeCorrect == Spec => []TypeOK
  BY Invariance, PTL DEF IInv

\* StateStore.lock: no two processes are past the lock of one target.
THEOREM Exclusion == Spec => []MutualExclusion
  <1>1. IInv => MutualExclusion
    BY DEF IInv, LockHeld, MutualExclusion
  <1>2. QED
    BY <1>1, Invariance, PTL

\* A container only runs an image whose metadata was accepted for its target.
THEOREM ReviewedOnly == Spec => []OnlyReviewedImagesRun
  BY Invariance, PTL DEF IInv

\* A published SUCCESS names the receipted image, and that one runs unless it exited.
THEOREM SuccessTruthful == Spec => []SuccessIsRunning
  BY Invariance, PTL DEF IInv

-----------------------------------------------------------------------------
\* A process that writes a file, or has Docker recreate the container, is under the
\* lock of that target, which is then not blocked.
LEMMA WritersUnderLock ==
    ASSUME IInv, NEW p \in Procs, Run(p) \/ Dies(p), NEW t \in Targets,
           \/ status'[t] # status[t] \/ receipt'[t] # receipt[t]
           \/ override'[t] # override[t] \/ container'[t] # container[t]
    PROVE  alias[p] = t /\ pc[p] \in Locked /\ ~BlockedByPostMutationFailure(t)
  <1>1. alias[p] = t
    BY Frame DEF IInv
  <1>2. pc[p] \in Locked
    BY Outside DEF IInv
  <1>3. QED
    BY <1>1, <1>2 DEF IInv, StopUnseen

\* SIMPLE_DEPLOY_HOST_V1.md: a stop blocks later automatic attempts.  Whatever the
\* processes had read before, a blocked target is never touched again.
THEOREM StopFinal == Spec => StopIsFinal
  <1>1. IInv /\ [Next]_vars => \A t \in Targets :
            BlockedByPostMutationFailure(t) =>
                /\ status'[t] = status[t]
                /\ receipt'[t] = receipt[t]
                /\ override'[t] = override[t]
                /\ container'[t] \in {container[t], None}
    <2> SUFFICES ASSUME IInv, [Next]_vars, NEW t \in Targets, BlockedByPostMutationFailure(t)
                 PROVE  /\ status'[t] = status[t]
                        /\ receipt'[t] = receipt[t]
                        /\ override'[t] = override[t]
                        /\ container'[t] \in {container[t], None}
      OBVIOUS
    <2>1. CASE \E p \in Procs : Run(p) \/ Dies(p)
      BY <2>1, WritersUnderLock
    <2>2. CASE ~\E p \in Procs : Run(p) \/ Dies(p)
      BY <2>2 DEF Next, MovePointer, ReplaceCompose, ContainerExits, ReplaceRegistry, vars,
                  files, IInv, TypeOK
    <2>3. QED
      BY <2>1, <2>2
  <1>2. QED
    BY <1>1, Invariance, PTL DEF Spec, StopIsFinal

\* The new receipt names the verified image and keeps an opted-in target opted in.
LEMMA ReceiptStep ==
    ASSUME IInv, [Next]_vars, NEW t \in Targets, receipt'[t] # receipt[t]
    PROVE  \E p \in Procs :
             /\ WriteSuccess(p) /\ alias[p] = t
             /\ receipt'[t] = [digest |-> desired[p], profile |-> Target(p).profile]
             /\ desired[p] \in Reviewed[t]
             /\ Target(p).profile \in Profiles \cup {None}
             /\ container[t] \in {desired[p], None}
             /\ receipt[t] # None /\ receipt[t].profile # None => Target(p).profile # None
  <1>1. PICK p \in Procs : Run(p) \/ Dies(p)
    BY DEF Next, MovePointer, ReplaceCompose, ContainerExits, ReplaceRegistry, vars, files
  <1>2. WriteSuccess(p) /\ alias[p] = t
    BY <1>1, Writers, WritersUnderLock DEF IInv
  <1>3. pc[p] = "receipt"
    BY <1>2 DEF WriteSuccess, Continue
  <1>4. receipt'[t] = [digest |-> desired[p], profile |-> Target(p).profile]
    BY <1>2 DEF WriteSuccess, IInv, TypeOK
  <1>5. desired[p] \in Reviewed[t] /\ container[t] \in {desired[p], None}
    BY <1>2, <1>3 DEF IInv, DesiredReviewed, ContainerVerified, Frozen, Verified, Mutating
  <1>6. receipt[t] # None /\ receipt[t].profile # None => Target(p).profile # None
    BY <1>2, <1>3 DEF IInv, OptInChecked, OriginProfileRemovalForbidden, Frozen, Mutating
  <1>7. Target(p).profile \in Profiles \cup {None}
    BY LoadedTarget DEF IInv, TargetSpec
  <1>8. QED
    BY <1>2, <1>4, <1>5, <1>6, <1>7

\* A receipt is only written for the image that runs, wherever the pointer has moved.
THEOREM ReceiptTruthful == Spec => ReceiptNamesWhatRuns
  <1>1. IInv /\ [Next]_vars => \A t \in Targets :
            receipt'[t] # receipt[t] => container[t] \in {receipt'[t].digest, None}
    <2> SUFFICES ASSUME IInv, [Next]_vars, NEW t \in Targets, receipt'[t] # receipt[t]
                 PROVE  container[t] \in {receipt'[t].digest, None}
      OBVIOUS
    <2>1. PICK p \in Procs :
            /\ receipt'[t] = [digest |-> desired[p], profile |-> Target(p).profile]
            /\ container[t] \in {desired[p], None}
      BY ReceiptStep
    <2>2. QED
      BY <2>1
  <1>2. QED
    BY <1>1, Invariance, PTL DEF Spec, ReceiptNamesWhatRuns

\* Opting in is sticky, also for processes that loaded an older registry.
THEOREM OptInSticky == Spec => OptInIsSticky
  <1>1. IInv /\ [Next]_vars => \A t \in Targets :
            receipt[t] # None /\ receipt[t].profile # None =>
                receipt'[t] # None /\ receipt'[t].profile # None
    <2> SUFFICES ASSUME IInv, [Next]_vars, NEW t \in Targets,
                        receipt[t] # None, receipt[t].profile # None, receipt'[t] # receipt[t]
                 PROVE  receipt'[t] # None /\ receipt'[t].profile # None
      OBVIOUS
    <2>1. PICK p \in Procs :
            /\ receipt'[t] = [digest |-> desired[p], profile |-> Target(p).profile]
            /\ Target(p).profile # None
      BY ReceiptStep
    <2>2. receipt' \in [Targets -> Receipt \cup {None}]
      BY TypeStep DEF IInv, TypeOK
    <2>3. [digest |-> desired[p], profile |-> Target(p).profile] # None
      <3>1. PICK q \in Procs :
              /\ receipt'[t] = [digest |-> desired[q], profile |-> Target(q).profile]
              /\ desired[q] \in Reviewed[t]
              /\ Target(q).profile \in Profiles \cup {None}
        BY ReceiptStep
      <3>2. desired[q] \in Digests
        BY <3>1, ConstantsAssumption
      <3>3. [digest |-> desired[q], profile |-> Target(q).profile] \in Receipt
        BY <3>1, <3>2 DEF Receipt
      <3>4. QED
        BY <2>1, <3>1, <3>3, ConstantsAssumption
    <2>4. QED
      BY <2>1, <2>3
  <1>2. QED
    BY <1>1, Invariance, PTL DEF Spec, OptInIsSticky

-----------------------------------------------------------------------------
\* The reconciler implements TargetLedger.
LEMMA LedgerInit == Init => Ledger!Init
  <1> SUFFICES ASSUME Init PROVE Ledger!Init
    OBVIOUS
  <1>1. \A t \in Targets : Mode(t) = "open"
    BY DEF Init, Mode, BlockedByPostMutationFailure, Mutating
  <1>2. QED
    BY <1>1 DEF Init, Ledger!Init

\* A process outside the mutation leaves every mode alone, unless it begins one.
LEMMA ModeElsewhere ==
    ASSUME IInv, NEW p \in Procs, Run(p) \/ Dies(p), NEW t \in Targets,
           t # alias[p] \/ pc[p] \notin Locked
    PROVE  Mode(t)' = Mode(t)
  <1>1. status'[t] = status[t]
    BY Frame, Outside DEF IInv
  <1>2. ASSUME NEW q \in Procs
        PROVE  (alias'[q] = t /\ pc'[q] \in Mutating) <=> (alias[q] = t /\ pc[q] \in Mutating)
    <2>1. CASE q # p
      BY <2>1, Frame DEF IInv
    <2>2. CASE q = p /\ pc[p] \notin Locked
      <3>1. pc'[p] \notin Mutating
        BY <2>2, StepUnderLock DEF IInv, Lock, Goto, TypeOK, Locked, Mutating
      <3>2. QED
        BY <2>2, <3>1 DEF Locked
    <2>3. CASE q = p /\ t # alias[p] /\ pc[p] \in Locked
      <3>1. pc'[p] \in Mutating => alias'[p] = alias[p]
        BY <2>3, StepUnderLock DEF IInv, Lock, Locked
      <3>2. QED
        BY <2>3, <3>1
    <2>4. QED
      BY <2>1, <2>2, <2>3
  <1>3. QED
    BY <1>1, <1>2 DEF Mode, BlockedByPostMutationFailure

\* While p is under the lock of t, it alone decides t's mode.
LEMMA ModeOfHolder ==
    ASSUME IInv, NEW p \in Procs, pc[p] \in Locked
    PROVE  Mode(alias[p]) = IF pc[p] \in Mutating THEN "mutating" ELSE "open"
  <1>1. ~BlockedByPostMutationFailure(alias[p])
    BY DEF IInv, StopUnseen
  <1>2. \A q \in Procs : alias[q] = alias[p] /\ pc[q] \in Mutating => q = p
    BY DEF IInv, LockHeld, Locked
  <1>3. QED
    BY <1>1, <1>2 DEF Mode

LEMMA ModeAfter ==
    ASSUME IInv, NEW p \in Procs, Run(p) \/ Dies(p), pc[p] \in Locked,
           NEW t \in Targets, t = alias[p]
    PROVE  /\ Mode(t)' = IF BlockedByPostMutationFailure(t)' THEN "blocked"
                         ELSE IF pc'[p] \in Mutating THEN "mutating" ELSE "open"
           /\ BlockedByPostMutationFailure(t)' => pc[p] \in Mutating /\ pc'[p] \notin Mutating
           /\ pc'[p] \in Mutating => alias'[p] = t
  <1>1. \A q \in Procs \ {p} : ~(alias'[q] = t /\ pc'[q] \in Mutating)
    <2> SUFFICES ASSUME NEW q \in Procs \ {p}, alias[q] = t, pc[q] \in Mutating PROVE FALSE
      BY Frame DEF IInv
    <2>1. lock[t] = p /\ lock[t] = q
      BY DEF IInv, LockHeld, Locked
    <2>2. QED
      BY <2>1
  <1>2. pc'[p] \in Mutating => alias'[p] = t
    BY StepUnderLock DEF IInv, Lock, Locked
  <1>3. Mode(t)' = IF BlockedByPostMutationFailure(t)' THEN "blocked"
                   ELSE IF pc'[p] \in Mutating THEN "mutating" ELSE "open"
    BY <1>1, <1>2 DEF Mode
  <1>4. ASSUME BlockedByPostMutationFailure(t)'
        PROVE  pc[p] \in Mutating /\ pc'[p] \notin Mutating
    <2>1. IInv'
      BY InvStep DEF Next
    <2>2. pc'[p] \notin Mutating
      BY <1>2, <1>4, <2>1 DEF IInv, StopUnseen, Locked
    <2>3. ~BlockedByPostMutationFailure(t)
      BY DEF IInv, StopUnseen
    <2>4. status' # status
      BY <1>4, <2>3 DEF BlockedByPostMutationFailure
    <2>5. ~WriteMutationStarting(p) /\ ~WriteSuccessStatus(p)
      BY <1>4 DEF WriteMutationStarting, WriteSuccessStatus, WriteStatus,
                  BlockedByPostMutationFailure, IInv, TypeOK
    <2>6. PICK r \in {"HOLD_ORIGIN_PAIR_REQUIRED", "NO_OP_CURRENT",
                      "PRE_MUTATION_FAILURE", "STOP_ERROR"},
               m \in BOOLEAN, d \in Digests \cup {None} :
                 WriteStatus(t, r, m, d) /\ (r = "STOP_ERROR" => pc[p] = "stop")
      BY <2>4, <2>5, Writers DEF IInv
    <2>7. status'[t].result = r
      BY <2>6 DEF WriteStatus, IInv, TypeOK
    <2>8. pc[p] = "stop"
      BY <1>4, <2>6, <2>7 DEF BlockedByPostMutationFailure
    <2>9. QED
      BY <2>2, <2>8 DEF Mutating
  <1>5. QED
    BY <1>2, <1>3, <1>4

\* A step under the lock of t is one step of the ledger at t, or none.
LEMMA LedgerHolder ==
    ASSUME IInv, NEW p \in Procs, Run(p) \/ Dies(p), pc[p] \in Locked
    PROVE  [Ledger!Next]_(Ledger!vars)
  <1> DEFINE t == alias[p]
             mode == [x \in Targets |-> Mode(x)]
  <1>0. t \in Targets
    BY DEF IInv, TypeOK
  <1>1. PICK u \in Targets : u = t
    BY <1>0
  <1>2. mode' = [mode EXCEPT ![u] = Mode(u)']
    BY <1>1, ModeElsewhere
  <1>3. Mode(u) = IF pc[p] \in Mutating THEN "mutating" ELSE "open"
    BY <1>1, ModeOfHolder
  <1>4. CASE ComposeUp(p)
    <2>1. pc[p] = "up" /\ pc'[p] = "wait" /\ receipt' = receipt
      BY <1>4 DEF ComposeUp, Continue, Goto, files, IInv, TypeOK
    <2>2. Mode(u) = "mutating" /\ Mode(u)' = "mutating"
      BY <1>1, <1>3, <2>1, ModeAfter DEF Mutating
    <2>3. mode' = mode
      BY <1>2, <2>2
    <2>4. override[u] \in Reviewed[u]
      BY <1>1, <2>1 DEF IInv, DesiredReviewed, OverrideFrozen, Frozen, Mutating
    <2>5. \/ container' = [container EXCEPT ![u] = override[u]]
          \/ container' = [container EXCEPT ![u] = None]
      BY <1>1, <1>4 DEF ComposeUp
    <2>6. Ledger!Recreate(u) \/ Ledger!Exit(u)
      BY <2>1, <2>2, <2>3, <2>4, <2>5 DEF Ledger!Recreate, Ledger!Exit
    <2>7. QED
      BY <2>6 DEF Ledger!Next
  <1>5. CASE WriteSuccess(p)
    <2>1. pc[p] = "receipt" /\ pc'[p] = "success" /\ container' = container
      BY <1>5 DEF WriteSuccess, Continue, Goto, IInv, TypeOK
    <2>2. Mode(u) = "mutating" /\ Mode(u)' = "mutating"
      BY <1>1, <1>3, <2>1, ModeAfter DEF Mutating
    <2>3. mode' = mode
      BY <1>2, <2>2
    <2>4. receipt' = [receipt EXCEPT ![u] =
                        [digest |-> desired[p], profile |-> Target(p).profile]]
      BY <1>1, <1>5 DEF WriteSuccess
    <2>5. CASE receipt'[u] = receipt[u]
      BY <2>1, <2>3, <2>4, <2>5 DEF Ledger!vars, IInv, TypeOK
    <2>6. CASE receipt'[u] # receipt[u]
      <3>1. PICK q \in Procs :
              /\ WriteSuccess(q) /\ alias[q] = u
              /\ receipt'[u] = [digest |-> desired[q], profile |-> Target(q).profile]
              /\ desired[q] \in Reviewed[u]
              /\ Target(q).profile \in Profiles \cup {None}
              /\ container[u] \in {desired[q], None}
              /\ receipt[u] # None /\ receipt[u].profile # None => Target(q).profile # None
        BY <2>6, ReceiptStep DEF Next
      <3>2. receipt' = [receipt EXCEPT ![u] =
                          [digest |-> desired[q], profile |-> Target(q).profile]]
        BY <3>1 DEF WriteSuccess
      <3>3. Ledger!Record(u)
        BY <2>1, <2>2, <2>3, <3>1, <3>2 DEF Ledger!Record
      <3>4. QED
        BY <3>3 DEF Ledger!Next
    <2>7. QED
      BY <2>5, <2>6
  <1>6. CASE ~ComposeUp(p) /\ ~WriteSuccess(p)
    <2>1. container' = container /\ receipt' = receipt
      BY <1>6, Writers DEF IInv
    <2>2. CASE Mode(u)' = Mode(u)
      BY <1>2, <2>1, <2>2 DEF Ledger!vars
    <2>3. CASE Mode(u) = "open" /\ Mode(u)' # "open"
      <3>1. Mode(u)' = "mutating"
        BY <1>1, <1>3, <2>3, ModeAfter
      <3>2. Ledger!Begin(u)
        BY <1>2, <2>1, <2>3, <3>1 DEF Ledger!Begin
      <3>3. QED
        BY <3>2 DEF Ledger!Next
    <2>4. CASE Mode(u) = "mutating" /\ Mode(u)' # "mutating"
      <3>1. Mode(u)' \in {"open", "blocked"}
        BY <1>1, <2>4, ModeAfter
      <3>2. Ledger!End(u) \/ Ledger!Stop(u)
        BY <1>2, <2>1, <2>4, <3>1 DEF Ledger!End, Ledger!Stop
      <3>3. QED
        BY <3>2 DEF Ledger!Next
    <2>5. QED
      BY <1>3, <2>2, <2>3, <2>4
  <1>7. QED
    BY <1>4, <1>5, <1>6

LEMMA LedgerStep == IInv /\ [Next]_vars => [Ledger!Next]_(Ledger!vars)
  <1> SUFFICES ASSUME IInv, [Next]_vars PROVE [Ledger!Next]_(Ledger!vars)
    OBVIOUS
  <1>1. ASSUME NEW p \in Procs, Run(p) \/ Dies(p), pc[p] \notin Locked
        PROVE  UNCHANGED Ledger!vars
    <2>1. \A t \in Targets : Mode(t)' = Mode(t)
      BY <1>1, ModeElsewhere
    <2>2. container' = container /\ receipt' = receipt
      BY <1>1, Outside DEF IInv
    <2>3. QED
      BY <2>1, <2>2 DEF Ledger!vars
  <1>2. ASSUME NEW p \in Procs, Run(p) \/ Dies(p), pc[p] \in Locked
        PROVE  [Ledger!Next]_(Ledger!vars)
    BY <1>2, LedgerHolder
  <1>3. ASSUME UNCHANGED <<status, receipt, pc, alias>>
        PROVE  /\ [t \in Targets |-> Mode(t)]' = [t \in Targets |-> Mode(t)]
               /\ receipt' = receipt
    BY <1>3 DEF Mode, BlockedByPostMutationFailure
  <1>4. ASSUME NEW t \in Targets, ContainerExits(t)
        PROVE  Ledger!Next
    <2>1. Ledger!Exit(t)
      BY <1>3, <1>4 DEF ContainerExits, files, Ledger!Exit
    <2>2. QED
      BY <2>1 DEF Ledger!Next
  <1>5. CASE \/ \E t \in Targets : MovePointer(t) \/ ReplaceCompose(t)
             \/ ReplaceRegistry
             \/ UNCHANGED vars
    BY <1>3, <1>5 DEF MovePointer, ReplaceCompose, ReplaceRegistry, vars, files, Ledger!vars
  <1>6. QED
    BY <1>1, <1>2, <1>4, <1>5 DEF Next

\* The reconciler, with its processes, races and faults, is an implementation of the
\* ledger: attempts on a target never overlap, only an attempt changes what runs, the
\* record is truthful and a stop is final.
THEOREM Refinement == Spec => ImplementsLedger
  BY LedgerInit, LedgerStep, Invariance, PTL DEF Spec, ImplementsLedger, Ledger!Spec

-----------------------------------------------------------------------------
\* The places from which a process still owes a record of what it did to the
\* container: after compose up, before the receipt or the stop is written.
Owing == {"wait", "identity", "health", "pointer_after", "receipt", "stop"}

\* What t runs is what its receipt names, or nothing runs.
Settled(t) ==
    container[t] # None => receipt[t] # None /\ receipt[t].digest = container[t]

\* An image that no receipt names is accounted for: by the stop on record, or by the
\* process that put it there and has not finished.
Accounted ==
    \A t \in Targets :
        \/ Settled(t)
        \/ BlockedByPostMutationFailure(t)
        \/ \E p \in Procs : alias[p] = t /\ pc[p] \in Owing

\* A death anywhere but where a record is owed.
DiesOwingNothing(p) == Dies(p) /\ pc[p] \notin Owing

LEMMA AccountedInit == Init => Accounted
  BY DEF Init, Accounted, Settled

\* The holder of t's lock is the only process that can owe a record for t.
LEMMA OneOwes ==
    ASSUME IInv, NEW p \in Procs, pc[p] \in Locked,
           NEW q \in Procs, alias[q] = alias[p], pc[q] \in Owing
    PROVE  q = p
  <1>1. lock[alias[p]] = p /\ lock[alias[q]] = q
    BY DEF IInv, LockHeld, Owing, Locked, Mutating
  <1>2. QED
    BY <1>1

\* A step of p changes nothing that accounts for the other targets, nor for its own
\* while it is not under the lock.
LEMMA AccountedElsewhere ==
    ASSUME IInv, Accounted, NEW p \in Procs, Run(p) \/ DiesOwingNothing(p),
           NEW t \in Targets, t # alias[p] \/ pc[p] \notin Locked, ~Settled(t)'
    PROVE  \/ BlockedByPostMutationFailure(t)'
           \/ \E q \in Procs : alias'[q] = t /\ pc'[q] \in Owing
  <1>1. /\ status'[t] = status[t] /\ receipt'[t] = receipt[t]
        /\ container'[t] = container[t]
    BY Frame, Outside DEF IInv, DiesOwingNothing
  <1>2. ~Settled(t)
    BY <1>1 DEF Settled
  <1>3. CASE BlockedByPostMutationFailure(t)
    BY <1>1, <1>3 DEF BlockedByPostMutationFailure
  <1>4. ASSUME NEW q \in Procs, alias[q] = t, pc[q] \in Owing
        PROVE  alias'[q] = t /\ pc'[q] \in Owing
    <2>1. q # p
      BY <1>4 DEF Owing, Locked, Mutating
    <2>2. QED
      BY <1>4, <2>1, Frame DEF IInv, DiesOwingNothing
  <1>5. QED
    BY <1>2, <1>3, <1>4 DEF Accounted

\* Under the lock of t, p accounts for t: by the place it goes on to, or by the stop
\* it writes when it leaves.
LEMMA AccountedByHolder ==
    ASSUME IInv, Accounted, NEW p \in Procs, Run(p), pc[p] \in Locked,
           NEW t \in Targets, t = alias[p], ~Settled(t)'
    PROVE  \/ BlockedByPostMutationFailure(t)'
           \/ alias'[p] = t /\ pc'[p] \in Owing
  <1> USE DEF Goto
  <1>0. TypeOK
    BY DEF IInv
  <1>1. CASE ComposeUp(p)
    BY <1>0, <1>1 DEF ComposeUp, Continue, Owing, TypeOK
  <1>2. CASE WriteSuccess(p)
    <2>1. pc[p] = "receipt" /\ container' = container
      BY <1>2 DEF WriteSuccess, Continue
    <2>2. container[t] \in {desired[p], None} /\ desired[p] \in Digests
      BY <2>1, ConstantsAssumption
         DEF IInv, ContainerVerified, DesiredReviewed, Verified, Frozen, Mutating
    <2>3. receipt'[t] = [digest |-> desired[p], profile |-> Target(p).profile]
      BY <1>0, <1>2 DEF WriteSuccess, TypeOK
    <2>4. Target(p).profile \in Profiles \cup {None}
      BY <1>0, LoadedTarget DEF TargetSpec
    <2>5. receipt'[t] # None
      BY <2>2, <2>3, <2>4, ConstantsAssumption DEF Receipt
    <2>6. receipt'[t].digest = desired[p]
      BY <2>3
    <2>7. Settled(t)'
      BY <2>1, <2>2, <2>5, <2>6 DEF Settled
    <2>8. QED
      BY <2>7
  <1>3. CASE ~ComposeUp(p) /\ ~WriteSuccess(p)
    <2>1. container' = container /\ receipt' = receipt
      BY <1>0, <1>3, Writers
    <2>2. ~Settled(t) /\ ~BlockedByPostMutationFailure(t)
      BY <2>1 DEF Settled, IInv, StopUnseen
    <2>3. pc[p] \in Owing
      BY <2>2, OneOwes DEF Accounted
    <2>4. CASE pc'[p] \in Locked
      BY <1>0, <1>3, <2>3, <2>4, StepUnderLock
         DEF Lock, Verify, ResolvePointer, InspectImageFails, RemovalForbidden, NeedsDeploy,
             WriteOverride, WriteMutationStarting, ComposePull, ComposeUpReturns,
             CheckIdentity, CheckHealth, ResolvePointerAgain, CommandFails, Continue, Owing,
             TypeOK
    <2>5. CASE pc'[p] \notin Locked
      <3>1. WriteFailure(p)
        BY <1>0, <1>3, <2>3, <2>5
           DEF Run, Start, Busy, Refused, Lock, Verify, ResolvePointer, InspectImageFails,
               RemovalForbidden, NoOpCurrent, NeedsDeploy, WriteOverride,
               WriteMutationStarting, ComposePull, ComposeUpReturns, CheckIdentity,
               CheckHealth, ResolvePointerAgain, WriteSuccessStatus, CommandFails, Continue,
               Owing, Locked, Mutating, TypeOK
      <3>2. WriteStatus(t, "STOP_ERROR", TRUE, desired[p])
        BY <2>3, <3>1 DEF WriteFailure, Owing
      <3>3. status'[t] = [result |-> "STOP_ERROR", mutation_started |-> TRUE,
                          digest |-> desired[p]]
        BY <1>0, <3>2 DEF WriteStatus, TypeOK
      <3>4. status'[t] # None
        BY <1>0, <3>3, StatusFileExists DEF TypeOK, Results
      <3>5. QED
        BY <3>3, <3>4 DEF BlockedByPostMutationFailure
    <2>6. QED
      BY <2>4, <2>5
  <1>4. QED
    BY <1>1, <1>2, <1>3

\* Only a death where a record is owed leaves an image unaccounted for.
LEMMA AccountedStep ==
    ASSUME IInv, Accounted, [Next]_vars,
           [\A p \in Procs : Dies(p) => pc[p] \notin Owing]_vars
    PROVE  Accounted'
  <1>1. ASSUME NEW p \in Procs, Run(p) \/ DiesOwingNothing(p) PROVE Accounted'
    <2> SUFFICES ASSUME NEW t \in Targets, ~Settled(t)'
                 PROVE  \/ BlockedByPostMutationFailure(t)'
                        \/ \E q \in Procs : alias'[q] = t /\ pc'[q] \in Owing
      BY DEF Accounted
    <2>1. CASE t # alias[p] \/ pc[p] \notin Locked
      BY <1>1, <2>1, AccountedElsewhere
    <2>2. CASE t = alias[p] /\ pc[p] \in Locked /\ Run(p)
      BY <2>2, AccountedByHolder
    <2>3. CASE t = alias[p] /\ pc[p] \in Locked /\ DiesOwingNothing(p)
      <3>1. status' = status /\ receipt' = receipt /\ container' = container
        BY <2>3 DEF DiesOwingNothing, Dies, files
      <3>2. ~Settled(t) /\ ~BlockedByPostMutationFailure(t)
        BY <2>3, <3>1 DEF Settled, IInv, StopUnseen
      <3>3. pc[p] \in Owing
        BY <2>3, <3>2, OneOwes DEF Accounted
      <3>4. QED
        BY <2>3, <3>3 DEF DiesOwingNothing
    <2>4. QED
      BY <1>1, <2>1, <2>2, <2>3
  <1>2. CASE \/ \E t \in Targets : MovePointer(t) \/ ReplaceCompose(t) \/ ContainerExits(t)
             \/ ReplaceRegistry
             \/ UNCHANGED vars
    <2>1. /\ UNCHANGED <<status, receipt, pc, alias>>
          /\ \A t \in Targets : container'[t] \in {container[t], None}
      BY <1>2 DEF IInv, TypeOK, MovePointer, ReplaceCompose, ContainerExits, ReplaceRegistry,
                  vars, host, files
    <2>2. QED
      BY <2>1 DEF Accounted, Settled, BlockedByPostMutationFailure
  <1>3. ASSUME NEW p \in Procs, Dies(p), ~(UNCHANGED vars) PROVE DiesOwingNothing(p)
    BY <1>3 DEF DiesOwingNothing
  <1>4. QED
    BY <1>1, <1>2, <1>3 DEF Next

\* SIMPLE_DEPLOY_HOST_V1.md promises that a change without a recorded success blocks
\* the target. That holds as long as no process dies between compose up and the
\* record it owes (Owing); deaths anywhere else do no harm. The run `unrecorded` shows
\* that deaths there do.
THEOREM UnrecordedBlocks ==
    Spec /\ [][\A p \in Procs : Dies(p) => pc[p] \notin Owing]_vars
        => []UnrecordedMutationBlocks
  <1>1. IInv /\ Accounted => UnrecordedMutationBlocks
    <2> SUFFICES ASSUME IInv, Accounted, NEW t \in Targets, lock[t] = None, ~Settled(t)
                 PROVE  BlockedByPostMutationFailure(t)
      BY DEF UnrecordedMutationBlocks, Settled
    <2>1. ~\E p \in Procs : alias[p] = t /\ pc[p] \in Owing
      <3> SUFFICES ASSUME NEW p \in Procs, alias[p] = t, pc[p] \in Owing PROVE FALSE
        OBVIOUS
      <3>1. lock[t] = p
        BY DEF IInv, LockHeld, Owing, Locked, Mutating
      <3>2. QED
        BY <3>1, ConstantsAssumption
    <2>2. QED
      BY <2>1 DEF Accounted
  <1>2. IInv /\ Accounted /\ [Next]_vars
        /\ [\A p \in Procs : Dies(p) => pc[p] \notin Owing]_vars => Accounted'
    BY AccountedStep
  <1>3. QED
    BY <1>1, <1>2, AccountedInit, Invariance, PTL DEF Spec

\* In particular it holds where nobody dies, as in the run `live`.
COROLLARY UnrecordedBlocksWithoutFaults ==
    ASSUME Faults = {} PROVE Spec => []UnrecordedMutationBlocks
  <1>1. \A p \in Procs : ~Dies(p)
    BY DEF Dies
  <1>2. [Next]_vars => [\A p \in Procs : Dies(p) => pc[p] \notin Owing]_vars
    BY <1>1
  <1>3. QED
    BY <1>2, UnrecordedBlocks, PTL DEF Spec
=============================================================================
