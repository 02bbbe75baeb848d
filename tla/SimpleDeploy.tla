---------------------------- MODULE SimpleDeploy ----------------------------
(***************************************************************************)
(* The SIMPLE-DEPLOY v1 pull reconciler                                    *)
(* (ops/lib/deploy_executor/simple_deploy_v1.py).                          *)
(*                                                                         *)
(* Reconciler processes are started by systemd timers: one runs --all and  *)
(* walks the registry, others run --target.  Per target they share a lock  *)
(* (flock), three files (status, success receipt, Compose override), the   *)
(* container Docker runs and the mutable :production pointer, which the    *)
(* publisher moves at any time.  Every file is replaced atomically         *)
(* (_atomic_bytes), so a process that dies leaves each file old or new.    *)
(***************************************************************************)
EXTENDS Sequences

CONSTANTS
    Targets,       \* target aliases
    Procs,         \* reconciler processes (systemd units)
    Digests,       \* immutable image digests
    ComposeFiles,  \* contents (SHA-256) a Compose file can have
    Aliases,       \* Aliases[p]: the targets p walks, in order
    Reviewed,      \* Reviewed[t]: the digests whose image metadata passes for t
    Registries,    \* contents the installed registry file can have
    Faults,        \* subset of {"crash", "write_error"}
    None           \* nothing: no file, no lock owner, no container, no profile

Profiles == {o \in [base : Digests, derivative : Digests] : o.base # o.derivative}

TargetSpec ==
    [public : BOOLEAN, compose : ComposeFiles, profile : Profiles \cup {None}]

TargetRegistry == [enabled : BOOLEAN, target : [Targets -> TargetSpec]]

Results == {"HOLD_ORIGIN_PAIR_REQUIRED", "NO_OP_CURRENT", "MUTATION_STARTING",
            "SUCCESS", "STOP_ERROR", "PRE_MUTATION_FAILURE"}

Status  == [result : Results, mutation_started : BOOLEAN, digest : Digests \cup {None}]

Receipt == [digest : Digests, profile : Profiles \cup {None}]

ASSUME ConstantsAssumption ==
    /\ Aliases \in [Procs -> Seq(Targets) \ {<<>>}]
    /\ Reviewed \in [Targets -> SUBSET Digests]
    /\ Registries \subseteq TargetRegistry
    /\ Faults \subseteq {"crash", "write_error"}
    /\ None \notin Procs \cup Digests \cup Profiles
    /\ None \notin Status \cup Receipt

VARIABLES
    registry,   \* the installed targets.json
    compose,    \* compose[t]: content of the installed Compose file
    pointer,    \* pointer[t]: what <image>:production resolves to
    container,  \* container[t]: the image the service's container runs
    status,     \* status[t]: status/<alias>.json
    receipt,    \* receipt[t]: receipts/<receipt_name>
    override,   \* override[t]: the image in overrides/<alias>.yaml
    lock,       \* lock[t]: the process that holds locks/<alias>.lock
    pc,         \* pc[p]: where p is in main, reconcile and _reconcile_locked
    loaded,     \* loaded[p]: the registry p read when it started
    alias,      \* alias[p]: the loop variable of main
    rest,       \* rest[p]: the aliases main has still to visit
    before,     \* before[p]: pointer_before
    desired     \* desired[p]: desired_digest

host  == <<registry, compose, pointer>>
files == <<status, receipt, override>>
vars  == <<host, container, files, lock, pc, loaded, alias, rest, before, desired>>

-----------------------------------------------------------------------------
\* The places of _reconcile_locked after `mutation_started = True`.
Mutating == {"pull", "up", "wait", "identity", "health", "pointer_after",
             "receipt", "success", "stop"}

\* The places where p holds the target's lock.
Locked == {"verify", "resolve", "inspect", "override", "starting", "refuse"} \cup Mutating

\* The places whose next effect is a file write, where an OSError escapes.
Writing == {"resolve", "inspect", "override", "starting", "receipt", "success",
            "refuse", "stop"}

TypeOK ==
    /\ registry \in Registries
    /\ compose \in [Targets -> ComposeFiles]
    /\ pointer \in [Targets -> Digests]
    /\ container \in [Targets -> Digests \cup {None}]
    /\ status \in [Targets -> Status \cup {None}]
    /\ receipt \in [Targets -> Receipt \cup {None}]
    /\ override \in [Targets -> Digests \cup {None}]
    /\ lock \in [Targets -> Procs \cup {None}]
    /\ pc \in [Procs -> {"idle", "loop"} \cup Locked]
    /\ loaded \in [Procs -> Registries]
    /\ alias \in [Procs -> Targets]
    /\ rest \in [Procs -> Seq(Targets)]
    /\ before \in [Procs -> Digests \cup {None}]
    /\ desired \in [Procs -> Digests \cup {None}]

Init ==
    /\ registry \in Registries
    /\ compose = [t \in Targets |-> registry.target[t].compose]
    /\ pointer \in [Targets -> Digests]
    /\ container = [t \in Targets |-> None]
    /\ status = [t \in Targets |-> None]
    /\ receipt = [t \in Targets |-> None]
    /\ override = [t \in Targets |-> None]
    /\ lock = [t \in Targets |-> None]
    /\ pc = [p \in Procs |-> "idle"]
    /\ loaded = [p \in Procs |-> registry]
    /\ alias = [p \in Procs |-> Head(Aliases[p])]
    /\ rest = [p \in Procs |-> <<>>]
    /\ before = [p \in Procs |-> None]
    /\ desired = [p \in Procs |-> None]

-----------------------------------------------------------------------------
(* Helpers *)

Target(p) == loaded[p].target[alias[p]]

BlockedByPostMutationFailure(t) ==
    /\ status[t] # None
    /\ status[t].result = "STOP_ERROR"
    /\ status[t].mutation_started

Goto(p, label) == pc' = [pc EXCEPT ![p] = label]

WriteStatus(t, result, mut, d) ==
    status' = [status EXCEPT ![t] =
                  [result |-> result, mutation_started |-> mut, digest |-> d]]

\* main: the next alias of the loop, or exit.
NextAlias(p) ==
    IF rest[p] = <<>>
    THEN /\ Goto(p, "idle")
         /\ UNCHANGED <<alias, rest>>
    ELSE /\ Goto(p, "loop")
         /\ alias' = [alias EXCEPT ![p] = Head(rest[p])]
         /\ rest' = [rest EXCEPT ![p] = Tail(rest[p])]

\* reconcile returns or raises: the lock is released and its locals are gone.
Leave(p) ==
    /\ lock' = [lock EXCEPT ![alias[p]] = None]
    /\ before' = [before EXCEPT ![p] = None]
    /\ desired' = [desired EXCEPT ![p] = None]
    /\ NextAlias(p)
    /\ UNCHANGED loaded

\* A step inside _reconcile_locked that only moves on.
Continue(p, from, to) ==
    /\ pc[p] = from
    /\ Goto(p, to)
    /\ UNCHANGED <<host, lock, loaded, alias, rest>>

-----------------------------------------------------------------------------
(* One reconciler process *)

\* The timer fires: main loads the registry once, then loops over its aliases.
Start(p) ==
    /\ pc[p] = "idle"
    /\ registry.enabled
    /\ Goto(p, "loop")
    /\ loaded' = [loaded EXCEPT ![p] = registry]
    /\ alias' = [alias EXCEPT ![p] = Head(Aliases[p])]
    /\ rest' = [rest EXCEPT ![p] = Tail(Aliases[p])]
    /\ UNCHANGED <<host, container, files, lock, before, desired>>

\* reconcile, NO_OP_BUSY: the non-blocking lock is taken.
Busy(p) ==
    /\ pc[p] = "loop"
    /\ lock[alias[p]] # None
    /\ NextAlias(p)
    /\ UNCHANGED <<host, container, files, lock, loaded, before, desired>>

\* reconcile, BLOCKED_STOP_ERROR: the lock is taken, the status read, the lock
\* released.
Refused(p) ==
    /\ pc[p] = "loop"
    /\ lock[alias[p]] = None
    /\ BlockedByPostMutationFailure(alias[p])
    /\ NextAlias(p)
    /\ UNCHANGED <<host, container, files, lock, loaded, before, desired>>

\* A variant: the blocked check is made, and passes, before a stop is recorded.
LockWithoutBlockedCheck(p) ==
    /\ pc[p] = "loop"
    /\ lock[alias[p]] = None
    /\ lock' = [lock EXCEPT ![alias[p]] = p]
    /\ Goto(p, "verify")
    /\ UNCHANGED <<host, container, files, loaded, alias, rest, before, desired>>

\* A variant: the lock file is opened but never locked exclusively.
LockShared(p) ==
    /\ pc[p] = "loop"
    /\ ~BlockedByPostMutationFailure(alias[p])
    /\ lock' = [lock EXCEPT ![alias[p]] = p]
    /\ Goto(p, "verify")
    /\ UNCHANGED <<host, container, files, loaded, alias, rest, before, desired>>

Lock(p) ==
    /\ pc[p] = "loop"
    /\ lock[alias[p]] = None
    /\ ~BlockedByPostMutationFailure(alias[p])
    /\ lock' = [lock EXCEPT ![alias[p]] = p]
    /\ Goto(p, "verify")
    /\ UNCHANGED <<host, container, files, loaded, alias, rest, before, desired>>

\* Pull profile and pinned Compose file.
Verify(p) ==
    LET t == alias[p]
        accepted == Target(p).public /\ compose[t] = Target(p).compose
    IN /\ Continue(p, "verify", IF accepted THEN "resolve" ELSE "refuse")
       /\ UNCHANGED <<container, files, before, desired>>

\* An opted-in target whose pointer left the reviewed base is held.
ResolvePointer(p) ==
    LET t == alias[p]
        profile == Target(p).profile
    IN /\ pc[p] = "resolve"
       /\ IF profile # None /\ pointer[t] # profile.base
          THEN /\ WriteStatus(t, "HOLD_ORIGIN_PAIR_REQUIRED", FALSE, pointer[t])
               /\ Leave(p)
          ELSE /\ before' = [before EXCEPT ![p] = pointer[t]]
               /\ Goto(p, "inspect")
               /\ UNCHANGED <<status, lock, loaded, alias, rest, desired>>
       /\ UNCHANGED <<host, container, receipt, override>>

DesiredDigest(p) ==
    IF Target(p).profile = None THEN before[p] ELSE Target(p).profile.derivative

\* The base image's metadata is read first, then the derivative's; each read can
\* also fail.  desired_digest is set between the two.
InspectImageFails(p) ==
    /\ Continue(p, "inspect", "refuse")
    /\ desired' \in {[desired EXCEPT ![p] = d] :
                       d \in {None} \cup (IF Target(p).profile = None THEN {}
                                          ELSE {Target(p).profile.derivative})}
    /\ UNCHANGED <<container, files, before>>

\* A variant: the image's labels are not compared with the target.
AnyImagePasses(p) == TRUE

InspectImagePasses(p) ==
    {before[p], DesiredDigest(p)} \subseteq Reviewed[alias[p]]

\* A variant: an opted-in receipt does not stop a registry without a profile.
NeverForbidden(p) == FALSE

OriginProfileRemovalForbidden(p) ==
    LET prior == receipt[alias[p]]
    IN Target(p).profile = None /\ prior # None /\ prior.profile # None

\* A variant: a receipt for any digest makes the target current.
CurrentWhateverDigest(p) == receipt[alias[p]] # None

Current(p) ==
    LET prior == receipt[alias[p]]
        profile == Target(p).profile
    IN /\ prior # None
       /\ prior.digest = DesiredDigest(p)
       /\ profile = None \/ prior.profile = profile

RemovalForbidden(p) ==
    /\ Continue(p, "inspect", "refuse")
    /\ InspectImagePasses(p)
    /\ OriginProfileRemovalForbidden(p)
    /\ desired' = [desired EXCEPT ![p] = DesiredDigest(p)]
    /\ UNCHANGED <<container, files, before>>

NoOpCurrent(p) ==
    /\ pc[p] = "inspect"
    /\ InspectImagePasses(p)
    /\ ~OriginProfileRemovalForbidden(p)
    /\ Current(p)
    /\ WriteStatus(alias[p], "NO_OP_CURRENT", FALSE, DesiredDigest(p))
    /\ Leave(p)
    /\ UNCHANGED <<host, container, receipt, override>>

NeedsDeploy(p) ==
    /\ Continue(p, "inspect", "override")
    /\ InspectImagePasses(p)
    /\ ~OriginProfileRemovalForbidden(p)
    /\ ~Current(p)
    /\ desired' = [desired EXCEPT ![p] = DesiredDigest(p)]
    /\ UNCHANGED <<container, files, before>>

WriteOverride(p) ==
    /\ Continue(p, "override", "starting")
    /\ override' = [override EXCEPT ![alias[p]] = desired[p]]
    /\ UNCHANGED <<container, status, receipt, before, desired>>

\* A variant: the status file still shows the previous result during the mutation.
StartWithoutStatus(p) ==
    /\ Continue(p, "starting", "pull")
    /\ UNCHANGED <<container, files, before, desired>>

\* The marker is written with mutation_started = false, then the mutation begins.
WriteMutationStarting(p) ==
    /\ Continue(p, "starting", "pull")
    /\ WriteStatus(alias[p], "MUTATION_STARTING", FALSE, desired[p])
    /\ UNCHANGED <<container, receipt, override, before, desired>>

ComposePull(p) ==
    /\ Continue(p, "pull", "up")
    /\ UNCHANGED <<container, files, before, desired>>

\* docker compose up: the service is recreated on the override's image, or its
\* old container is removed and the new one does not run.
ComposeUp(p) ==
    /\ Continue(p, "up", "wait")
    /\ container' \in {[container EXCEPT ![alias[p]] = i] : i \in {override[alias[p]], None}}
    /\ UNCHANGED <<files, before, desired>>

\* up --wait exits 0 only with the service running.
ComposeUpReturns(p) ==
    /\ Continue(p, "wait", "identity")
    /\ container[alias[p]] # None
    /\ UNCHANGED <<container, files, before, desired>>

\* compose ps and docker inspect: the running image is the frozen reference.
CheckIdentity(p) ==
    /\ Continue(p, "identity", "health")
    /\ container[alias[p]] = desired[p]
    /\ UNCHANGED <<container, files, before, desired>>

\* Liveness and, when required, readiness answer 200.
CheckHealth(p) ==
    /\ Continue(p, "health", "pointer_after")
    /\ container[alias[p]] # None
    /\ UNCHANGED <<container, files, before, desired>>

\* The pointer is read again, as evidence only.
ResolvePointerAgain(p) ==
    /\ Continue(p, "pointer_after", "receipt")
    /\ UNCHANGED <<container, files, before, desired>>

\* A variant: the receipt names the pointer read after the deployment.
ReceiptOfPointer(p) ==
    /\ Continue(p, "receipt", "success")
    /\ receipt' = [receipt EXCEPT ![alias[p]] =
                      [digest |-> pointer[alias[p]], profile |-> Target(p).profile]]
    /\ UNCHANGED <<container, status, override, before, desired>>

\* A variant: the receipt has the fields it had before origin profiles.
ReceiptWithoutProfile(p) ==
    /\ Continue(p, "receipt", "success")
    /\ receipt' = [receipt EXCEPT ![alias[p]] = [digest |-> desired[p]]]
    /\ UNCHANGED <<container, status, override, before, desired>>

WriteSuccess(p) ==
    /\ Continue(p, "receipt", "success")
    /\ receipt' = [receipt EXCEPT ![alias[p]] =
                      [digest |-> desired[p], profile |-> Target(p).profile]]
    /\ UNCHANGED <<container, status, override, before, desired>>

WriteSuccessStatus(p) ==
    /\ pc[p] = "success"
    /\ WriteStatus(alias[p], "SUCCESS", TRUE, desired[p])
    /\ Leave(p)
    /\ UNCHANGED <<host, container, receipt, override>>

\* A command fails, times out or returns what the next check rejects: a
\* SimpleDeployError, before the mutation or after it.
CommandFails(p) ==
    /\ \/ Continue(p, "resolve", "refuse")
       \/ \E place \in Mutating \ {"receipt", "success", "stop"} : Continue(p, place, "stop")
    /\ UNCHANGED <<container, files, before, desired>>

\* A variant: every failure is recorded as one before the mutation.
FailureNeverBlocks(p) ==
    /\ pc[p] \in {"refuse", "stop"}
    /\ WriteStatus(alias[p], "PRE_MUTATION_FAILURE", FALSE, desired[p])
    /\ Leave(p)
    /\ UNCHANGED <<host, container, receipt, override>>

\* The except clause of _reconcile_locked.
WriteFailure(p) ==
    /\ \/ /\ pc[p] = "stop"
          /\ WriteStatus(alias[p], "STOP_ERROR", TRUE, desired[p])
       \/ /\ pc[p] = "refuse"
          /\ WriteStatus(alias[p], "PRE_MUTATION_FAILURE", FALSE, desired[p])
    /\ Leave(p)
    /\ UNCHANGED <<host, container, receipt, override>>

\* The process ends where it stands: it is killed or the host stops ("crash"), or
\* a state write raises an OSError no handler catches ("write_error").  The kernel
\* drops its lock; files and container stay as they are.
Dies(p) ==
    /\ \/ "crash" \in Faults /\ pc[p] # "idle"
       \/ "write_error" \in Faults /\ pc[p] \in Writing
    /\ lock' = IF pc[p] \in Locked THEN [lock EXCEPT ![alias[p]] = None] ELSE lock
    /\ Goto(p, "idle")
    /\ rest' = [rest EXCEPT ![p] = <<>>]
    /\ before' = [before EXCEPT ![p] = None]
    /\ desired' = [desired EXCEPT ![p] = None]
    /\ UNCHANGED <<host, container, files, loaded, alias>>

Run(p) ==
    \/ Start(p) \/ Busy(p) \/ Refused(p) \/ Lock(p)
    \/ Verify(p) \/ ResolvePointer(p) \/ InspectImageFails(p)
    \/ RemovalForbidden(p) \/ NoOpCurrent(p) \/ NeedsDeploy(p)
    \/ WriteOverride(p) \/ WriteMutationStarting(p)
    \/ ComposePull(p) \/ ComposeUp(p) \/ ComposeUpReturns(p)
    \/ CheckIdentity(p) \/ CheckHealth(p) \/ ResolvePointerAgain(p)
    \/ WriteSuccess(p) \/ WriteSuccessStatus(p)
    \/ CommandFails(p) \/ WriteFailure(p)

-----------------------------------------------------------------------------
(* Everyone else *)

\* ops-workflows publishes: the :production tag names another digest.
MovePointer(t) ==
    /\ pointer' \in {[pointer EXCEPT ![t] = d] : d \in Digests}
    /\ UNCHANGED <<registry, compose, container, files, lock, pc, loaded, alias, rest,
                   before, desired>>

\* A host installer replaces the Compose file, then the registry, one rename each.
ReplaceCompose(t) ==
    /\ compose' \in {[compose EXCEPT ![t] = c] : c \in ComposeFiles}
    /\ UNCHANGED <<registry, pointer, container, files, lock, pc, loaded, alias, rest,
                   before, desired>>

ReplaceRegistry ==
    /\ registry' \in Registries
    /\ UNCHANGED <<compose, pointer, container, files, lock, pc, loaded, alias, rest,
                   before, desired>>

\* The container stops by itself.
ContainerExits(t) ==
    /\ container' = [container EXCEPT ![t] = None]
    /\ UNCHANGED <<host, files, lock, pc, loaded, alias, rest, before, desired>>

Next ==
    \/ \E p \in Procs : Run(p) \/ Dies(p)
    \/ \E t \in Targets : MovePointer(t) \/ ReplaceCompose(t) \/ ContainerExits(t)
    \/ ReplaceRegistry

Spec == Init /\ [][Next]_vars

\* The timers keep firing (OnUnitInactiveSec) and a started process runs on; a
\* lookup tried for a target again and again is answered in the end.
FairSpec ==
    /\ Spec
    /\ \A p \in Procs :
        /\ WF_vars(Run(p))
        /\ \A t \in Targets :
            /\ SF_vars(alias[p] = t /\ ResolvePointer(p))
            /\ SF_vars(alias[p] = t /\ (NoOpCurrent(p) \/ NeedsDeploy(p)))

-----------------------------------------------------------------------------
(* Properties *)

\* reconcile's lock: two processes are never past the lock of one target.
MutualExclusion ==
    \A p, q \in Procs :
        p # q /\ pc[p] \in Locked /\ pc[q] \in Locked => alias[p] # alias[q]

\* _inspect_image: whatever the pointer and the registry do meanwhile, a target's
\* container only ever runs an image whose metadata was accepted for that target.
OnlyReviewedImagesRun ==
    \A t \in Targets : container[t] # None => container[t] \in Reviewed[t]

\* The order receipt, then SUCCESS status, and MUTATION_STARTING before Docker is
\* touched: a SUCCESS status is never about another image than the one in the
\* receipt and the one that runs, wherever a process died.
SuccessIsRunning ==
    \A t \in Targets :
        status[t] # None /\ status[t].result = "SUCCESS" =>
            /\ receipt[t] # None
            /\ receipt[t].digest = status[t].digest
            /\ container[t] \in {receipt[t].digest, None}

\* SIMPLE_DEPLOY_HOST_V1.md, "Mutation and failure semantics": once an attempt has
\* changed what runs without recording its success, the target is blocked as soon
\* as the attempt is over.
UnrecordedMutationBlocks ==
    \A t \in Targets :
        /\ lock[t] = None
        /\ container[t] # None
        /\ receipt[t] = None \/ receipt[t].digest # container[t]
        => BlockedByPostMutationFailure(t)

\* A stop is final: no process, whenever it started and whatever it had read,
\* touches the files of a blocked target or gives it another container.
StopIsFinal ==
    [][\A t \in Targets :
         BlockedByPostMutationFailure(t) =>
             /\ status'[t] = status[t]
             /\ receipt'[t] = receipt[t]
             /\ override'[t] = override[t]
             /\ container'[t] \in {container[t], None}]_vars

\* A receipt is only ever written for the image that runs, or ran until it exited,
\* wherever the pointer has moved since it was frozen.
ReceiptNamesWhatRuns ==
    [][\A t \in Targets :
         receipt'[t] # receipt[t] => container[t] \in {receipt'[t].digest, None}]_vars

\* ORIGIN_PROFILE_REMOVAL_FORBIDDEN: once a derivative image is receipted, no
\* process, even one that read an older registry, records a plain image for it.
OptInIsSticky ==
    [][\A t \in Targets :
         receipt[t] # None /\ receipt[t].profile # None =>
             receipt'[t] # None /\ receipt'[t].profile # None]_vars

\* The strengthening that makes the invariants inductive: what the lock holder
\* knows at each place of _reconcile_locked.
Frozen == {"override", "starting"} \cup Mutating
Verified == {"health", "pointer_after", "receipt", "success"}

LockHeld == \A p \in Procs : pc[p] \in Locked => lock[alias[p]] = p

StopUnseen ==
    \A p \in Procs : pc[p] \in Locked => ~BlockedByPostMutationFailure(alias[p])

DesiredReviewed ==
    \A p \in Procs : pc[p] \in Frozen => desired[p] \in Reviewed[alias[p]]

OverrideFrozen ==
    \A p \in Procs : pc[p] \in Frozen \ {"override"} => override[alias[p]] = desired[p]

MarkerWritten ==
    \A p \in Procs : pc[p] \in Mutating =>
        status[alias[p]] # None /\ status[alias[p]].result = "MUTATION_STARTING"

ContainerVerified ==
    \A p \in Procs : pc[p] \in Verified => container[alias[p]] \in {desired[p], None}

ReceiptWritten ==
    \A p \in Procs : pc[p] = "success" =>
        receipt[alias[p]] # None /\ receipt[alias[p]].digest = desired[p]

OptInChecked ==
    \A p \in Procs :
        pc[p] \in Frozen \ {"success", "stop"} => ~OriginProfileRemovalForbidden(p)

IInv ==
    /\ TypeOK
    /\ LockHeld
    /\ StopUnseen
    /\ DesiredReviewed
    /\ OverrideFrozen
    /\ MarkerWritten
    /\ ContainerVerified
    /\ ReceiptWritten
    /\ OptInChecked
    /\ OnlyReviewedImagesRun
    /\ SuccessIsRunning

\* Reconciliation converges: once a target's pointer rests on an accepted digest and
\* the installed registry stays enabled, public and in step with the Compose file,
\* that digest is receipted and is what runs, or the target has stopped for a human.
Converges ==
    \A t \in Targets : \A d \in Reviewed[t] :
        <>[](/\ pointer[t] = d
             /\ registry.enabled
             /\ registry.target[t] = [public |-> TRUE, compose |-> compose[t], profile |-> None])
        => <>[](\/ BlockedByPostMutationFailure(t)
                \/ /\ receipt[t] # None
                   /\ receipt[t].digest = d
                   /\ container[t] \in {d, None})
=============================================================================
