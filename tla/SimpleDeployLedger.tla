------------------------- MODULE SimpleDeployLedger -------------------------
(* The reconciler implements TargetLedger. *)
EXTENDS SimpleDeploy

\* A target is blocked by its status file, and mutating while a process is past
\* `mutation_started = True` for it.
Mode(t) ==
    IF BlockedByPostMutationFailure(t) THEN "blocked"
    ELSE IF \E p \in Procs : alias[p] = t /\ pc[p] \in Mutating THEN "mutating"
    ELSE "open"

Ledger == INSTANCE TargetLedger
          WITH mode <- [t \in Targets |-> Mode(t)],
               running <- container,
               entry <- receipt

\* Every behaviour of the reconciler, with its locks, crashes, races for the
\* pointer and stale registries, is a behaviour of the ledger.
ImplementsLedger == Ledger!Spec
=============================================================================
