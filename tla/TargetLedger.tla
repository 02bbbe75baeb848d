---------------------------- MODULE TargetLedger ----------------------------
(***************************************************************************)
(* What SIMPLE-DEPLOY promises of a target, without processes, locks or    *)
(* commands: attempts open and end, only an open attempt changes what      *)
(* runs, an entry of the ledger names what runs, and a stop is final.      *)
(***************************************************************************)
CONSTANTS Targets, Digests, Profiles, Reviewed, None

VARIABLES
    mode,     \* mode[t]: "open", "mutating" or "blocked"
    running,  \* running[t]: the image that runs, or None
    entry     \* entry[t]: the last success on record, or None

vars == <<mode, running, entry>>

Init ==
    /\ mode = [t \in Targets |-> "open"]
    /\ running = [t \in Targets |-> None]
    /\ entry = [t \in Targets |-> None]

Begin(t) ==
    /\ mode[t] = "open"
    /\ mode' = [mode EXCEPT ![t] = "mutating"]
    /\ UNCHANGED <<running, entry>>

\* Only inside an attempt does another image run, and it is a reviewed one.
Recreate(t) ==
    /\ mode[t] = "mutating"
    /\ \E i \in Reviewed[t] : running' = [running EXCEPT ![t] = i]
    /\ UNCHANGED <<mode, entry>>

Exit(t) ==
    /\ running' = [running EXCEPT ![t] = None]
    /\ UNCHANGED <<mode, entry>>

\* The entry names the image that runs; an opted-in target stays opted in.
Record(t) ==
    /\ mode[t] = "mutating"
    /\ \E d \in Reviewed[t], o \in Profiles \cup {None} :
         /\ running[t] \in {d, None}
         /\ entry[t] # None /\ entry[t].profile # None => o # None
         /\ entry' = [entry EXCEPT ![t] = [digest |-> d, profile |-> o]]
    /\ UNCHANGED <<mode, running>>

\* An attempt ends without a stop: it succeeded, or its process died.
End(t) ==
    /\ mode[t] = "mutating"
    /\ mode' = [mode EXCEPT ![t] = "open"]
    /\ UNCHANGED <<running, entry>>

Stop(t) ==
    /\ mode[t] = "mutating"
    /\ mode' = [mode EXCEPT ![t] = "blocked"]
    /\ UNCHANGED <<running, entry>>

Next == \E t \in Targets :
    Begin(t) \/ Recreate(t) \/ Exit(t) \/ Record(t) \/ End(t) \/ Stop(t)

Spec == Init /\ [][Next]_vars
=============================================================================
