--------------------------- MODULE MCSimpleDeploy ---------------------------
(* Instances of SimpleDeploy for TLC. *)
EXTENDS SimpleDeployLedger

CONSTANTS coloring, cv,         \* target aliases
          timerAll, timerOne,   \* the generic unit and a per-target unit
          base, next, origin, foreign, \* image digests
          plainFile, originFile \* Compose file contents

Plain(t) == [public |-> TRUE, compose |-> plainFile, profile |-> None]
OptedIn(t) ==
    [public |-> TRUE, compose |-> originFile,
     profile |-> [base |-> base, derivative |-> origin]]

PlainRegistry  == [enabled |-> TRUE, target |-> [t \in Targets |-> Plain(t)]]
OriginRegistry == [enabled |-> TRUE, target |-> [t \in Targets |-> OptedIn(t)]]
OffRegistry    == [enabled |-> FALSE, target |-> [t \in Targets |-> Plain(t)]]

PlainOnly   == {PlainRegistry}
AnyRegistry == {PlainRegistry, OriginRegistry, OffRegistry}

\* The first target of --all is refused each time: its pull profile is private.
FirstRefused ==
    {[enabled |-> TRUE,
      target |-> [t \in Targets |-> [Plain(t) EXCEPT !.public = (t # cv)]]]}

\* One target, walked by both units.
OneAlias   == [p \in Procs |-> <<coloring>>]
\* --all walks both targets; the per-target unit works on the second.
BothAliases == [p \in Procs |-> IF p = timerAll THEN <<cv, coloring>> ELSE <<coloring>>]

\* The foreign digest's labels name another target.
ReviewedImages == [t \in Targets |-> Digests \ {foreign}]
=============================================================================
