------------------------- MODULE MCControlledDeploy -------------------------
(* Instances of ControlledDeploy for TLC. *)
EXTENDS ControlledDeploy

CONSTANTS core, cron, rotate,                    \* manifest ids
          coreNow, cronOld, cronNew, cronNewer, rotateNew, edited  \* fingerprints

InOrder == <<core, cron, rotate>>

File(t, c) == CASE t = core -> coreNow
                [] t = cron -> (IF c = 1 THEN cronOld ELSE cronNew)
                [] t = rotate -> rotateNew

TwoCommits == [c \in 1 .. 2 |-> [t \in Targets |-> File(t, c)]]

\* An attested core, an older cron file and no logrotate file.
Fresh == {[t \in Targets |-> CASE t = core -> coreNow [] t = cron -> cronOld [] t = rotate -> Absent]}
\* Also a host whose attested file was changed by someone else.
FreshOrEdited == Fresh \cup {[f EXCEPT ![core] = edited] : f \in Fresh}
=============================================================================
