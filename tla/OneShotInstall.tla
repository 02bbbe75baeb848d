--------------------------- MODULE OneShotInstall ---------------------------
(***************************************************************************)
(* What LIVE-AUTH promises of a privileged installation, without           *)
(* processes, polling or a database: an authorization is spent once, and   *)
(* only a spent one changes the host, each object of which is made once.   *)
(***************************************************************************)
CONSTANTS Issues, Bodies, Objects, Absent, Partial

VARIABLES
    spent,   \* authorizations spent, by issue and body
    host     \* host[o]: Absent, Partial or the commit it comes from

vars == <<spent, host>>

Init ==
    /\ spent = {}
    /\ host = [o \in Objects |-> Absent]

\* Neither the issue nor its request was spent before, whatever it says now.
Spend(i, b) ==
    /\ \A s \in spent : s.issue # i /\ s.body.request # b.request
    /\ spent' = spent \cup {[issue |-> i, body |-> b]}
    /\ UNCHANGED host

\* Something spent is needed to begin, and nothing is ever replaced.
Begin(o) ==
    /\ spent # {}
    /\ host[o] = Absent
    /\ host' = [host EXCEPT ![o] = Partial]
    /\ UNCHANGED spent

\* A whole object is that of a commit somebody authorized.
Complete(o) ==
    /\ host[o] = Partial
    /\ \E s \in spent : s.body.op = "install" /\ host' = [host EXCEPT ![o] = s.body.sha]
    /\ UNCHANGED spent

Next ==
    \/ \E i \in Issues, b \in Bodies : Spend(i, b)
    \/ \E o \in Objects : Begin(o) \/ Complete(o)

Spec == Init /\ [][Next]_vars
=============================================================================
