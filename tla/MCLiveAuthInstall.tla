-------------------------- MODULE MCLiveAuthInstall --------------------------
(* Instances of LiveAuthInstall for TLC. *)
EXTENDS LiveAuthOneShot, TLC

CONSTANTS p1, p2, i1, i2, r1, r2

Install(r, s) == [request |-> r, sha |-> s, op |-> "install"]
Canary(r)     == [request |-> r, sha |-> 1, op |-> "canary"]

\* A second request for the next commit, and a canary that copies a request.
RequestsAndCanary == {Install(r1, 1), Install(r2, 2), Canary(r1)}

\* Processes are alike, and so are issues.
Symmetry == Permutations({p1, p2}) \cup Permutations({i1, i2})
=============================================================================
