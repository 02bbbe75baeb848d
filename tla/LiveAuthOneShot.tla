-------------------------- MODULE LiveAuthOneShot --------------------------
(* The executor implements OneShotInstall. *)
EXTENDS LiveAuthInstall

\* An authorization is spent by the row whose consumed_at is set.
Spent == {[issue |-> r.issue, body |-> r.body] : r \in {x \in db : x.consumed}}

Abstract == INSTANCE OneShotInstall WITH spent <- Spent

\* Whatever crashes, edits, stale replay checks and concurrent processes do,
\* an issue and a request_id are spent at most once, and every change of the
\* host is one that a spent authorization for that commit allows.
ImplementsOneShot == Abstract!Spec
=============================================================================
