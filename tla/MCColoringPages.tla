-------------------------- MODULE MCColoringPages --------------------------
(* Instances of ColoringPages for TLC. *)
EXTENDS ColoringPages

CONSTANTS i1, i2, i3, old, a1, a2, a3, d1, d2

\* One page published before.
OneOld == [i \in Id |-> IF i = i1 THEN old ELSE None]
\* Two jobs of one page, or one job of two.
TwoUploads == <<<<a1>>, <<a2>>>>
TwoPages == <<<<a1, a2>>>>
\* A batch, and a second one that repeats its activity and names the id of the old page.
Repeated == <<<<[id |-> i2, art |-> d1]>>, <<[id |-> i2, art |-> d1], [id |-> i1, art |-> d2]>>>>
NoBatch  == <<>>
=============================================================================
