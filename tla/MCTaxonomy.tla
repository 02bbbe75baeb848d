----------------------------- MODULE MCTaxonomy -----------------------------
(* Instances of Taxonomy for TLC. *)
EXTENDS Taxonomy

CONSTANTS jahreszeiten, essen, ostern, zoo, i1, i2

\* One seasonal topic and one that can be created; a page of a category that can be deleted.
OneTopic == [t \in Topics |-> IF t = ostern THEN "seasonal" ELSE None]
OneLink == {<<jahreszeiten, ostern>>}
OnePage == [i \in Id |-> IF i = i1 THEN [category |-> essen, topic |-> None] ELSE None]
=============================================================================
