------------------------------ MODULE PageLife ------------------------------
(* What the content store promises of its pages, with no processes, locks,     *)
(* files or containers. A page is published, archived, restored and deleted    *)
(* for good. What has been reported as published is never lost. A page that     *)
(* was not reported can vanish when another is changed. The id of a deleted     *)
(* page can be used again, for another drawing.                                  *)
EXTENDS Naturals

CONSTANTS Id, Art, None, Initial, Archived

VARIABLES page, reported

Absent == [is |-> "absent", art |-> None]

Init ==
    /\ page = [i \in Id |-> IF Initial[i] = None THEN Absent ELSE
                         [is |-> IF i \in Archived THEN "archived" ELSE "live", art |-> Initial[i]]]
    /\ reported = {Initial[i] : i \in Id} \ {None}

\* A write of one page can make others vanish that were not reported.
Vanishes(i) ==
    /\ page[i].is = "live" /\ page[i].art \notin reported
    /\ page'[i] \in [is : {"deleted"}, art : Art] \cup {Absent}

Move(i, before, after) ==
    /\ page[i].is \in before /\ page'[i] = [page[i] EXCEPT !.is = after]
    /\ \A j \in Id \ {i} : page'[j] = page[j] \/ Vanishes(j)
    /\ UNCHANGED reported

Archive(i) == Move(i, {"live"}, "archived")
Restore(i) == Move(i, {"archived"}, "live")
Delete(i)  == Move(i, {"archived"}, "deleted")
Edit(i)    == Move(i, {"live"}, "live")

Publish(i, a) ==
    /\ page[i].is \in {"absent", "deleted"} /\ \A j \in Id : page[j].art # a
    /\ page' = [page EXCEPT ![i] = [is |-> "live", art |-> a]]
    /\ UNCHANGED reported

Report(a) ==
    /\ \E i \in Id : page[i] = [is |-> "live", art |-> a]
    /\ reported' = reported \cup {a}
    /\ UNCHANGED page

Next ==
    \/ \E i \in Id : Archive(i) \/ Restore(i) \/ Delete(i) \/ Edit(i)
    \/ \E i \in Id, a \in Art : Publish(i, a)
    \/ \E a \in Art : Report(a)

Spec == Init /\ [][Next]_<<page, reported>>
=============================================================================
