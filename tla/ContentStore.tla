---------------------------- MODULE ContentStore ----------------------------
(* The content tree of Ausmalwiese: catalogue, archive records, and the files *)
(* of each page in inbox, originals and media. It is shared by the admin      *)
(* publisher (AdminPublish) and the Drive ingest (DriveIngest) through one     *)
(* non-blocking flock, and changed by the importer, a container either starts. *)
(* A container does not hold the lock. It runs on when the process that waits   *)
(* for it is killed or gives up.                                                *)
EXTENDS Naturals, FiniteSets, Sequences

CONSTANTS
    Id,       \* page ids
    Art,      \* drawings: what is behind a catalogue entry or a file
    None,
    Initial,  \* [Id -> Art or None]: the pages published before
    Archived  \* those of them that were archived since

Maybe(S) == S \cup {None}
ArchiveStates == {"prepared", "archived", "restored", "delete-prepared", "deleted"}
Records == [state : ArchiveStates, art : Art]
Containers == [art : Art, at : {"files", "catalog", "done", "failed"}, waited : BOOLEAN]
Holders == {"handler", "job", "ingest"}

ASSUME StoreAssumption ==
    /\ None \notin Id \cup Art \cup Holders /\ None \notin Records \cup Containers
    /\ None \notin [Id -> Maybe(Art)]
    /\ Initial \in [Id -> Maybe(Art)]
    /\ Archived \subseteq {i \in Id : Initial[i] # None}

VARIABLES
    catalog,    \* catalog.json: the drawing published under an id
    record,     \* archive/<id>.json
    inbox, originals, media,
    lock,       \* who holds the publication lock
    importer    \* the importer's container for a page

storeVars == <<catalog, record, inbox, originals, media, lock, importer>>

StoreTypeOK ==
    /\ catalog \in [Id -> Maybe(Art)] /\ record \in [Id -> Maybe(Records)]
    /\ inbox \in [Id -> Maybe(Art)] /\ originals \in [Id -> Maybe(Art)] /\ media \in [Id -> Maybe(Art)]
    /\ lock \in Maybe(Holders)
    /\ importer \in [Id -> Maybe(Containers)]

StoreInit ==
    /\ catalog = [i \in Id |-> IF i \in Archived THEN None ELSE Initial[i]]
    /\ record = [i \in Id |-> IF i \in Archived THEN [state |-> "archived", art |-> Initial[i]] ELSE None]
    /\ originals = Initial /\ media = Initial
    /\ inbox = [i \in Id |-> None] /\ importer = [i \in Id |-> None]
    /\ lock = None

Live(i) == catalog[i] # None
ArchiveState(i) == IF record[i] = None THEN "none" ELSE record[i].state
Reserved == {i \in Id : Live(i) \/ record[i] # None}
NoFiles(i) == inbox[i] = None /\ originals[i] = None /\ media[i] = None

-----------------------------------------------------------------------------
(* The importer.                                                              *)

\* A prepared page enters the inbox, without overwriting, and the container starts.
\* Dying between the two leaves what an importer that fails at once leaves.
HandOver(i, a) ==
    /\ inbox[i] = None
    /\ inbox' = [inbox EXCEPT ![i] = a]
    /\ importer' = [importer EXCEPT ![i] = [art |-> a, at |-> "files", waited |-> TRUE]]

Running(i) == importer[i] # None /\ importer[i].at \in {"files", "catalog"}

\* A container that ends is remembered for as long as somebody waits for it.
Ended(i, how) ==
    importer' = [importer EXCEPT ![i] = IF @.waited THEN [@ EXCEPT !.at = how] ELSE None]

\* Whoever waited for page i's container is gone.
Abandoned(i) == [importer EXCEPT ![i] = IF Running(i) THEN [@ EXCEPT !.waited = FALSE] ELSE None]

ImportFiles(i) ==
    /\ Running(i) /\ importer[i].at = "files"
    /\ originals' = [originals EXCEPT ![i] = importer[i].art]
    /\ media' = [media EXCEPT ![i] = importer[i].art]
    /\ importer' = [importer EXCEPT ![i].at = "catalog"]
    /\ UNCHANGED <<catalog, record, inbox, lock>>

ImportCatalog(i) ==
    /\ Running(i) /\ importer[i].at = "catalog"
    /\ catalog' = [catalog EXCEPT ![i] = importer[i].art]
    /\ Ended(i, "done")
    /\ UNCHANGED <<record, inbox, originals, media, lock>>

ImporterFails(i) ==
    /\ Running(i)
    /\ Ended(i, "failed")
    /\ UNCHANGED <<catalog, record, inbox, originals, media, lock>>

Importer == \E i \in Id : ImportFiles(i) \/ ImportCatalog(i) \/ ImporterFails(i)
=============================================================================
