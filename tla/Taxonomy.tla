------------------------------ MODULE Taxonomy ------------------------------
(* Categories, topics and the links between them, as coloring-pages-admin-    *)
(* publish keeps them: three registry files with a revision, changed under     *)
(* the publication lock, and referred to by catalogue entries, archive records  *)
(* and a publication job. A job is asked for and queued without that lock.       *)
(* The public copy of a registry is the file the web server reads: there is no    *)
(* cache between them. What AdminPublish models step by step, the catalogue and    *)
(* an archive record, changes in one step here; a stale If-Match changes nothing.   *)
EXTENDS Naturals, FiniteSets

CONSTANTS
    Categories, Core, Jahreszeiten,  \* the protected ones, and the one for seasonal topics
    Topics, Id, None,
    InitCategories, InitTopics,      \* registries: a set of ids, and [Topics -> kind or None]
    InitLinks,                       \* the seeded pairs
    InitCatalog,                     \* [Id -> references or None]
    MaxEdits,                        \* bound on the requests that change something
    MaxJobs,
    Faults                           \* subset of {"crash", "write_error"}

Kinds == {"seasonal", "evergreen"}
Maybe(S) == S \cup {None}
References == [category : Categories, topic : Maybe(Topics)]

ASSUME TaxonomyAssumption ==
    /\ Jahreszeiten \in Core /\ Core \subseteq InitCategories /\ InitCategories \subseteq Categories
    /\ InitTopics \in [Topics -> Maybe(Kinds)] /\ InitCatalog \in [Id -> Maybe(References)]
    /\ InitLinks \subseteq InitCategories \X {t \in Topics : InitTopics[t] # None}
    /\ None \notin Kinds \cup Topics \cup References
    /\ MaxEdits \in Nat /\ MaxJobs \in Nat /\ Faults \subseteq {"crash", "write_error"}

\* What is seeded is what the service accepts: a topic at least, links that fit, and pages
\* that refer to what there is.
SeedFits(c, t) == InitTopics[t] # None /\ (InitTopics[t] = "seasonal") = (c = Jahreszeiten)

ASSUME SeedAssumption ==
    /\ \E t \in Topics : InitTopics[t] # None
    /\ \A p \in InitLinks : SeedFits(p[1], p[2])
    /\ \A i \in Id : InitCatalog[i] # None =>
          /\ InitCatalog[i].category \in InitCategories
          /\ InitCatalog[i].topic # None => SeedFits(InitCatalog[i].category, InitCatalog[i].topic)

VARIABLES
    categories, topics, links,  \* categories.json, topics.json, category-topic-links.json
    staged,     \* registries with a temporary file beside them
    catalog,    \* what an entry refers to
    archive,    \* what the entry of an archive record refers to, and the record's state
    lock,       \* the publication lock
    handler,    \* the request past the lock
    asked,      \* a request for a job that is not queued yet
    job,        \* the latest job
    container,  \* importers, by the page they publish
    strays,     \* pages that a container published after nobody waited for it
    up,
    edits

registries == <<categories, topics, links>>
pages == <<catalog, archive>>
publication == <<asked, job, container, strays>>
vars == <<registries, staged, pages, lock, handler, publication, up, edits>>

NoHandler == [registry |-> "none", doc |-> None]
NoJob == [status |-> "none", number |-> 0, wants |-> None]
Version == <<categories.revision, topics.revision>>
Revisions == 1 .. MaxEdits + 1
Wanted == [refs : References, version : Revisions \X Revisions, links : Revisions]

\* A registry is what validate_managed, validate_topics_registry and links_bytes accept.
TypeOK ==
    /\ categories.revision \in Revisions
    /\ Core \subseteq categories.ids /\ categories.ids \subseteq Categories
    /\ topics.revision \in Revisions
    /\ topics.kind \in [Topics -> Maybe(Kinds)] /\ \E t \in Topics : topics.kind[t] # None
    /\ links.revision \in Revisions /\ links.pairs \subseteq Categories \X Topics
    /\ staged \subseteq {"categories", "topics", "links"}
    /\ catalog \in [Id -> Maybe(References)]
    /\ archive \in [Id -> Maybe([refs : References, state : {"prepared", "archived", "restored", "deleted"}])]
    /\ lock \in {"free", "handler", "job"}
    /\ handler.registry \in {"none", "categories", "topics", "links"}
    /\ asked \in Maybe(Wanted)
    /\ job.status \in {"none", "queued", "running", "failed", "published"}
    /\ job.number \in 0 .. MaxJobs /\ job.wants \in Maybe(Wanted)
    /\ container \in [Id -> Maybe([refs : References, waited : BOOLEAN])]
    /\ strays \subseteq Id /\ up \in BOOLEAN /\ edits \in 0 .. MaxEdits

Init ==
    /\ categories = [revision |-> 1, ids |-> InitCategories]
    /\ topics = [revision |-> 1, kind |-> InitTopics]
    /\ links = [revision |-> 1, pairs |-> InitLinks]
    /\ staged = {} /\ catalog = InitCatalog /\ archive = [i \in Id |-> None]
    /\ lock = "free" /\ handler = NoHandler
    /\ asked = None /\ job = NoJob /\ container = [i \in Id |-> None] /\ strays = {}
    /\ up = TRUE /\ edits = 0

-----------------------------------------------------------------------------
(* What is checked of references.                                             *)

KnownTopics == {t \in Topics : topics.kind[t] # None}
Fits(c, t) == (topics.kind[t] = "seasonal") = (c = Jahreszeiten)

\* validated_categories and validated_topics against the current registries.
Valid(refs) ==
    /\ refs.category \in categories.ids
    /\ refs.topic # None => refs.topic \in KnownTopics /\ Fits(refs.category, refs.topic)

LinksValid ==
    \A p \in links.pairs : p[1] \in categories.ids /\ p[2] \in KnownTopics /\ Fits(p[1], p[2])

\* A topic has to be linked to the entry's category, unless the entry had both before.
Linked(refs, before) ==
    /\ "links" \notin staged /\ LinksValid
    /\ refs.topic = None \/ <<refs.category, refs.topic>> \in links.pairs \/ refs = before

Referring == {catalog[i] : i \in Id} \cup {archive[i].refs : i \in {j \in Id : archive[j] # None}}
Referred == Referring \ {None}
UsedCategories == {r.category : r \in Referred}
UsedTopics == {r.topic : r \in Referred} \ {None}

CountEdit == edits < MaxEdits /\ edits' = edits + 1

ActiveJob == job.status \in {"queued", "running"}

-----------------------------------------------------------------------------
(* Changes of a registry: checks, a temporary file, its rename.                *)

\* No interrupted change waits for review, all references are known, no job is active.
Editable(registry) ==
    /\ up /\ lock = "free" /\ registry \notin staged /\ ~ActiveJob
    /\ CASE registry = "categories" -> UsedCategories \subseteq categories.ids
         [] registry = "topics"     -> UsedTopics \subseteq KnownTopics
         [] registry = "links"      -> LinksValid

Admit(registry, doc) ==
    /\ Editable(registry) /\ CountEdit
    /\ lock' = "handler"
    /\ handler' = [registry |-> registry, doc |-> [doc EXCEPT !.revision = @ + 1]]
    /\ UNCHANGED <<registries, staged, pages, publication, up>>

CreateCategory(c) ==
    /\ c \notin categories.ids
    /\ Admit("categories", [categories EXCEPT !.ids = @ \cup {c}])

\* Its label changes, and with it the revision.
RenameCategory == Admit("categories", categories)

\* A variant: an archived page is no reason to keep its category.
DeleteUnpublishedCategory(c) ==
    /\ c \in categories.ids \ Core
    /\ \A i \in Id : catalog[i] # None => catalog[i].category # c
    /\ LinksValid /\ \A p \in links.pairs : p[1] # c
    /\ Admit("categories", [categories EXCEPT !.ids = @ \ {c}])

DeleteCategory(c) ==
    /\ c \in categories.ids \ Core /\ c \notin UsedCategories
    /\ LinksValid /\ \A p \in links.pairs : p[1] # c
    /\ Admit("categories", [categories EXCEPT !.ids = @ \ {c}])

CreateTopic(t, kind) ==
    /\ t \notin KnownTopics
    /\ Admit("topics", [topics EXCEPT !.kind[t] = kind])

UpdateTopic(t, kind) ==
    /\ t \in KnownTopics
    /\ kind # topics.kind[t] => t \notin UsedTopics /\ LinksValid /\ \A p \in links.pairs : p[2] # t
    /\ Admit("topics", [topics EXCEPT !.kind[t] = kind])

\* A variant: the last topic can go.
DeleteAnyTopic(t) ==
    /\ t \in KnownTopics /\ t \notin UsedTopics
    /\ LinksValid /\ \A p \in links.pairs : p[2] # t
    /\ Admit("topics", [topics EXCEPT !.kind[t] = None])

DeleteTopic(t) ==
    /\ t \in KnownTopics /\ t \notin UsedTopics /\ KnownTopics # {t}
    /\ LinksValid /\ \A p \in links.pairs : p[2] # t
    /\ Admit("topics", [topics EXCEPT !.kind[t] = None])

Link(c, t) ==
    /\ c \in categories.ids /\ t \in KnownTopics /\ Fits(c, t) /\ <<c, t>> \notin links.pairs
    /\ Admit("links", [links EXCEPT !.pairs = @ \cup {<<c, t>>}])

Unlink(c, t) ==
    /\ <<c, t>> \in links.pairs
    /\ Admit("links", [links EXCEPT !.pairs = @ \ {<<c, t>>}])

ChangeRegistry ==
    \/ RenameCategory
    \/ \E c \in Categories : CreateCategory(c) \/ DeleteCategory(c)
    \/ \E t \in Topics : DeleteTopic(t) \/ \E kind \in Kinds : CreateTopic(t, kind) \/ UpdateTopic(t, kind)
    \/ \E c \in Categories, t \in Topics : Link(c, t) \/ Unlink(c, t)

Stage ==
    /\ handler.registry \notin staged \cup {"none"}
    /\ staged' = staged \cup {handler.registry}
    /\ UNCHANGED <<registries, pages, lock, handler, publication, up, edits>>

\* The new file is read back; whatever comes of that, it stays.
Replace ==
    /\ handler.registry \in staged
    /\ categories' = IF handler.registry = "categories" THEN handler.doc ELSE categories
    /\ topics' = IF handler.registry = "topics" THEN handler.doc ELSE topics
    /\ links' = IF handler.registry = "links" THEN handler.doc ELSE links
    /\ staged' = staged \ {handler.registry}
    /\ lock' = "free" /\ handler' = NoHandler
    /\ UNCHANGED <<pages, publication, up, edits>>

\* A failing write is not retried and its temporary file is not removed.
WriteFails ==
    /\ "write_error" \in Faults /\ handler # NoHandler
    /\ lock' = "free" /\ handler' = NoHandler
    /\ UNCHANGED <<registries, staged, pages, publication, up, edits>>

-----------------------------------------------------------------------------
(* Changes of the catalogue.                                                  *)

Changing(i) ==
    /\ up /\ lock = "free" /\ CountEdit
    /\ UNCHANGED <<registries, staged, lock, handler, publication, up>>

Edit(i, refs) ==
    /\ Changing(i) /\ catalog[i] # None
    /\ Valid(refs) /\ Linked(refs, catalog[i])
    /\ catalog' = [catalog EXCEPT ![i] = refs]
    /\ UNCHANGED archive

\* The record is written first: a failing write of the catalogue leaves the page in both.
Archive(i) ==
    /\ Changing(i) /\ catalog[i] # None /\ archive[i] = None /\ Valid(catalog[i])
    /\ \/ /\ catalog' = [catalog EXCEPT ![i] = None]
          /\ archive' = [archive EXCEPT ![i] = [refs |-> catalog[i], state |-> "archived"]]
       \/ /\ "write_error" \in Faults /\ UNCHANGED catalog
          /\ archive' = [archive EXCEPT ![i] = [refs |-> catalog[i], state |-> "prepared"]]

\* The record goes on naming what the page referred to when it was archived.
Restore(i) ==
    /\ Changing(i) /\ catalog[i] = None /\ archive[i] # None
    /\ archive[i].state \in {"prepared", "archived"} /\ Valid(archive[i].refs)
    /\ catalog' = [catalog EXCEPT ![i] = archive[i].refs]
    /\ \/ archive' = [archive EXCEPT ![i].state = "restored"]
       \/ "write_error" \in Faults /\ UNCHANGED archive

Delete(i) ==
    /\ Changing(i) /\ catalog[i] = None /\ archive[i] # None /\ archive[i].state = "archived"
    /\ archive' = [archive EXCEPT ![i].state = "deleted"]
    /\ UNCHANGED catalog

ChangeCatalog ==
    \E i \in Id : Archive(i) \/ Restore(i) \/ Delete(i) \/ \E refs \in References : Edit(i, refs)

-----------------------------------------------------------------------------
(* A job.                                                                     *)

NotPublication == <<registries, staged, pages, handler, up, edits>>

\* The request is checked and takes down which versions it was checked against.
AskForJob(refs) ==
    /\ up /\ asked = None /\ Valid(refs) /\ Linked(refs, None)
    /\ asked' = [refs |-> refs, version |-> Version, links |-> links.revision]
    /\ UNCHANGED <<NotPublication, lock, job, container, strays>>

\* Of these versions only that of the links is compared again before it is queued.
QueueJob ==
    /\ asked # None /\ ~ActiveJob /\ asked.links = links.revision /\ job.number < MaxJobs
    /\ job' = [status |-> "queued", number |-> job.number + 1, wants |-> asked]
    /\ asked' = None
    /\ UNCHANGED <<NotPublication, lock, container, strays>>

RefuseJob ==
    /\ asked # None /\ asked' = None
    /\ UNCHANGED <<NotPublication, lock, job, container, strays>>

\* A variant: what the request checked is not checked again.
StartAsAsked ==
    /\ up /\ job.status = "queued" /\ lock = "free" /\ lock' = "job"
    /\ job' = [job EXCEPT !.status = "running"]
    /\ UNCHANGED <<NotPublication, asked, container, strays>>

StartJob ==
    /\ up /\ job.status = "queued" /\ lock = "free"
    /\ job.wants.version = Version /\ job.wants.links = links.revision
    /\ Valid(job.wants.refs) /\ Linked(job.wants.refs, None)
    /\ lock' = "job" /\ job' = [job EXCEPT !.status = "running"]
    /\ UNCHANGED <<NotPublication, asked, container, strays>>

\* What a job wanted is not looked at again once it is settled.
SettleJob(how) == job' = [job EXCEPT !.status = how, !.wants = None]

Mine == {i \in Id : container[i] # None /\ container[i].waited}

Import(i) ==
    /\ lock = "job" /\ Mine = {} /\ catalog[i] = None /\ archive[i] = None /\ container[i] = None
    /\ container' = [container EXCEPT ![i] = [refs |-> job.wants.refs, waited |-> TRUE]]
    /\ UNCHANGED <<NotPublication, lock, asked, job, strays>>

\* The container writes the catalogue and ends, and with it the job that waits for it.
ContainerPublishes(i) ==
    /\ container[i] # None
    /\ catalog' = [catalog EXCEPT ![i] = container[i].refs]
    /\ container' = [container EXCEPT ![i] = None]
    /\ IF i \in Mine THEN lock' = "free" /\ SettleJob("published") /\ UNCHANGED strays
                     ELSE strays' = strays \cup {i} /\ UNCHANGED <<lock, job>>
    /\ UNCHANGED <<registries, staged, archive, handler, asked, up, edits>>

ContainerFails(i) ==
    /\ container[i] # None /\ i \notin Mine
    /\ container' = [container EXCEPT ![i] = None]
    /\ UNCHANGED <<NotPublication, lock, asked, job, strays>>

Abandoned == [i \in Id |-> IF i \in Mine THEN [container[i] EXCEPT !.waited = FALSE] ELSE container[i]]

\* A failing check or tool, or the time-out of one that runs on.
JobFails ==
    /\ up /\ ActiveJob
    /\ SettleJob("failed")
    /\ lock' = IF lock = "job" THEN "free" ELSE lock
    /\ container' = Abandoned
    /\ UNCHANGED <<NotPublication, asked, strays>>

JobStep ==
    \/ \E refs \in References : AskForJob(refs)
    \/ QueueJob \/ RefuseJob \/ StartJob \/ JobFails
    \/ \E i \in Id : Import(i) \/ ContainerPublishes(i) \/ ContainerFails(i)

Crash ==
    /\ "crash" \in Faults /\ up
    /\ up' = FALSE /\ lock' = "free" /\ handler' = NoHandler /\ asked' = None
    /\ container' = Abandoned
    /\ UNCHANGED <<registries, staged, pages, job, strays, edits>>

Restart ==
    /\ ~up /\ up' = TRUE
    /\ IF ActiveJob THEN SettleJob("failed") ELSE UNCHANGED job
    /\ UNCHANGED <<registries, staged, pages, lock, handler, asked, container, strays, edits>>

Next == ChangeRegistry \/ Stage \/ Replace \/ WriteFails \/ ChangeCatalog \/ JobStep \/ Crash \/ Restart

Spec == Init /\ [][Next]_vars

-----------------------------------------------------------------------------
\* What a page or an archive record refers to is in the registries and fits them, and so is
\* what is linked. Only a container that outlived its job can publish a page whose category
\* was deleted meanwhile; no registry can be changed from then on.
ReferencesResolve ==
    /\ LinksValid
    /\ \A i \in Id \ strays :
          /\ catalog[i] # None => Valid(catalog[i])
          /\ archive[i] # None => Valid(archive[i].refs)

\* While a job has the lock, categories, topics and links are those its request was checked
\* against, though nothing kept them unchanged between the request and the lock.
JobSeesItsTaxonomy ==
    lock = "job" => job.wants.version = Version /\ job.wants.links = links.revision
=============================================================================
