--------------------------- MODULE TaxonomyProofs ---------------------------
(* Theorems about categories, topics and links, for every registry, catalogue *)
(* and number of edits and jobs.                                              *)
EXTENDS Taxonomy, TLAPS

-----------------------------------------------------------------------------
(* The inductive invariant                                                    *)

\* Registry files that the service accepts.
CategoryFiles(n) == [revision : 1 .. n, ids : {S \in SUBSET Categories : Core \subseteq S}]
TopicFiles(n)    == [revision : 1 .. n, kind : {k \in [Topics -> Maybe(Kinds)] : \E t \in Topics : k[t] # None}]
LinkFiles(n)     == [revision : 1 .. n, pairs : SUBSET (Categories \X Topics)]

\* Every change of a registry is counted, the pending one too.
WellFormed ==
    /\ categories \in CategoryFiles(edits + 1)
    /\ topics \in TopicFiles(edits + 1)
    /\ links \in LinkFiles(edits + 1)

\* What the references of pages, archive records and links resolve to in given registries.
FitsIn(kind, c, t) == t \in Topics /\ kind[t] # None /\ (kind[t] = "seasonal") = (c = Jahreszeiten)
ValidIn(ids, kind, r) == r.category \in ids /\ (r.topic # None => FitsIn(kind, r.category, r.topic))
LinksIn(ids, kind, pairs) == \A p \in pairs : p[1] \in ids /\ FitsIn(kind, p[1], p[2])
PagesIn(ids, kind) ==
    \A i \in Id \ strays : /\ catalog[i] # None => ValidIn(ids, kind, catalog[i])
                           /\ archive[i] # None => ValidIn(ids, kind, archive[i].refs)

Resolve(ids, kind, pairs) == LinksIn(ids, kind, pairs) /\ PagesIn(ids, kind)

Sound == Resolve(categories.ids, topics.kind, links.pairs)

\* The registry that a request is about to replace was checked, and what it was checked against
\* stays while the request has the lock.
Pending ==
    /\ lock # "handler" => handler = NoHandler
    /\ lock = "handler" => handler.registry \in {"categories", "topics", "links"}
    /\ handler.registry = "categories" =>
          handler.doc \in CategoryFiles(edits + 1) /\ Resolve(handler.doc.ids, topics.kind, links.pairs)
    /\ handler.registry = "topics" =>
          handler.doc \in TopicFiles(edits + 1) /\ Resolve(categories.ids, handler.doc.kind, links.pairs)
    /\ handler.registry = "links" =>
          handler.doc \in LinkFiles(edits + 1) /\ Resolve(categories.ids, topics.kind, handler.doc.pairs)

Queue == [status : {"none", "queued", "running", "failed", "published"},
          number : 0 .. MaxJobs, wants : Maybe(Wanted)]

\* A job that has the lock runs, and what it and its container publish is valid.
Running ==
    /\ job \in Queue
    /\ ActiveJob => job.wants \in Wanted
    /\ lock = "job" => job.status = "running" /\ ValidIn(categories.ids, topics.kind, job.wants.refs)
    /\ Mine # {} => lock = "job"
    /\ \A i, j \in Mine : i = j
    /\ \A i \in Mine : ValidIn(categories.ids, topics.kind, container[i].refs)
    /\ ~up => lock = "free"

IInv == TypeOK /\ WellFormed /\ Sound /\ Pending /\ Running /\ JobSeesItsTaxonomy

-----------------------------------------------------------------------------
(* Lemmas about references                                                    *)

LEMMA ValidFacts ==
    /\ \A r : Valid(r) <=> ValidIn(categories.ids, topics.kind, r)
    /\ LinksValid <=> LinksIn(categories.ids, topics.kind, links.pairs)
  BY DEF Valid, ValidIn, LinksValid, LinksIn, FitsIn, Fits, KnownTopics

LEMMA SoundResolves == Sound => ReferencesResolve
  BY ValidFacts DEF Sound, Resolve, PagesIn, ReferencesResolve

\* What is not used in the catalogue or an archive record.
LEMMA UnusedFacts ==
    ASSUME TypeOK, NEW i \in Id
    PROVE  /\ catalog[i] # None => /\ catalog[i] \in References /\ catalog[i].category \in UsedCategories
                                   /\ catalog[i].topic # None => catalog[i].topic \in UsedTopics
           /\ archive[i] # None => /\ archive[i].refs \in References /\ archive[i].refs.category \in UsedCategories
                                   /\ archive[i].refs.topic # None => archive[i].refs.topic \in UsedTopics
  <1>1. None \notin References
    BY TaxonomyAssumption
  <1>2. catalog[i] # None => catalog[i] \in References /\ catalog[i] \in Referred
    BY DEF TypeOK, Maybe, Referred, Referring
  <1>3. archive[i] # None => archive[i].refs \in References /\ archive[i].refs \in Referred
    BY <1>1 DEF TypeOK, Maybe, Referred, Referring
  <1>4. QED
    BY <1>2, <1>3 DEF UsedCategories, UsedTopics

\* A registry that a request may replace, given the others.
Acceptable(registry, doc, n) ==
    /\ registry = "categories" => doc \in CategoryFiles(n) /\ Resolve(doc.ids, topics.kind, links.pairs)
    /\ registry = "topics" => doc \in TopicFiles(n) /\ Resolve(categories.ids, doc.kind, links.pairs)
    /\ registry = "links" => doc \in LinkFiles(n) /\ Resolve(categories.ids, topics.kind, doc.pairs)

\* Nothing else is under way when a request has just taken the lock or released it.
LEMMA LockFree ==
    ASSUME IInv, lock = "free"
    PROVE  handler = NoHandler /\ handler.registry = "none" /\ Mine = {}
  BY DEF IInv, Pending, Running, NoHandler

-----------------------------------------------------------------------------
(* A request for a registry                                                   *)

LEMMA AdmitStep ==
    ASSUME IInv, NEW registry \in {"categories", "topics", "links"}, NEW doc,
           Acceptable(registry, doc, edits + 1), Admit(registry, doc)
    PROVE  IInv'
  <1> DEFINE next == [doc EXCEPT !.revision = @ + 1]
  <1>0. TypeOK /\ WellFormed /\ Sound /\ Running /\ MaxEdits \in Nat
    BY TaxonomyAssumption DEF IInv
  <1>1. /\ lock = "free" /\ up /\ lock' = "handler" /\ edits < MaxEdits /\ edits' = edits + 1
        /\ handler' = [registry |-> registry, doc |-> next]
        /\ UNCHANGED <<registries, staged, pages, publication, up>>
    BY DEF Admit, Editable, CountEdit
  <1>2. /\ registry = "categories" => next \in CategoryFiles(edits' + 1) /\ next.ids = doc.ids
        /\ registry = "topics" => next \in TopicFiles(edits' + 1) /\ next.kind = doc.kind
        /\ registry = "links" => next \in LinkFiles(edits' + 1) /\ next.pairs = doc.pairs
    <2>1. edits \in Nat
      BY <1>0 DEF TypeOK
    <2>2. CASE registry = "categories"
      BY <1>1, <2>1, <2>2 DEF Acceptable, CategoryFiles
    <2>3. CASE registry = "topics"
      BY <1>1, <2>1, <2>3 DEF Acceptable, TopicFiles
    <2>4. CASE registry = "links"
      BY <1>1, <2>1, <2>4 DEF Acceptable, LinkFiles
    <2>5. QED
      BY <2>2, <2>3, <2>4
  <1> HIDE DEF next
  <1>3. TypeOK'
    <2>1. edits' \in 0 .. MaxEdits
      BY <1>0, <1>1 DEF TypeOK
    <2>2. lock' = "handler" /\ handler'.registry \in {"categories", "topics", "links"}
      BY <1>1
    <2>3. /\ UNCHANGED <<categories, topics, links, staged, catalog, archive>>
          /\ UNCHANGED <<asked, job, container, strays, up>>
      BY <1>1 DEF registries, pages, publication
    <2>4. QED
      BY <1>0, <2>1, <2>2, <2>3 DEF TypeOK
  <1>4. WellFormed'
    BY <1>0, <1>1 DEF WellFormed, TypeOK, registries, CategoryFiles, TopicFiles, LinkFiles
  <1>5. Sound'
    BY <1>0, <1>1 DEF Sound, Resolve, LinksIn, PagesIn, registries, pages, publication
  <1>6. Pending'
    <2>1. /\ registry = "categories" => Resolve(next.ids, topics.kind, links.pairs)
          /\ registry = "topics" => Resolve(categories.ids, next.kind, links.pairs)
          /\ registry = "links" => Resolve(categories.ids, topics.kind, next.pairs)
      BY <1>2 DEF Acceptable
    <2>2. QED
      BY <1>1, <1>2, <2>1 DEF Pending, Resolve, LinksIn, PagesIn, registries, pages, publication
  <1>7. Running' /\ JobSeesItsTaxonomy'
    <2>1. Mine = {}
      BY <1>1, LockFree
    <2>2. QED
      BY <1>0, <1>1, <2>1 DEF Running, JobSeesItsTaxonomy, Mine, ActiveJob, publication
  <1>8. QED
    BY <1>3, <1>4, <1>5, <1>6, <1>7 DEF IInv

LEMMA ChangeCategories ==
    ASSUME IInv, RenameCategory \/ \E c \in Categories : CreateCategory(c) \/ DeleteCategory(c)
    PROVE  IInv'
  <1>0. TypeOK /\ WellFormed /\ Sound /\ categories \in CategoryFiles(edits + 1)
    BY DEF IInv, WellFormed
  <1>1. CASE RenameCategory
    BY <1>0, <1>1, AdmitStep DEF RenameCategory, Acceptable, Sound
  <1>2. ASSUME NEW c \in Categories, CreateCategory(c) PROVE IInv'
    <2> DEFINE doc == [categories EXCEPT !.ids = @ \cup {c}]
    <2>1. doc \in CategoryFiles(edits + 1) /\ doc.ids = categories.ids \cup {c}
      BY <1>0 DEF CategoryFiles
    <2> HIDE DEF doc
    <2>2. Resolve(doc.ids, topics.kind, links.pairs)
      BY <1>0, <2>1 DEF Sound, Resolve, LinksIn, PagesIn, ValidIn
    <2>3. Admit("categories", doc)
      BY <1>2 DEF CreateCategory, doc
    <2>4. QED
      BY <2>1, <2>2, <2>3, AdmitStep DEF Acceptable
  <1>3. ASSUME NEW c \in Categories, DeleteCategory(c) PROVE IInv'
    <2> DEFINE doc == [categories EXCEPT !.ids = @ \ {c}]
    <2>1. c \notin Core /\ c \notin UsedCategories /\ \A p \in links.pairs : p[1] # c
      BY <1>3 DEF DeleteCategory
    <2>2. doc \in CategoryFiles(edits + 1) /\ doc.ids = categories.ids \ {c}
      BY <1>0, <2>1 DEF CategoryFiles
    <2> HIDE DEF doc
    <2>3. LinksIn(doc.ids, topics.kind, links.pairs)
      BY <1>0, <2>1, <2>2 DEF Sound, Resolve, LinksIn
    <2>4. PagesIn(doc.ids, topics.kind)
      BY <1>0, <2>1, <2>2, UnusedFacts DEF Sound, Resolve, PagesIn, ValidIn
    <2>5. Admit("categories", doc)
      BY <1>3 DEF DeleteCategory, doc
    <2>6. QED
      BY <2>2, <2>3, <2>4, <2>5, AdmitStep DEF Acceptable, Resolve
  <1>4. QED
    BY <1>1, <1>2, <1>3

\* A topic that nothing refers to can be given any kind or none.
LEMMA Retopic ==
    ASSUME IInv, NEW t \in Topics, NEW kind \in Maybe(Kinds), \A p \in links.pairs : p[2] # t, t \notin UsedTopics
    PROVE  LET k == [topics.kind EXCEPT ![t] = kind] IN Resolve(categories.ids, k, links.pairs)
  <1> DEFINE k == [topics.kind EXCEPT ![t] = kind]
  <1>0. TypeOK /\ Sound /\ topics.kind \in [Topics -> Maybe(Kinds)]
    BY DEF IInv, TypeOK
  <1>1. \A u \in Topics \ {t} : k[u] = topics.kind[u]
    BY <1>0
  <1> HIDE DEF k
  <1>2. LinksIn(categories.ids, k, links.pairs)
    BY <1>0, <1>1 DEF Sound, Resolve, LinksIn, FitsIn
  <1>3. ASSUME NEW i \in Id \ strays
        PROVE  /\ catalog[i] # None => ValidIn(categories.ids, k, catalog[i])
               /\ archive[i] # None => ValidIn(categories.ids, k, archive[i].refs)
    BY <1>0, <1>1, UnusedFacts DEF Sound, Resolve, PagesIn, ValidIn, FitsIn
  <1>4. QED
    BY <1>2, <1>3 DEF Resolve, PagesIn, k

LEMMA ChangeTopics ==
    ASSUME IInv, NEW t \in Topics,
           DeleteTopic(t) \/ \E kind \in Kinds : CreateTopic(t, kind) \/ UpdateTopic(t, kind)
    PROVE  IInv'
  <1>0. TypeOK /\ Sound /\ topics \in TopicFiles(edits + 1) /\ None \notin Kinds
    BY TaxonomyAssumption DEF IInv, WellFormed
  <1>1. PICK kind \in Maybe(Kinds) :
          /\ Admit("topics", [topics EXCEPT !.kind[t] = kind])
          /\ \/ kind = None /\ DeleteTopic(t)
             \/ kind \in Kinds /\ (CreateTopic(t, kind) \/ UpdateTopic(t, kind))
    BY <1>0 DEF DeleteTopic, CreateTopic, UpdateTopic, Maybe
  <1> DEFINE doc == [topics EXCEPT !.kind[t] = kind]
             k == [topics.kind EXCEPT ![t] = kind]
  <1>2. k \in [Topics -> Maybe(Kinds)] /\ \E u \in Topics : k[u] # None
    <2>1. PICK u \in Topics : topics.kind[u] # None
      BY <1>0 DEF TopicFiles
    <2>2. CASE kind # None
      BY <1>0, <2>2 DEF TopicFiles
    <2>3. CASE kind = None
      <3>1. t \in KnownTopics /\ KnownTopics # {t}
        BY <1>0, <1>1, <2>3 DEF DeleteTopic
      <3>2. PICK v \in Topics \ {t} : topics.kind[v] # None
        BY <3>1 DEF KnownTopics
      <3>3. QED
        BY <1>0, <3>2 DEF TopicFiles
    <2>4. QED
      BY <2>2, <2>3
  <1>3. doc \in TopicFiles(edits + 1) /\ doc.kind = k
    BY <1>0, <1>2 DEF TopicFiles
  <1>4. Resolve(categories.ids, k, links.pairs)
    <2>1. CASE kind = topics.kind[t]
      <3>1. k = topics.kind
        BY <1>0, <2>1 DEF TopicFiles
      <3>2. QED
        BY <1>0, <3>1 DEF Sound
    <2>2. CASE t \notin UsedTopics /\ \A p \in links.pairs : p[2] # t
      BY <2>2, Retopic
    <2>3. CASE t \notin KnownTopics
      <3>1. \A u \in Topics : FitsIn(topics.kind, u, t) => FALSE
        BY <2>3 DEF FitsIn, KnownTopics
      <3>2. \A u \in Topics \ {t} : k[u] = topics.kind[u]
        BY <1>0 DEF TopicFiles
      <3> HIDE DEF k
      <3>3. \A c, u : FitsIn(topics.kind, c, u) => FitsIn(k, c, u)
        BY <2>3, <3>2 DEF FitsIn, KnownTopics
      <3>4. QED
        BY <1>0, <3>3 DEF Sound, Resolve, LinksIn, PagesIn, ValidIn
    <2>4. QED
      BY <1>0, <1>1, <2>1, <2>2, <2>3 DEF DeleteTopic, CreateTopic, UpdateTopic
  <1> HIDE DEF doc, k
  <1>5. Admit("topics", doc)
    BY <1>1 DEF doc
  <1>6. QED
    BY <1>3, <1>4, <1>5, AdmitStep DEF Acceptable

LEMMA ChangeLinks ==
    ASSUME IInv, NEW c \in Categories, NEW t \in Topics, Link(c, t) \/ Unlink(c, t)
    PROVE  IInv'
  <1>0. TypeOK /\ Sound /\ links \in LinkFiles(edits + 1)
    BY DEF IInv, WellFormed
  <1>1. CASE Link(c, t)
    <2> DEFINE doc == [links EXCEPT !.pairs = @ \cup {<<c, t>>}]
    <2>1. doc \in LinkFiles(edits + 1) /\ doc.pairs = links.pairs \cup {<<c, t>>}
      BY <1>0 DEF LinkFiles
    <2> HIDE DEF doc
    <2>2. c \in categories.ids /\ FitsIn(topics.kind, c, t) /\ Admit("links", doc)
      BY <1>1 DEF Link, KnownTopics, Fits, FitsIn, doc
    <2>3. Resolve(categories.ids, topics.kind, doc.pairs)
      BY <1>0, <2>1, <2>2 DEF Sound, Resolve, LinksIn
    <2>4. QED
      BY <2>1, <2>2, <2>3, AdmitStep DEF Acceptable
  <1>2. CASE Unlink(c, t)
    <2> DEFINE doc == [links EXCEPT !.pairs = @ \ {<<c, t>>}]
    <2>1. doc \in LinkFiles(edits + 1) /\ doc.pairs = links.pairs \ {<<c, t>>}
      BY <1>0 DEF LinkFiles
    <2> HIDE DEF doc
    <2>2. Admit("links", doc)
      BY <1>2 DEF Unlink, doc
    <2>3. Resolve(categories.ids, topics.kind, doc.pairs)
      BY <1>0, <2>1 DEF Sound, Resolve, LinksIn
    <2>4. QED
      BY <2>1, <2>2, <2>3, AdmitStep DEF Acceptable
  <1>3. QED
    BY <1>1, <1>2
LEMMA ChangeRegistryStep ==
    ASSUME IInv, ChangeRegistry
    PROVE  IInv'
  BY ChangeCategories, ChangeTopics, ChangeLinks DEF ChangeRegistry

-----------------------------------------------------------------------------
(* What other steps leave alone                                               *)

\* Pages may change where they are valid; the rest of what is sound stays.
LEMMA PagesStep ==
    ASSUME IInv, UNCHANGED <<registries, edits>>, strays \subseteq strays', UNCHANGED <<handler, lock>>,
           \A i \in Id \ strays' : catalog'[i] = catalog[i] /\ archive'[i] = archive[i]
    PROVE  WellFormed' /\ Sound' /\ Pending'
  <1>1. WellFormed /\ Sound /\ Pending
    BY DEF IInv
  <1>2. WellFormed'
    BY <1>1 DEF WellFormed, registries
  <1>3. \A ids, kind : PagesIn(ids, kind) => PagesIn(ids, kind)'
    BY DEF PagesIn
  <1>4. Sound'
    BY <1>1, <1>3 DEF Sound, Resolve, LinksIn, registries
  <1>5. Pending'
    BY <1>1, <1>3 DEF Pending, Resolve, LinksIn, registries
  <1>6. QED
    BY <1>2, <1>4, <1>5

\* The same when the lock is released.
LEMMA ReleaseStep ==
    ASSUME IInv, UNCHANGED <<registries, edits>>, strays \subseteq strays',
           \A i \in Id \ strays' : catalog'[i] = catalog[i] /\ archive'[i] = archive[i],
           handler' = NoHandler, lock' # "handler"
    PROVE  WellFormed' /\ Sound' /\ Pending'
  <1>1. WellFormed /\ Sound
    BY DEF IInv
  <1>2. WellFormed'
    BY <1>1 DEF WellFormed, registries
  <1>3. Sound'
    BY <1>1 DEF Sound, Resolve, LinksIn, PagesIn, registries
  <1>4. Pending'
    BY DEF Pending, NoHandler
  <1>5. QED
    BY <1>2, <1>3, <1>4

\* A job that nothing touches goes on as it was.
LEMMA RunningStep ==
    ASSUME IInv, UNCHANGED <<registries, lock, job, container, up>>
    PROVE  Running' /\ JobSeesItsTaxonomy'
  BY DEF IInv, Running, JobSeesItsTaxonomy, ActiveJob, Mine, Version, registries

\* A lock that nobody, or only a request, has had is no job's.
LEMMA NotRunningStep ==
    ASSUME IInv, Mine' = {}, lock' # "job", ~up' => lock' = "free", job' \in Queue,
           ActiveJob' => job'.wants \in Wanted
    PROVE  Running' /\ JobSeesItsTaxonomy'
  BY DEF Running, JobSeesItsTaxonomy

-----------------------------------------------------------------------------
(* The other steps                                                            *)

LEMMA StageStep ==
    ASSUME IInv, Stage
    PROVE  IInv'
  <1>1. /\ UNCHANGED <<registries, catalog, archive, lock, handler, asked, job, container, strays, up, edits>>
        /\ staged' = staged \cup {handler.registry} /\ handler.registry # "none"
    BY DEF Stage, pages, publication
  <1>2. TypeOK'
    BY <1>1 DEF IInv, TypeOK, registries
  <1>3. QED
    BY <1>1, <1>2, PagesStep, RunningStep DEF IInv

LEMMA ReplaceStep ==
    ASSUME IInv, Replace
    PROVE  IInv'
  <1>0. TypeOK /\ WellFormed /\ Sound /\ Pending /\ Running
    BY DEF IInv
  <1>1. /\ UNCHANGED <<catalog, archive, asked, job, container, strays, up, edits>>
        /\ staged' \subseteq staged /\ lock' = "free" /\ handler' = NoHandler
        /\ handler.registry \in {"categories", "topics", "links"} /\ handler.registry \in staged
        /\ categories' = IF handler.registry = "categories" THEN handler.doc ELSE categories
        /\ topics' = IF handler.registry = "topics" THEN handler.doc ELSE topics
        /\ links' = IF handler.registry = "links" THEN handler.doc ELSE links
    BY <1>0 DEF Replace, TypeOK, pages, publication
  <1>2. lock = "handler" /\ Mine = {}
    BY <1>0, <1>1 DEF Pending, NoHandler, Running
  <1>3. WellFormed' /\ edits \in 0 .. MaxEdits /\ MaxEdits \in Nat
    BY <1>0, <1>1, TaxonomyAssumption DEF WellFormed, Pending, TypeOK
  <1>4. Sound'
    <2>1. Resolve(categories'.ids, topics'.kind, links'.pairs)
      BY <1>0, <1>1 DEF Sound, Pending
    <2>2. QED
      BY <1>1, <2>1 DEF Sound, Resolve, LinksIn, PagesIn
  <1>5. TypeOK'
    <2>1. /\ categories' \in CategoryFiles(edits + 1) /\ topics' \in TopicFiles(edits + 1)
          /\ links' \in LinkFiles(edits + 1)
      BY <1>1, <1>3 DEF WellFormed
    <2>2. /\ categories'.revision \in Revisions
          /\ Core \subseteq categories'.ids /\ categories'.ids \subseteq Categories
          /\ topics'.revision \in Revisions
          /\ topics'.kind \in [Topics -> Maybe(Kinds)] /\ \E t \in Topics : topics'.kind[t] # None
          /\ links'.revision \in Revisions /\ links'.pairs \subseteq Categories \X Topics
      BY <1>3, <2>1 DEF CategoryFiles, TopicFiles, LinkFiles, Revisions
    <2>3. handler'.registry = "none"
      BY <1>1 DEF NoHandler
    <2>4. QED
      BY <1>0, <1>1, <2>2, <2>3 DEF TypeOK
  <1>6. Pending'
    BY <1>1 DEF Pending, NoHandler
  <1>7. Running' /\ JobSeesItsTaxonomy'
    BY <1>0, <1>1, <1>2, NotRunningStep DEF Running, Mine, ActiveJob
  <1>8. QED
    BY <1>3, <1>4, <1>5, <1>6, <1>7 DEF IInv

LEMMA WriteFailsStep ==
    ASSUME IInv, WriteFails
    PROVE  IInv'
  <1>1. /\ UNCHANGED <<registries, staged, catalog, archive, asked, job, container, strays, up, edits>>
        /\ lock' = "free" /\ handler' = NoHandler /\ handler # NoHandler
    BY DEF WriteFails, pages, publication
  <1>2. Mine = {}
    BY <1>1 DEF IInv, Pending, Running
  <1>3. Running' /\ JobSeesItsTaxonomy'
    BY <1>1, <1>2, NotRunningStep DEF IInv, Running, Mine, ActiveJob
  <1>4. TypeOK'
    BY <1>1 DEF IInv, TypeOK, registries, NoHandler
  <1>5. QED
    BY <1>1, <1>3, <1>4, ReleaseStep DEF IInv

\* A change of the catalogue finds no request and no job at work, and writes what is valid.
LEMMA ChangeCatalogStep ==
    ASSUME IInv, NEW i \in Id,
           Archive(i) \/ Restore(i) \/ Delete(i) \/ \E refs \in References : Edit(i, refs)
    PROVE  IInv'
  <1> DEFINE Archived == [refs : References, state : {"prepared", "archived", "restored", "deleted"}]
  <1>0. TypeOK /\ WellFormed /\ Sound /\ Running /\ MaxEdits \in Nat
    BY TaxonomyAssumption DEF IInv
  <1>1. /\ UNCHANGED <<categories, topics, links, staged, lock, handler, asked, job, container, strays, up>>
        /\ lock = "free" /\ edits' = edits + 1 /\ edits < MaxEdits
    BY DEF Archive, Restore, Delete, Edit, Changing, CountEdit, registries, publication
  <1>2. /\ handler = NoHandler /\ Mine = {}
    BY <1>1, LockFree
  <1>3. /\ catalog' \in [Id -> Maybe(References)] /\ archive' \in [Id -> Maybe(Archived)]
        /\ \A j \in Id \ {i} : catalog'[j] = catalog[j] /\ archive'[j] = archive[j]
        /\ catalog'[i] = None \/ catalog'[i] = catalog[i] \/ ValidIn(categories.ids, topics.kind, catalog'[i])
        /\ \/ archive'[i] = archive[i]
           \/ archive[i] # None /\ archive'[i].refs = archive[i].refs
           \/ ValidIn(categories.ids, topics.kind, archive'[i].refs)
    <2>1. CASE \E refs \in References : Edit(i, refs)
      <3>1. PICK refs \in References : /\ catalog' = [catalog EXCEPT ![i] = refs] /\ archive' = archive
                                      /\ ValidIn(categories.ids, topics.kind, refs)
        BY <2>1, ValidFacts DEF Edit
      <3>2. QED
        BY <1>0, <3>1 DEF TypeOK, Maybe
    <2>2. CASE Archive(i)
      <3>1. /\ catalog[i] # None /\ ValidIn(categories.ids, topics.kind, catalog[i])
            /\ catalog' \in {catalog, [catalog EXCEPT ![i] = None]}
        BY <2>2, ValidFacts DEF Archive
      <3>2. PICK state \in {"prepared", "archived"} :
              archive' = [archive EXCEPT ![i] = [refs |-> catalog[i], state |-> state]]
        BY <2>2 DEF Archive
      <3>3. catalog[i] \in References
        BY <1>0, <3>1 DEF TypeOK, Maybe
      <3>4. QED
        BY <1>0, <3>1, <3>2, <3>3 DEF TypeOK, Maybe
    <2>3. CASE Restore(i)
      <3>1. /\ catalog' = [catalog EXCEPT ![i] = archive[i].refs]
            /\ ValidIn(categories.ids, topics.kind, archive[i].refs)
            /\ archive[i] # None
            /\ archive' \in {archive, [archive EXCEPT ![i].state = "restored"]}
        BY <2>3, ValidFacts DEF Restore
      <3>2. archive[i] \in Archived
        BY <1>0, <3>1 DEF TypeOK, Maybe
      <3>3. [archive[i] EXCEPT !.state = "restored"] \in Archived /\
            [archive[i] EXCEPT !.state = "restored"].refs = archive[i].refs
        BY <3>2
      <3>4. QED
        BY <1>0, <3>1, <3>2, <3>3 DEF TypeOK, Maybe
    <2>4. CASE Delete(i)
      <3>1. catalog' = catalog /\ archive[i] # None /\ archive' = [archive EXCEPT ![i].state = "deleted"]
        BY <2>4 DEF Delete
      <3>2. archive[i] \in Archived
        BY <1>0, <3>1 DEF TypeOK, Maybe
      <3>3. [archive[i] EXCEPT !.state = "deleted"] \in Archived /\
            [archive[i] EXCEPT !.state = "deleted"].refs = archive[i].refs
        BY <3>2
      <3>4. QED
        BY <1>0, <3>1, <3>2, <3>3 DEF TypeOK, Maybe
    <2>5. QED
      BY <2>1, <2>2, <2>3, <2>4
  <1>4. WellFormed'
    BY <1>0, <1>1 DEF WellFormed, TypeOK, CategoryFiles, TopicFiles, LinkFiles
  <1>5. Sound'
    <2>1. LinksIn(categories.ids, topics.kind, links.pairs)
      BY <1>0 DEF Sound, Resolve
    <2>2. ASSUME NEW j \in Id \ strays
          PROVE  /\ catalog'[j] # None => ValidIn(categories.ids, topics.kind, catalog'[j])
                 /\ archive'[j] # None => ValidIn(categories.ids, topics.kind, archive'[j].refs)
      BY <1>0, <1>3 DEF Sound, Resolve, PagesIn
    <2>3. QED
      BY <1>1, <2>1, <2>2 DEF Sound, Resolve, LinksIn, PagesIn
  <1>6. TypeOK'
    <2>1. edits' \in 0 .. MaxEdits
      BY <1>0, <1>1 DEF TypeOK
    <2>2. QED
      BY <1>0, <1>1, <1>3, <2>1 DEF TypeOK
  <1>7. Pending'
    BY <1>1, <1>2 DEF Pending, NoHandler
  <1>8. Running' /\ JobSeesItsTaxonomy'
    BY <1>1, RunningStep DEF registries
  <1>9. QED
    BY <1>4, <1>5, <1>6, <1>7, <1>8 DEF IInv

-----------------------------------------------------------------------------
(* Steps of a job                                                             *)

\* What a request asks for is of the type of what a job wants.
LEMMA AskStep ==
    ASSUME IInv, (\E refs \in References : AskForJob(refs)) \/ RefuseJob
    PROVE  IInv'
  <1>1. /\ UNCHANGED <<registries, staged, catalog, archive, handler, up, edits, lock, job, container, strays>>
    BY DEF AskForJob, RefuseJob, NotPublication, pages
  <1>2. asked' \in Maybe(Wanted)
    BY DEF AskForJob, RefuseJob, Maybe, Wanted, Version, IInv, TypeOK
  <1>3. TypeOK'
    BY <1>1, <1>2 DEF IInv, TypeOK, registries
  <1>4. QED
    BY <1>1, <1>3, PagesStep, RunningStep DEF IInv

LEMMA QueueStep ==
    ASSUME IInv, QueueJob
    PROVE  IInv'
  <1>0. TypeOK /\ Running /\ MaxJobs \in Nat
    BY TaxonomyAssumption DEF IInv
  <1>1. /\ UNCHANGED <<registries, staged, catalog, archive, handler, up, edits, lock, container, strays>>
        /\ job' = [status |-> "queued", number |-> job.number + 1, wants |-> asked]
        /\ asked' = None /\ asked # None /\ ~ActiveJob /\ job.number < MaxJobs
    BY DEF QueueJob, NotPublication, pages
  <1>2. asked \in Wanted /\ job.number + 1 \in 0 .. MaxJobs
    BY <1>0, <1>1 DEF TypeOK, Maybe
  <1>3. job' \in Queue /\ job'.wants \in Wanted /\ job'.status = "queued"
    BY <1>1, <1>2 DEF Queue, Maybe
  <1>4. lock # "job" /\ Mine = {}
    BY <1>0, <1>1 DEF Running, ActiveJob
  <1>5. TypeOK'
    BY <1>0, <1>1, <1>3 DEF TypeOK, registries, Maybe, Queue
  <1>6. Running' /\ JobSeesItsTaxonomy'
    BY <1>0, <1>1, <1>3, <1>4, NotRunningStep DEF Running, Mine
  <1>7. QED
    BY <1>1, <1>5, <1>6, PagesStep DEF IInv

\* Under the lock the job compares and checks again all that its request looked at.
LEMMA StartStep ==
    ASSUME IInv, StartJob
    PROVE  IInv'
  <1>0. TypeOK /\ WellFormed /\ Sound /\ Running
    BY DEF IInv
  <1>1. /\ UNCHANGED <<registries, staged, catalog, archive, handler, up, edits, asked, container, strays>>
        /\ lock = "free" /\ lock' = "job" /\ up /\ job.status = "queued"
        /\ job' = [job EXCEPT !.status = "running"]
        /\ job.wants.version = Version /\ job.wants.links = links.revision
        /\ ValidIn(categories.ids, topics.kind, job.wants.refs)
    BY ValidFacts DEF StartJob, NotPublication, pages
  <1>2. job \in Queue /\ job.wants \in Wanted
    BY <1>0, <1>1 DEF Running, ActiveJob
  <1>3. job' \in Queue /\ job'.wants = job.wants /\ job'.status = "running" /\ job'.number = job.number
    BY <1>1, <1>2 DEF Queue
  <1>4. Mine = {} /\ handler = NoHandler
    BY <1>1, LockFree
  <1>5. TypeOK'
    BY <1>0, <1>1, <1>2, <1>3 DEF TypeOK, registries, Queue
  <1>6. Running'
    BY <1>0, <1>1, <1>2, <1>3, <1>4 DEF Running, ActiveJob, Mine, registries
  <1>7. JobSeesItsTaxonomy'
    BY <1>1, <1>3 DEF JobSeesItsTaxonomy, Version, registries
  <1>8. QED
    BY <1>1, <1>4, <1>5, <1>6, <1>7, ReleaseStep DEF IInv

LEMMA ImportStep ==
    ASSUME IInv, NEW i \in Id, Import(i)
    PROVE  IInv'
  <1>0. TypeOK /\ Running /\ JobSeesItsTaxonomy
    BY DEF IInv
  <1>1. /\ UNCHANGED <<registries, staged, catalog, archive, handler, up, edits, lock, asked, job, strays>>
        /\ lock = "job" /\ Mine = {}
        /\ container' = [container EXCEPT ![i] = [refs |-> job.wants.refs, waited |-> TRUE]]
    BY DEF Import, NotPublication, pages
  <1>2. job.wants.refs \in References /\ ValidIn(categories.ids, topics.kind, job.wants.refs)
    BY <1>0, <1>1 DEF Running, ActiveJob, Wanted
  <1>3. container' \in [Id -> Maybe([refs : References, waited : BOOLEAN])]
    BY <1>0, <1>1, <1>2 DEF TypeOK, Maybe
  <1>4. Mine' \subseteq {i} /\ container'[i].refs = job.wants.refs
    BY <1>0, <1>1 DEF Mine, TypeOK
  <1>5. TypeOK'
    BY <1>0, <1>1, <1>3 DEF TypeOK, registries
  <1>6. Running'
    BY <1>0, <1>1, <1>2, <1>4 DEF Running, ActiveJob, registries
  <1>7. JobSeesItsTaxonomy'
    BY <1>0, <1>1 DEF JobSeesItsTaxonomy, Version, registries
  <1>8. QED
    BY <1>1, <1>5, <1>6, <1>7, PagesStep DEF IInv

\* Removing a container leaves the others to whom they belong to.
LEMMA ContainerEnds ==
    ASSUME IInv, NEW i \in Id, container[i] # None, container' = [container EXCEPT ![i] = None]
    PROVE  /\ container' \in [Id -> Maybe([refs : References, waited : BOOLEAN])]
           /\ Mine' = Mine \ {i}
           /\ \A j \in Mine' : container'[j] = container[j]
  BY DEF IInv, TypeOK, Mine, Maybe

LEMMA ContainerFailsStep ==
    ASSUME IInv, NEW i \in Id, ContainerFails(i)
    PROVE  IInv'
  <1>0. TypeOK /\ Running /\ JobSeesItsTaxonomy
    BY DEF IInv
  <1>1. /\ UNCHANGED <<registries, staged, catalog, archive, handler, up, edits, lock, asked, job, strays>>
        /\ container[i] # None /\ i \notin Mine /\ container' = [container EXCEPT ![i] = None]
    BY DEF ContainerFails, NotPublication, pages
  <1>2. TypeOK'
    BY <1>0, <1>1, ContainerEnds DEF TypeOK, registries
  <1>3. Running'
    BY <1>0, <1>1, ContainerEnds DEF Running, ActiveJob, registries
  <1>4. JobSeesItsTaxonomy'
    BY <1>0, <1>1 DEF JobSeesItsTaxonomy, Version, registries
  <1>5. QED
    BY <1>1, <1>2, <1>3, <1>4, PagesStep DEF IInv

\* A job that settles leaves nothing in the queue.
LEMMA SettleStep ==
    ASSUME IInv, NEW how \in {"failed", "published"}, SettleJob(how)
    PROVE  job' \in Queue /\ job'.wants = None /\ job'.status = how /\ ~ActiveJob'
  BY DEF IInv, Running, SettleJob, Queue, Maybe, ActiveJob

LEMMA ContainerPublishesStep ==
    ASSUME IInv, NEW i \in Id, ContainerPublishes(i)
    PROVE  IInv'
  <1>0. TypeOK /\ WellFormed /\ Sound /\ Pending /\ Running /\ JobSeesItsTaxonomy
    BY DEF IInv
  <1>1. /\ UNCHANGED <<registries, staged, archive, handler, asked, up, edits>>
        /\ container[i] # None /\ container' = [container EXCEPT ![i] = None]
        /\ catalog' = [catalog EXCEPT ![i] = container[i].refs]
    BY DEF ContainerPublishes
  <1>2. /\ catalog' \in [Id -> Maybe(References)] /\ catalog'[i] = container[i].refs
        /\ \A j \in Id \ {i} : catalog'[j] = catalog[j]
    BY <1>0, <1>1 DEF TypeOK, Maybe
  <1>3. CASE i \in Mine
    <2>1. lock' = "free" /\ SettleJob("published") /\ UNCHANGED strays
      BY <1>3 DEF ContainerPublishes
    <2>2. lock = "job" /\ handler = NoHandler /\ ValidIn(categories.ids, topics.kind, container[i].refs)
      BY <1>0, <1>3 DEF Running, Pending
    <2>3. WellFormed'
      BY <1>0, <1>1 DEF WellFormed, registries
    <2>4. Sound'
      BY <1>0, <1>1, <1>2, <2>1, <2>2 DEF Sound, Resolve, LinksIn, PagesIn, registries
    <2>5. Pending'
      BY <1>1, <2>1, <2>2 DEF Pending, NoHandler
    <2>6. Mine' = {}
      <3>1. \A j \in Mine : j = i
        BY <1>0, <1>3 DEF TypeOK, Running
      <3>2. QED
        BY <1>1, <3>1, ContainerEnds
    <2>7. Running' /\ JobSeesItsTaxonomy'
      BY <1>0, <1>1, <2>1, <2>6, NotRunningStep, SettleStep DEF Running
    <2>8. job' \in Queue
      BY <2>1, SettleStep
    <2>9. TypeOK'
      BY <1>0, <1>1, <1>2, <2>1, <2>8, ContainerEnds DEF TypeOK, registries, Queue
    <2>10. QED
      BY <2>3, <2>4, <2>5, <2>7, <2>9 DEF IInv
  <1>4. CASE i \notin Mine
    <2>1. strays' = strays \cup {i} /\ UNCHANGED <<lock, job>>
      BY <1>4 DEF ContainerPublishes
    <2>2. TypeOK'
      BY <1>0, <1>1, <1>2, <2>1, ContainerEnds DEF TypeOK, registries
    <2>3. Running'
      BY <1>0, <1>1, <1>4, <2>1, ContainerEnds DEF Running, ActiveJob, registries
    <2>4. JobSeesItsTaxonomy'
      BY <1>0, <1>1, <2>1 DEF JobSeesItsTaxonomy, Version, registries
    <2>5. \A j \in Id \ strays' : catalog'[j] = catalog[j] /\ archive'[j] = archive[j]
      BY <1>1, <1>2, <2>1
    <2>6. QED
      BY <1>1, <2>1, <2>2, <2>3, <2>4, <2>5, PagesStep DEF IInv
  <1>5. QED
    BY <1>3, <1>4

\* Nobody waits for a container that was abandoned.
LEMMA AbandonedFacts ==
    ASSUME IInv, container' = Abandoned
    PROVE  container' \in [Id -> Maybe([refs : References, waited : BOOLEAN])] /\ Mine' = {}
  <1>1. ASSUME NEW i \in Id
        PROVE  /\ Abandoned[i] \in Maybe([refs : References, waited : BOOLEAN])
               /\ Abandoned[i] # None => ~Abandoned[i].waited
    <2>1. CASE i \in Mine
      <3>1. container[i] \in [refs : References, waited : BOOLEAN]
        BY <2>1 DEF Mine, IInv, TypeOK, Maybe
      <3>2. QED
        BY <2>1, <3>1 DEF Abandoned, Maybe
    <2>2. CASE i \notin Mine
      BY <2>2 DEF Abandoned, Mine, IInv, TypeOK, Maybe
    <2>3. QED
      BY <2>1, <2>2
  <1>2. Abandoned \in [Id -> Maybe([refs : References, waited : BOOLEAN])]
    BY <1>1 DEF Abandoned
  <1>3. QED
    BY <1>1, <1>2 DEF Mine

LEMMA JobFailsStep ==
    ASSUME IInv, JobFails
    PROVE  IInv'
  <1>0. TypeOK /\ Pending /\ Running
    BY DEF IInv
  <1>1. /\ UNCHANGED <<registries, staged, catalog, archive, handler, up, edits, asked, strays>>
        /\ up /\ SettleJob("failed") /\ container' = Abandoned
        /\ lock' = IF lock = "job" THEN "free" ELSE lock
    BY DEF JobFails, NotPublication, pages
  <1>2. job' \in Queue
    BY <1>1, SettleStep
  <1>3. TypeOK'
    BY <1>0, <1>1, <1>2, AbandonedFacts DEF TypeOK, registries, Queue
  <1>4. Running' /\ JobSeesItsTaxonomy'
    BY <1>1, AbandonedFacts, SettleStep, NotRunningStep
  <1>5. CASE lock = "job"
    BY <1>0, <1>1, <1>3, <1>4, <1>5, ReleaseStep DEF IInv, Pending
  <1>6. CASE lock # "job"
    BY <1>1, <1>3, <1>4, <1>6, PagesStep DEF IInv
  <1>7. QED
    BY <1>5, <1>6

-----------------------------------------------------------------------------
(* The service                                                                *)

LEMMA CrashStep ==
    ASSUME IInv, Crash
    PROVE  IInv'
  <1>1. /\ UNCHANGED <<registries, staged, catalog, archive, job, strays, edits>>
        /\ lock' = "free" /\ handler' = NoHandler /\ asked' = None /\ container' = Abandoned
        /\ up' = FALSE
    BY DEF Crash, pages
  <1>2. TypeOK'
    BY <1>1, AbandonedFacts DEF IInv, TypeOK, registries, NoHandler, Maybe
  <1>3. Running' /\ JobSeesItsTaxonomy'
    BY <1>1, AbandonedFacts, NotRunningStep DEF IInv, Running, ActiveJob
  <1>4. QED
    BY <1>1, <1>2, <1>3, ReleaseStep DEF IInv

LEMMA RestartStep ==
    ASSUME IInv, Restart
    PROVE  IInv'
  <1>1. /\ UNCHANGED <<registries, staged, catalog, archive, lock, handler, asked, container, strays, edits>>
        /\ ~up /\ up' = TRUE /\ (SettleJob("failed") \/ UNCHANGED job)
    BY DEF Restart, pages
  <1>2. lock = "free" /\ Mine = {} /\ job \in Queue
    BY <1>1 DEF IInv, Running
  <1>3. job' \in Queue /\ (ActiveJob' => job'.wants \in Wanted)
    BY <1>1, <1>2, SettleStep DEF IInv, Running, ActiveJob
  <1>4. TypeOK'
    BY <1>1, <1>3 DEF IInv, TypeOK, registries, Queue
  <1>5. Running' /\ JobSeesItsTaxonomy'
    BY <1>1, <1>2, <1>3, NotRunningStep DEF Mine
  <1>6. QED
    BY <1>1, <1>4, <1>5, PagesStep DEF IInv

-----------------------------------------------------------------------------
(* The invariant                                                              *)

LEMMA InvInit == Init => IInv
  <1> SUFFICES ASSUME Init PROVE IInv
    OBVIOUS
  <1> USE TaxonomyAssumption, SeedAssumption
  <1>1. /\ categories = [revision |-> 1, ids |-> InitCategories]
        /\ topics = [revision |-> 1, kind |-> InitTopics] /\ links = [revision |-> 1, pairs |-> InitLinks]
        /\ staged = {} /\ catalog = InitCatalog /\ archive = [i \in Id |-> None]
        /\ lock = "free" /\ handler = NoHandler /\ asked = None /\ job = NoJob
        /\ container = [i \in Id |-> None] /\ strays = {} /\ up = TRUE /\ edits = 0
    BY DEF Init
  <1>2. job \in Queue /\ ~ActiveJob
    BY <1>1 DEF Queue, NoJob, Maybe, ActiveJob
  <1>3. TypeOK
    BY <1>1, <1>2 DEF TypeOK, Revisions, Maybe, NoHandler, Queue
  <1>4. WellFormed
    BY <1>1 DEF WellFormed, CategoryFiles, TopicFiles, LinkFiles
  <1>5. LinksIn(InitCategories, InitTopics, InitLinks)
    BY DEF LinksIn, FitsIn, SeedFits
  <1>6. \A i \in Id : InitCatalog[i] # None => ValidIn(InitCategories, InitTopics, InitCatalog[i])
    BY DEF ValidIn, FitsIn, SeedFits, References, Maybe
  <1>7. Sound
    BY <1>1, <1>5, <1>6 DEF Sound, Resolve, PagesIn
  <1>8. Pending
    BY <1>1 DEF Pending, NoHandler
  <1>9. Running /\ JobSeesItsTaxonomy
    BY <1>1, <1>2 DEF Running, JobSeesItsTaxonomy, Mine
  <1>10. QED
    BY <1>3, <1>4, <1>7, <1>8, <1>9 DEF IInv

LEMMA InvStep == IInv /\ [Next]_vars => IInv'
  <1> SUFFICES ASSUME IInv, [Next]_vars PROVE IInv'
    OBVIOUS
  <1>1. CASE UNCHANGED vars
    <2>1. /\ UNCHANGED <<registries, staged, catalog, archive, lock, handler, asked, job, container, strays>>
          /\ UNCHANGED <<up, edits>>
      BY <1>1 DEF vars, pages, publication
    <2>2. TypeOK'
      BY <2>1 DEF IInv, TypeOK, registries
    <2>3. QED
      BY <2>1, <2>2, PagesStep, RunningStep DEF IInv
  <1>2. CASE ChangeRegistry
    BY <1>2, ChangeRegistryStep
  <1>3. CASE Stage \/ Replace \/ WriteFails
    BY <1>3, StageStep, ReplaceStep, WriteFailsStep
  <1>4. CASE ChangeCatalog
    BY <1>4, ChangeCatalogStep DEF ChangeCatalog
  <1>5. CASE JobStep
    BY <1>5, AskStep, QueueStep, StartStep, JobFailsStep, ImportStep, ContainerPublishesStep,
       ContainerFailsStep DEF JobStep
  <1>6. CASE Crash \/ Restart
    BY <1>6, CrashStep, RestartStep
  <1>7. QED
    BY <1>1, <1>2, <1>3, <1>4, <1>5, <1>6 DEF Next

LEMMA Invariance == Spec => []IInv
  BY InvInit, InvStep, PTL DEF Spec

\* The service only ever writes registries that it accepts itself when it reads them again: the
\* protected categories and a topic at least are always there.
THEOREM TypeCorrect == Spec => []TypeOK
  <1>1. IInv => TypeOK
    BY DEF IInv
  <1>2. QED
    BY <1>1, Invariance, PTL

\* What a page, an archive record or a link refers to exists and fits, though the check and the
\* write of a registry are two steps and a job publishes with what it was asked for earlier.
THEOREM AllReferencesResolve == Spec => []ReferencesResolve
  <1>1. IInv => ReferencesResolve
    BY SoundResolves DEF IInv
  <1>2. QED
    BY <1>1, Invariance, PTL

\* The versions compared under the lock stay those of the registries until the lock is released.
THEOREM JobAlwaysSeesItsTaxonomy == Spec => []JobSeesItsTaxonomy
  <1>1. IInv => JobSeesItsTaxonomy
    BY DEF IInv
  <1>2. QED
    BY <1>1, Invariance, PTL
=============================================================================
