\* Two protected categories and one that is not, two topics, one page and one more from a
\* job; two edits of each registry, with failing writes and the service killed anywhere.
SPECIFICATION Spec
CONSTANTS
    None = None
    jahreszeiten = jahreszeiten
    essen = essen
    ostern = ostern
    zoo = zoo
    i1 = i1
    i2 = i2
    Categories = {jahreszeiten, essen}
    Core = {jahreszeiten}
    Jahreszeiten = jahreszeiten
    Topics = {ostern, zoo}
    Id = {i1, i2}
    InitCategories = {jahreszeiten, essen}
    InitTopics <- OneTopic
    InitLinks <- OneLink
    InitCatalog <- OnePage
    MaxEdits = 4
    MaxJobs = 1
    Faults = {"crash", "write_error"}
CHECK_DEADLOCK FALSE
INVARIANTS
    TypeOK
    ReferencesResolve
    JobSeesItsTaxonomy
