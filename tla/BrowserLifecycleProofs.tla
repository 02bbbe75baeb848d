----------------------- MODULE BrowserLifecycleProofs -----------------------
(* Theorems about the browser lifecycle supervisor, for every set of pids and *)
(* every number of processes, the wrapper and the cleaner killed anywhere.    *)
EXTENDS BrowserLifecycle, WellFoundedInduction, TLAPS

-----------------------------------------------------------------------------
(* The inductive invariant                                                    *)

\* The wrapper is a stranger in a session of its own as long as its program runs.
WrapperFacts ==
    /\ WrapperRuns <=> actor["wrapper"].at \notin {"done", "gone"}
    /\ WrapperRuns => /\ table[Wrapper].parent = 0 /\ table[Wrapper].session = Wrapper
                      /\ ~table[Wrapper].ours /\ ~table[Wrapper].dead

\* A process is younger than its parent, which lives, and comes from the browser with it; the
\* orphans of the browser's processes stay below a wrapper that runs.
Kinship ==
    \A q \in Present :
       /\ table[q].start <= starts
       /\ table[q].parent # 0 =>
             /\ table[q].parent \in Alive /\ table[table[q].parent].start < table[q].start
             /\ table[q].ours <=> table[table[q].parent].ours \/ (table[q].parent = Wrapper /\ WrapperRuns)
       /\ table[q].ours /\ WrapperRuns => table[q].parent # 0

\* Nobody shares a session with a process of another origin.
Sessions ==
    \A p, q \in Present : table[p].session = table[q].session => table[p].ours = table[q].ours

\* Whoever is found under this identity, now or later, comes from the browser.
Trusted(id) ==
    /\ id[1] # Wrapper /\ id[2] <= starts
    /\ Is(id[1], id) => table[id[1]].ours

LeaderFacts ==
    /\ leader = None <=> actor["wrapper"].at = "idle"
    /\ leader # None => Trusted(leader) /\ (Is(leader[1], leader) => table[leader[1]].session = leader[1])

\* Whoever an actor knows, a record names or a signal is meant for comes from the browser.
Records ==
    /\ \A id \in record : Trusted(id)
    /\ \A a \in Actors : \A id \in actor[a].members \cup actor[a].todo : Trusted(id)
    /\ record # {} \/ ~At("cleaner", "idle") => leader # None

\* What a listing is good for until it is read: whoever the actor's copy of the record names is in
\* it while it is there; the wrapper's has itself and, as long as anything of the run is there, a
\* child of its own, which nobody else reaps.
Listing(a) ==
    actor[a].listed # {} =>
       /\ actor[a].at \in Looking
       /\ \A id \in actor[a].members : Is(id[1], id) => id[1] \in actor[a].listed
       /\ a = "wrapper" => /\ Wrapper \in actor[a].listed
                           /\ (\E p \in Present : table[p].ours) =>
                                 \E c \in actor[a].listed \cap Present : table[c].parent = Wrapper

Listings == \A a \in Actors : Listing(a)

IInv ==
    /\ TypeOK /\ WrapperFacts /\ Kinship /\ Sessions /\ LeaderFacts /\ Records /\ Listings
    /\ OnlyTheRunIsSignalled

-----------------------------------------------------------------------------
(* Lemmas                                                                     *)

LEMMA Smallest ==
    ASSUME NEW S \in SUBSET Nat, S # {}
    PROVE  \E m \in S : \A n \in S : m <= n
  <1>1. PICK R : (\A x, y \in Nat : <<y, x>> \in R <=> y < x) /\ IsWellFoundedOn(R, Nat)
    <2> DEFINE Less == OpToRel(<, Nat)
    <2>1. \A x, y \in Nat : <<y, x>> \in Less <=> y < x
      BY DEF OpToRel
    <2>2. IsWellFoundedOn(Less, Nat)
      BY NatLessThanWellFounded
    <2> HIDE DEF Less
    <2>3. QED
      BY <2>1, <2>2
  <1>2. PICK m \in S : \A n \in S : ~(<<n, m>> \in R)
    BY <1>1, WFMin
  <1>3. \A n \in S : ~(n < m)
    BY <1>1, <1>2
  <1>4. QED
    BY <1>3

Tables == [Pid -> Process \cup {None}]

\* What is at hand about a process.
LEMMA ProcessFacts ==
    ASSUME TypeOK, NEW p \in Present
    PROVE  /\ p \in Pid /\ p \in Nat /\ p # 0 /\ table[p] \in Process /\ table[p].start \in Nat
           /\ table[p].parent \in Pid \cup {0} /\ table[p].session \in Pid
           /\ table[p].ours \in BOOLEAN /\ table[p].dead \in BOOLEAN
  BY PidAssumption DEF TypeOK, Present, Process

LEMMA RunsFacts == WrapperRuns <=> Wrapper \in Present /\ table[Wrapper].start = 0
  BY PidAssumption DEF WrapperRuns, Is

\* What a step does to processes: they keep their start, their origin and their session, unless
\* they begin one with their own number, or they are new.
Kept ==
    /\ starts' \in {starts, starts + 1}
    /\ \A q \in Present' :
          \/ /\ q \in Present /\ table'[q].start = table[q].start /\ table'[q].ours = table[q].ours
             /\ table'[q].session = table[q].session \/ table'[q].session = q
          \/ starts' = starts + 1 /\ table'[q].start = starts'

LEMMA TrustStays ==
    ASSUME TypeOK, Kept, NEW id \in Identity, Trusted(id)
    PROVE  Trusted(id)'
  <1>1. starts \in Nat /\ id[2] \in Nat /\ id[2] <= starts
    BY PidAssumption DEF TypeOK, Identity, Trusted
  <1>2. CASE ~Is(id[1], id)'
    BY <1>1, <1>2 DEF Trusted, Kept
  <1>3. CASE Is(id[1], id)'
    <2>1. id[1] \in Present' /\ table'[id[1]].start = id[2]
      BY <1>3 DEF Is
    <2>2. id[1] \in Present /\ table'[id[1]].start = table[id[1]].start /\ table'[id[1]].ours = table[id[1]].ours
      BY <1>1, <2>1 DEF Kept
    <2>3. Is(id[1], id)
      BY <2>1, <2>2 DEF Is
    <2>4. QED
      BY <1>1, <2>2, <2>3 DEF Trusted, Kept
  <1>4. QED
    BY <1>2, <1>3

LEMMA LeaderStays ==
    ASSUME TypeOK, LeaderFacts, Kept, leader # None, UNCHANGED leader
    PROVE  Trusted(leader)' /\ (Is(leader[1], leader) => table[leader[1]].session = leader[1])'
  <1>1. starts \in Nat /\ leader \in Identity /\ leader[2] \in Nat /\ leader[2] <= starts
    BY PidAssumption DEF TypeOK, Identity, Trusted, LeaderFacts
  <1>2. Trusted(leader)'
    BY <1>1, TrustStays DEF LeaderFacts, Trusted, Is
  <1>3. ASSUME Is(leader[1], leader)'
        PROVE  table'[leader[1]].session = leader[1]
    <2>1. leader[1] \in Present' /\ table'[leader[1]].start = leader[2]
      BY <1>3 DEF Is
    <2>2. /\ leader[1] \in Present /\ table[leader[1]].start = leader[2]
          /\ table'[leader[1]].session = table[leader[1]].session \/ table'[leader[1]].session = leader[1]
      BY <1>1, <2>1 DEF Kept
    <2>3. QED
      BY <2>2 DEF LeaderFacts, Is
  <1>4. QED
    BY <1>2, <1>3

\* The wrapper's children stay its children, the dead ones too, as long as it does not reap them.
Children ==
    WrapperRuns' => \A c \in Present : table[c].parent = Wrapper => c \in Present' /\ table'[c].parent = Wrapper

\* The browser's processes come from the browser's.
Offspring == (\E p \in Present' : table'[p].ours) => \E p \in Present : table[p].ours

\* A listing stays good, whoever starts, leaves its session or ends.
LEMMA ListingStays ==
    ASSUME IInv, Kept, WrapperFacts', NEW a \in Actors, actor'[a] = actor[a],
           a = "wrapper" => Children /\ Offspring
    PROVE  Listing(a)'
  <1>1. SUFFICES ASSUME actor[a].listed # {} PROVE Listing(a)'
    BY DEF Listing
  <1>2. TypeOK /\ Listing(a) /\ WrapperFacts /\ starts \in Nat
    BY PidAssumption DEF IInv, Listings, TypeOK
  <1>3. ASSUME NEW id \in actor[a].members, Is(id[1], id)'
        PROVE  id[1] \in actor[a].listed
    <2>1. id \in Identity /\ Trusted(id)
      BY <1>2 DEF IInv, Records, TypeOK
    <2>2. id[1] \in Present' /\ table'[id[1]].start = id[2] /\ id[2] \in Nat /\ id[2] <= starts
      BY <1>3, <2>1 DEF Is, Trusted, Identity
    <2>3. Is(id[1], id)
      BY <1>2, <2>2 DEF Kept, Is
    <2>4. QED
      BY <1>1, <1>2, <2>3 DEF Listing
  <1>4. ASSUME a = "wrapper"
        PROVE  /\ Wrapper \in actor[a].listed
               /\ (\E p \in Present' : table'[p].ours) =>
                     \E c \in actor[a].listed \cap Present' : table'[c].parent = Wrapper
    <2>1. WrapperRuns'
      BY <1>1, <1>2, <1>4 DEF Listing, Looking, WrapperFacts
    <2>2. Children /\ Offspring
      BY <1>4
    <2>3. QED
      BY <1>1, <1>2, <1>4, <2>1, <2>2 DEF Listing, Children, Offspring
  <1>5. QED
    BY <1>1, <1>2, <1>3, <1>4 DEF Listing

\* What the processes of others do leaves what the supervisor knows true.
LEMMA KernelStep ==
    ASSUME IInv, Kept, Children, Offspring, UNCHANGED <<leader, record, actor, hit>>,
           TypeOK', WrapperFacts', Kinship', Sessions'
    PROVE  IInv'
  <1>1. TypeOK /\ LeaderFacts /\ Records
    BY DEF IInv
  <1>2. LeaderFacts'
    BY <1>1, LeaderStays DEF LeaderFacts
  <1>3. \A id \in record' : Trusted(id)'
    BY <1>1, TrustStays DEF Records, TypeOK
  <1>4. ASSUME NEW a \in Actors, NEW id \in actor'[a].members \cup actor'[a].todo
        PROVE  Trusted(id)'
    <2>1. id \in Identity /\ Trusted(id)
      BY <1>1, <1>4 DEF Records, TypeOK
    <2>2. QED
      BY <1>1, <2>1, TrustStays
  <1>5. Records'
    BY <1>1, <1>3, <1>4 DEF Records, At
  <1>6. \A a \in Actors : Listing(a)'
    BY ListingStays
  <1>7. QED
    BY <1>2, <1>5, <1>6 DEF IInv, Listings, OnlyTheRunIsSignalled

-----------------------------------------------------------------------------
(* Processes                                                                  *)

LEMMA NewProcessFacts ==
    ASSUME IInv, NEW q \in Pid, NEW parent \in Pid \cup {0}, NEW session \in Pid, NEW ours \in BOOLEAN,
           NewProcess(q, parent, session, ours),
           actor'["wrapper"].at \in {"done", "gone"} <=> actor["wrapper"].at \in {"done", "gone"},
           parent # 0 => /\ parent \in Alive
                         /\ ours <=> table[parent].ours \/ (parent = Wrapper /\ WrapperRuns),
           ours /\ WrapperRuns => parent # 0,
           \A p \in Present : table[p].session = session => table[p].ours = ours
    PROVE  /\ table' \in Tables /\ starts' \in 0 .. MaxStart /\ starts' = starts + 1
           /\ q \notin Present /\ Present' = Present \cup {q}
           /\ table'[q].start = starts' /\ table'[q].ours = ours /\ table'[q].session = session
           /\ \A p \in Present : table'[p].ours = table[p].ours
           /\ Kept /\ WrapperFacts' /\ Kinship' /\ Sessions' /\ Children
  <1>0. TypeOK /\ WrapperFacts /\ Kinship /\ Sessions /\ starts \in Nat /\ MaxStart \in Nat
    BY PidAssumption DEF IInv, TypeOK
  <1> DEFINE new == [start |-> starts + 1, parent |-> parent, session |-> session, ours |-> ours, dead |-> FALSE]
  <1>1. new \in Process /\ new # None
    <2>1. new \in Process
      BY <1>0 DEF Process
    <2>2. QED
      BY <2>1, PidAssumption
  <1>2. /\ starts' = starts + 1 /\ starts < MaxStart /\ q \notin Present
        /\ table' = [table EXCEPT ![q] = new]
    BY DEF NewProcess, Free
  <1>3. table' \in Tables /\ table'[q] = new /\ \A p \in Pid \ {q} : table'[p] = table[p]
    BY <1>0, <1>1, <1>2 DEF TypeOK, Tables
  <1> HIDE DEF new
  <1>4. Present' = Present \cup {q}
    BY <1>1, <1>3 DEF Present
  <1>5. /\ table'[q].start = starts + 1 /\ table'[q].parent = parent /\ table'[q].session = session
        /\ table'[q].ours = ours /\ table'[q].dead = FALSE
    BY <1>3 DEF new
  <1>6. \A p \in Present : table'[p] = table[p] /\ p # q
    BY <1>2, <1>3 DEF Present
  <1>7. Alive' = Alive \cup {q}
    BY <1>4, <1>5, <1>6 DEF Alive
  <1>8. Kept
    BY <1>2, <1>4, <1>5, <1>6 DEF Kept
  <1>9. WrapperRuns' <=> WrapperRuns
    BY <1>0, <1>4, <1>5, <1>6 DEF WrapperRuns, Is
  <1>10. WrapperFacts'
    BY <1>0, <1>6, <1>9, RunsFacts DEF WrapperFacts
  <1>11. Kinship'
    <2>1. ASSUME NEW p \in Present
          PROVE  /\ table'[p].start <= starts'
                 /\ table'[p].parent # 0 =>
                       /\ table'[p].parent \in Alive' /\ table'[table'[p].parent].start < table'[p].start
                       /\ table'[p].ours <=> table'[table'[p].parent].ours
                                             \/ (table'[p].parent = Wrapper /\ WrapperRuns')
                 /\ table'[p].ours /\ WrapperRuns' => table'[p].parent # 0
      <3>1. table'[p] = table[p] /\ table[p].start \in Nat /\ table[p].start <= starts
        BY <1>0, <1>6, ProcessFacts DEF Kinship
      <3>2. table[p].parent # 0 => table[p].parent \in Present /\ table'[table[p].parent] = table[table[p].parent]
        BY <1>0, <1>6 DEF Kinship, Alive
      <3>3. QED
        BY <1>0, <1>2, <1>7, <1>9, <3>1, <3>2 DEF Kinship
    <2>2. parent # 0 => parent \in Present /\ table'[parent] = table[parent] /\ table[parent].start \in Nat
                        /\ table[parent].start <= starts
      BY <1>0, <1>6, ProcessFacts DEF Kinship, Alive
    <2>3. QED
      BY <1>0, <1>2, <1>4, <1>5, <1>7, <1>9, <2>1, <2>2 DEF Kinship
  <1>12. Sessions'
    BY <1>0, <1>4, <1>5, <1>6 DEF Sessions
  <1>13. Children
    BY <1>4, <1>6 DEF Children
  <1>14. QED
    BY <1>0, <1>2, <1>3, <1>4, <1>5, <1>6, <1>8, <1>10, <1>11, <1>12, <1>13

\* The supervisor's program is as far as it was: over, or not.
SamePhase == actor'["wrapper"].at \in {"done", "gone"} <=> actor["wrapper"].at \in {"done", "gone"}

LEMMA SetsidFacts ==
    ASSUME IInv, NEW p \in Pid, Setsid(p)
    PROVE  /\ table' \in Tables /\ UNCHANGED starts /\ Kept /\ WrapperFacts' /\ Kinship' /\ Sessions'
           /\ Children /\ Offspring
  <1>0. TypeOK /\ WrapperFacts /\ Kinship /\ Sessions /\ starts \in Nat
    BY PidAssumption DEF IInv, TypeOK
  <1>1. /\ UNCHANGED <<starts, actor>> /\ p \in Present /\ ~(p = Wrapper /\ WrapperRuns)
        /\ \A q \in Present : table[q].session # p
        /\ table' = [table EXCEPT ![p].session = p]
    BY DEF Setsid, User, Forkers, Alive, WrapperRuns, Is
  <1>2. table[p] \in Process /\ table'[p] = [table[p] EXCEPT !.session = p] /\ table'[p] \in Process
    BY <1>0, <1>1, ProcessFacts DEF TypeOK, Process
  <1>3. /\ table' \in Tables /\ table'[p].session = p
        /\ \A q \in Pid \ {p} : table'[q] = table[q]
        /\ table'[p].start = table[p].start /\ table'[p].parent = table[p].parent
        /\ table'[p].ours = table[p].ours /\ table'[p].dead = table[p].dead
    BY <1>0, <1>1, <1>2 DEF TypeOK, Tables, Process
  <1>4. Present' = Present
    BY <1>1, <1>2, <1>3, PidAssumption DEF Present
  <1>5. /\ \A q \in Present : /\ table'[q].start = table[q].start /\ table'[q].parent = table[q].parent
                              /\ table'[q].ours = table[q].ours /\ table'[q].dead = table[q].dead
                              /\ q # p => table'[q].session = table[q].session
    BY <1>3 DEF Present
  <1>6. Alive' = Alive
    BY <1>4, <1>5 DEF Alive
  <1>7. WrapperRuns' <=> WrapperRuns
    BY <1>4, <1>5 DEF WrapperRuns, Is
  <1>8. WrapperFacts'
    BY <1>0, <1>1, <1>5, <1>7, RunsFacts DEF WrapperFacts
  <1>9. Kinship'
    BY <1>0, <1>1, <1>4, <1>5, <1>6, <1>7 DEF Kinship, Alive
  <1>10. Sessions'
    BY <1>0, <1>1, <1>3, <1>4, <1>5 DEF Sessions
  <1>11. Kept
    BY <1>1, <1>3, <1>4, <1>5 DEF Kept
  <1>12. Children /\ Offspring
    BY <1>4, <1>5 DEF Children, Offspring
  <1>13. QED
    BY <1>1, <1>3, <1>8, <1>9, <1>10, <1>11, <1>12

\* What a process leaves behind when it ends.
LEMMA EndedFacts ==
    ASSUME IInv, NEW p \in Alive, ~(p = Wrapper /\ WrapperRuns), table' = Ended(p), UNCHANGED starts, SamePhase
    PROVE  /\ table' \in Tables /\ Kept /\ WrapperFacts' /\ Kinship' /\ Sessions'
           /\ Children /\ Offspring
  <1>0. TypeOK /\ WrapperFacts /\ Kinship /\ Sessions /\ starts \in Nat /\ p \in Present
    BY PidAssumption DEF IInv, TypeOK, Alive
  <1> DEFINE heir == IF table[p].ours /\ WrapperRuns THEN Wrapper ELSE 0
             zombie == table[p].parent = Wrapper /\ WrapperRuns
  <1>1. \A q \in Pid : table'[q] = IF q \notin Present THEN None
                                   ELSE IF q = p THEN IF zombie THEN [table[p] EXCEPT !.dead = TRUE] ELSE None
                                   ELSE IF table[q].parent # p THEN table[q]
                                   ELSE [table[q] EXCEPT !.parent = heir]
    BY DEF Ended
  <1>2. heir \in Pid \cup {0}
    BY PidAssumption
  <1> HIDE DEF heir, zombie
  <1>3. ASSUME NEW q \in Present, q # p \/ zombie
        PROVE  /\ table'[q] \in Process /\ table'[q] # None
               /\ table'[q].start = table[q].start /\ table'[q].ours = table[q].ours
               /\ table'[q].session = table[q].session
               /\ table'[q].dead = (table[q].dead \/ q = p)
               /\ table'[q].parent = IF q # p /\ table[q].parent = p THEN heir ELSE table[q].parent
    <2>1. table[q] \in Process /\ q \in Pid
      BY <1>0, ProcessFacts
    <2>2. None \notin Process
      BY PidAssumption
    <2>3. CASE q = p
      <3>1. table'[q] = [table[q] EXCEPT !.dead = TRUE]
        BY <1>1, <1>3, <2>1, <2>3
      <3>2. QED
        BY <2>1, <2>2, <2>3, <3>1 DEF Process
    <2>4. CASE q # p /\ table[q].parent # p
      BY <1>1, <2>1, <2>2, <2>4 DEF Process
    <2>5. CASE q # p /\ table[q].parent = p
      <3>1. table'[q] = [table[q] EXCEPT !.parent = heir]
        BY <1>1, <2>1, <2>5
      <3>2. QED
        BY <1>2, <2>1, <2>2, <2>5, <3>1 DEF Process
    <2>6. QED
      BY <2>3, <2>4, <2>5
  <1>4. Present' = {q \in Present : q # p \/ zombie}
    BY <1>1, <1>3 DEF Present
  <1>5. table' \in Tables
    <2>1. \A q \in Pid : table'[q] \in Process \cup {None}
      BY <1>1, <1>3 DEF Present
    <2>2. table' = [q \in Pid |-> table'[q]]
      BY DEF Ended
    <2>3. QED
      BY <2>1, <2>2 DEF Tables
  <1>6. Alive' = Alive \ {p}
    BY <1>3, <1>4 DEF Alive
  <1>7. WrapperRuns' <=> WrapperRuns
    BY <1>0, <1>3, <1>4 DEF WrapperRuns, Is, Alive
  <1>8. WrapperFacts'
    <2>1. WrapperRuns => /\ Wrapper \in Present /\ Wrapper # p /\ table[Wrapper].parent = 0 /\ p # 0
                         /\ table'[Wrapper].parent = 0
                         /\ table'[Wrapper].session = table[Wrapper].session
                         /\ table'[Wrapper].ours = table[Wrapper].ours
                         /\ table'[Wrapper].dead = table[Wrapper].dead
      BY <1>0, <1>3, RunsFacts, ProcessFacts DEF WrapperFacts
    <2>2. QED
      BY <1>0, <1>7, <2>1 DEF WrapperFacts, SamePhase
  <1>9. Kinship'
    <2>1. ASSUME NEW q \in Present, q # p \/ zombie, table[q].parent # p \/ q = p
          PROVE  /\ table'[q].start <= starts'
                 /\ table'[q].parent # 0 =>
                       /\ table'[q].parent \in Alive' /\ table'[table'[q].parent].start < table'[q].start
                       /\ table'[q].ours <=> table'[table'[q].parent].ours
                                             \/ (table'[q].parent = Wrapper /\ WrapperRuns')
                 /\ table'[q].ours /\ WrapperRuns' => table'[q].parent # 0
      <3>1. /\ table'[q].start = table[q].start /\ table'[q].ours = table[q].ours
            /\ table'[q].parent = table[q].parent
        BY <1>3, <2>1
      <3>2. table[q].parent # p
        BY <1>0, <2>1 DEF Kinship, zombie
      <3>3. table[q].parent # 0 => /\ table[q].parent \in Alive \ {p} /\ table[q].parent \in Present
                                   /\ table'[table[q].parent].start = table[table[q].parent].start
                                   /\ table'[table[q].parent].ours = table[table[q].parent].ours
        BY <1>0, <1>3, <3>2 DEF Kinship, Alive
      <3>4. QED
        BY <1>0, <1>6, <1>7, <3>1, <3>3 DEF Kinship
    <2>2. ASSUME NEW q \in Present, q # p, table[q].parent = p
          PROVE  /\ table'[q].start <= starts'
                 /\ table'[q].parent # 0 =>
                       /\ table'[q].parent \in Alive' /\ table'[table'[q].parent].start < table'[q].start
                       /\ table'[q].ours <=> table'[table'[q].parent].ours
                                             \/ (table'[q].parent = Wrapper /\ WrapperRuns')
                 /\ table'[q].ours /\ WrapperRuns' => table'[q].parent # 0
      <3>1. /\ table'[q].start = table[q].start /\ table'[q].ours = table[q].ours
            /\ table'[q].parent = heir
        BY <1>3, <2>2
      <3>2. p # 0 /\ table[p].start < table[q].start /\ table[p].start \in Nat /\ table[q].start \in Nat
        BY <1>0, <2>2, ProcessFacts DEF Kinship
      <3>3. table[q].ours <=> table[p].ours
        BY <1>0, <2>2, <3>2 DEF Kinship
      <3>4. WrapperRuns => /\ Wrapper \in Alive \ {p} /\ table'[Wrapper].start = 0 /\ Wrapper # 0
        BY <1>0, <1>3, RunsFacts, ProcessFacts DEF WrapperFacts, Alive
      <3>5. CASE table[p].ours /\ WrapperRuns
        BY <1>0, <1>6, <1>7, <3>1, <3>2, <3>3, <3>4, <3>5 DEF Kinship, heir
      <3>6. CASE ~(table[p].ours /\ WrapperRuns)
        BY <1>0, <1>7, <3>1, <3>3, <3>6 DEF Kinship, heir
      <3>7. QED
        BY <3>5, <3>6
    <2>3. QED
      BY <1>4, <2>1, <2>2 DEF Kinship
  <1>10. Sessions'
    BY <1>0, <1>3, <1>4 DEF Sessions
  <1>11. Kept
    BY <1>3, <1>4 DEF Kept
  <1>12. Children
    <2>1. SUFFICES ASSUME WrapperRuns, NEW c \in Present, table[c].parent = Wrapper
                   PROVE  c \in Present' /\ table'[c].parent = Wrapper
      BY <1>7 DEF Children
    <2>2. c = p => zombie
      BY <2>1 DEF zombie
    <2>3. Wrapper # p
      BY <2>1
    <2>4. QED
      BY <1>3, <1>4, <2>1, <2>2, <2>3
  <1>13. Offspring
    BY <1>3, <1>4 DEF Offspring
  <1>14. QED
    BY <1>5, <1>8, <1>9, <1>10, <1>11, <1>12, <1>13

\* The wrapper's end, its own or by a signal: what ended is reaped and the rest goes on.
LEMMA WrapperEndedFacts ==
    ASSUME IInv, WrapperRuns, table' = WrapperEnded, UNCHANGED starts,
           actor'["wrapper"].at \in {"done", "gone"}
    PROVE  /\ table' \in Tables /\ Kept /\ WrapperFacts' /\ Kinship' /\ Sessions'
           /\ ~WrapperRuns'
           /\ \A q \in Present' : q \in Present /\ table'[q].ours = table[q].ours
  <1>0. TypeOK /\ WrapperFacts /\ Kinship /\ Sessions /\ starts \in Nat /\ Wrapper # 0
    BY PidAssumption DEF IInv, TypeOK
  <1> DEFINE Stays(q) == q # Wrapper /\ ~(table[q].parent = Wrapper /\ table[q].dead)
  <1>1. ASSUME NEW q \in Present, Stays(q)
        PROVE  /\ table'[q] \in Process /\ table'[q] # None
               /\ table'[q].start = table[q].start /\ table'[q].ours = table[q].ours
               /\ table'[q].session = table[q].session /\ table'[q].dead = table[q].dead
               /\ table'[q].parent = IF table[q].parent = Wrapper THEN 0 ELSE table[q].parent
    <2>1. table[q] \in Process /\ q \in Pid /\ None \notin Process
      BY <1>0, ProcessFacts, PidAssumption
    <2>2. CASE table[q].parent # Wrapper
      <3>1. table'[q] = table[q]
        BY <1>1, <2>1, <2>2 DEF WrapperEnded
      <3>2. QED
        BY <2>1, <2>2, <3>1
    <2>3. CASE table[q].parent = Wrapper
      <3>1. table'[q] = [table[q] EXCEPT !.parent = 0]
        BY <1>1, <2>1, <2>3 DEF WrapperEnded
      <3>2. QED
        BY <2>1, <2>3, <3>1 DEF Process
    <2>4. QED
      BY <2>2, <2>3
  <1>2. \A q \in Pid : q \notin Present \/ ~Stays(q) => table'[q] = None
    BY DEF WrapperEnded
  <1>3. Present' = {q \in Present : Stays(q)}
    BY <1>1, <1>2 DEF Present
  <1>4. table' \in Tables
    <2>1. \A q \in Pid : table'[q] \in Process \cup {None}
      BY <1>1, <1>2
    <2>2. table' = [q \in Pid |-> table'[q]]
      BY DEF WrapperEnded
    <2>3. QED
      BY <2>1, <2>2 DEF Tables
  <1>5. ~WrapperRuns'
    BY <1>3 DEF WrapperRuns, Is
  <1>6. WrapperFacts'
    BY <1>5 DEF WrapperFacts
  <1>7. Kinship'
    <2>1. ASSUME NEW q \in Present'
          PROVE  /\ table'[q].start <= starts'
                 /\ table'[q].parent # 0 =>
                       /\ table'[q].parent \in Alive' /\ table'[table'[q].parent].start < table'[q].start
                       /\ table'[q].ours <=> table'[table'[q].parent].ours
      <3>1. q \in Present /\ Stays(q) /\ table'[q].start = table[q].start /\ table'[q].ours = table[q].ours
        BY <1>1, <1>3, <2>1
      <3>2. CASE table[q].parent = Wrapper \/ table[q].parent = 0
        BY <1>0, <1>1, <3>1, <3>2 DEF Kinship
      <3>3. CASE table[q].parent # Wrapper /\ table[q].parent # 0
        <4> DEFINE p == table[q].parent
        <4>1. table'[q].parent = p /\ p \in Alive /\ p \in Present /\ Stays(p)
          BY <1>0, <1>1, <3>1, <3>3 DEF Kinship, Alive
        <4>2. /\ p \in Alive' /\ table'[p].start = table[p].start /\ table'[p].ours = table[p].ours
          BY <1>1, <1>3, <4>1 DEF Alive
        <4>3. QED
          BY <1>0, <3>1, <3>3, <4>1, <4>2 DEF Kinship
      <3>4. QED
        BY <3>2, <3>3
    <2>2. QED
      BY <1>5, <2>1 DEF Kinship
  <1>8. Sessions'
    BY <1>0, <1>1, <1>3 DEF Sessions
  <1>9. Kept
    BY <1>1, <1>3 DEF Kept
  <1>10. QED
    BY <1>1, <1>3, <1>4, <1>5, <1>6, <1>7, <1>8, <1>9

\* Reaping what has ended changes nothing for the others.
LEMMA ReapFacts ==
    ASSUME IInv, NEW D \in SUBSET Pid, \A p \in D : p \in Present => table[p].dead,
           table' = [p \in Pid |-> IF p \in D THEN None ELSE table[p]],
           UNCHANGED starts, SamePhase
    PROVE  table' \in Tables /\ Kept /\ WrapperFacts' /\ Kinship' /\ Sessions'
  <1>0. TypeOK /\ WrapperFacts /\ Kinship /\ Sessions /\ starts \in Nat
    BY PidAssumption DEF IInv, TypeOK
  <1>1. table' \in Tables /\ Present' = Present \ D /\ \A p \in Present \ D : table'[p] = table[p]
    BY <1>0 DEF TypeOK, Tables, Present
  <1>2. Alive' = Alive
    BY <1>1 DEF Alive
  <1>3. WrapperRuns' <=> WrapperRuns
    BY <1>0, <1>1 DEF WrapperRuns, Is, WrapperFacts
  <1>4. WrapperFacts'
    BY <1>0, <1>1, <1>3 DEF WrapperFacts, SamePhase, WrapperRuns, Is
  <1>5. Kinship'
    BY <1>0, <1>1, <1>2, <1>3 DEF Kinship, Alive
  <1>6. Sessions' /\ Kept
    BY <1>0, <1>1 DEF Sessions, Kept
  <1>7. QED
    BY <1>1, <1>4, <1>5, <1>6

LEMMA NoProcessFacts ==
    ASSUME IInv, UNCHANGED kernel, SamePhase
    PROVE  /\ table' \in Tables /\ Kept /\ WrapperFacts' /\ Kinship' /\ Sessions'
           /\ Children /\ Offspring
  <1>1. UNCHANGED <<table, starts>> /\ TypeOK /\ WrapperFacts /\ Kinship /\ Sessions
    BY DEF IInv, kernel
  <1>2. Present' = Present /\ Alive' = Alive /\ (WrapperRuns' <=> WrapperRuns)
    BY <1>1 DEF Present, Alive, WrapperRuns, Is
  <1>3. Kinship'
    BY <1>1, <1>2 DEF Kinship
  <1>4. Children /\ Offspring
    BY <1>1, <1>2 DEF Children, Offspring
  <1>5. QED
    BY <1>1, <1>2, <1>3, <1>4 DEF TypeOK, Tables, Kept, WrapperFacts, SamePhase, Sessions

-----------------------------------------------------------------------------
(* What collect_owned returns                                                 *)

LEMMA ExactTrusted ==
    ASSUME IInv, NEW a \in Actors, NEW p \in Exact(a)
    PROVE  p \in Seen(a) /\ p \in Present /\ p # Wrapper /\ table[p].ours
  <1>1. PICK id \in actor[a].members : Is(p, id)
    BY DEF Exact
  <1>2. p = id[1] /\ p \in Present /\ p \in Seen(a) /\ Trusted(id)
    BY <1>1 DEF Exact, Is, IInv, Records
  <1>3. QED
    BY <1>1, <1>2 DEF Trusted

\* All that the browser left is an answer to who descends from the wrapper.
LEMMA DescendantsOurs ==
    ASSUME IInv, NEW a \in Actors, NEW p \in WithDescendants(a)
    PROVE  p \in Present /\ p # Wrapper /\ table[p].ours
  <1>0. TypeOK /\ WrapperFacts /\ Kinship
    BY DEF IInv
  <1>1. CASE ~SeesWrapper(a)
    BY <1>1, ExactTrusted DEF WithDescendants
  <1>2. CASE SeesWrapper(a)
    <2> DEFINE S == {Wrapper} \cup {q \in Seen(a) : table[q].ours}
    <2>1. S \subseteq Seen(a) /\ Seen(a) \subseteq Present /\ Exact(a) \cup {Wrapper} \subseteq S /\ WrapperRuns
      BY <1>2, ExactTrusted DEF SeesWrapper, Seen
    <2>2. ASSUME NEW q \in Seen(a), table[q].parent \in S
          PROVE  q \in S
      <3>1. q \in Present /\ table[q].parent # 0
        BY <1>0, <2>1, <2>2, ProcessFacts
      <3>2. table[q].ours
        BY <1>0, <2>1, <2>2, <3>1 DEF Kinship
      <3>3. QED
        BY <3>2
    <2>3. p \in Seen(a) \ {Wrapper} /\ p \in S
      BY <1>2, <2>1, <2>2 DEF WithDescendants
    <2>4. QED
      BY <2>1, <2>3
  <1>3. QED
    BY <1>1, <1>2

\* Nothing is owned that does not come from the browser: with a live leader, or with an owned
\* process in it, the session is the browser's.
LEMMA OwnedOurs ==
    ASSUME IInv, leader # None, NEW a \in Actors, NEW p \in Owned(a)
    PROVE  p \in Present /\ p # Wrapper /\ table[p].ours
  <1>0. TypeOK /\ Sessions /\ LeaderFacts /\ Session(a) \subseteq Present
    BY DEF IInv, Session, Seen
  <1> DEFINE kin == WithDescendants(a)
  <1>1. p # Wrapper /\ (p \in kin \/ (p \in Session(a) /\ Proven(a, kin)))
    BY DEF Owned
  <1> HIDE DEF kin
  <1>2. CASE p \in kin
    BY <1>2, DescendantsOurs DEF kin
  <1>3. CASE p \in Session(a) /\ Is(leader[1], leader)
    BY <1>0, <1>1, <1>3 DEF Session, Sessions, LeaderFacts, Trusted, Is
  <1>4. CASE p \in Session(a) /\ kin \cap Session(a) # {}
    <2>1. PICK q \in kin : q \in Session(a)
      BY <1>4
    <2>2. q \in Present /\ table[q].ours
      BY DescendantsOurs DEF kin
    <2>3. QED
      BY <1>0, <1>1, <1>4, <2>1, <2>2 DEF Session, Sessions
  <1>5. QED
    BY <1>1, <1>2, <1>3, <1>4 DEF Proven

LEMMA OwnedIds ==
    ASSUME IInv, leader # None, NEW a \in Actors, NEW S \in SUBSET Owned(a), NEW id \in Ids(S)
    PROVE  id \in Identity /\ Trusted(id)
  <1>1. PICK p \in S : id = <<p, table[p].start>>
    BY DEF Ids
  <1>2. p \in Present /\ p # Wrapper /\ table[p].ours /\ p \in Owned(a)
    BY OwnedOurs
  <1>3. table[p].start \in Nat /\ table[p].start <= starts /\ p \in Pid
    BY <1>2, ProcessFacts DEF IInv, Kinship
  <1>4. QED
    BY <1>1, <1>2, <1>3 DEF Trusted, Identity

\* Of processes of the run, the one that started first is a child of a wrapper that runs.
LEMMA FirstBorn ==
    ASSUME IInv, WrapperRuns, NEW R \in {Present, Alive}, NEW p \in R, table[p].ours
    PROVE  \E c \in R : table[c].parent = Wrapper
  <1>0. TypeOK /\ WrapperFacts /\ Kinship /\ R \subseteq Present /\ Alive \subseteq R
    BY DEF IInv, Alive
  <1> DEFINE run == {q \in R : table[q].ours}
             ages == {table[q].start : q \in run}
  <1>1. ages \in SUBSET Nat /\ ages # {}
    BY <1>0, ProcessFacts
  <1>2. PICK m \in ages : \A n \in ages : m <= n
    <2> HIDE DEF ages
    <2> QED
      BY <1>1, Smallest
  <1>3. PICK q \in run : table[q].start = m
    BY <1>2
  <1>4. q \in R /\ q \in Present /\ table[q].ours /\ table[q].start \in Nat
    BY <1>0, <1>3, ProcessFacts
  <1>5. /\ table[q].parent \in R /\ table[table[q].parent].start \in Nat
        /\ table[table[q].parent].start < table[q].start
        /\ table[table[q].parent].ours \/ table[q].parent = Wrapper
    BY <1>0, <1>4, ProcessFacts DEF Kinship, Alive
  <1>6. ~table[table[q].parent].ours
    <2>1. SUFFICES ASSUME table[table[q].parent].ours PROVE FALSE
      OBVIOUS
    <2>2. table[table[q].parent].start \in ages
      BY <1>5, <2>1
    <2>3. m <= table[table[q].parent].start
      BY <1>2, <2>2
    <2>4. QED
      BY <1>3, <1>4, <1>5, <2>3
  <1>7. QED
    BY <1>4, <1>5, <1>6

\* When nothing is owned and nothing is in doubt, nothing is left of what the actor could know of,
\* and nothing at all when it is the wrapper.
LEMMA NothingOwned ==
    ASSUME IInv, leader # None, NEW a \in Actors, actor[a].listed # {}, ~Blocked(a), Owned(a) = {},
           NEW p \in Present, table[p].ours
    PROVE  /\ <<p, table[p].start>> \notin actor[a].members
           /\ table[p].session = leader[1] => p \notin actor[a].listed
           /\ a # "wrapper"
  <1>0. TypeOK /\ WrapperFacts /\ Kinship /\ Listing(a) /\ Wrapper # 0
    BY PidAssumption DEF IInv, Listings
  <1> DEFINE kin == WithDescendants(a)
  <1>1. kin \subseteq {Wrapper}
    BY DEF Owned
  <1>2. kin = {}
    BY <1>1, DescendantsOurs
  <1>3. <<p, table[p].start>> \notin actor[a].members
    <2>1. SUFFICES ASSUME <<p, table[p].start>> \in actor[a].members PROVE FALSE
      OBVIOUS
    <2>2. Is(p, <<p, table[p].start>>)
      BY DEF Is
    <2>3. p \in Exact(a)
      BY <1>0, <2>1, <2>2 DEF Exact, Listing, Seen
    <2>4. p # Wrapper /\ p \in Seen(a)
      BY <2>3, ExactTrusted
    <2>5. p \in kin
      BY <2>3, <2>4 DEF WithDescendants
    <2>6. QED
      BY <1>2, <2>5
  <1>4. ASSUME table[p].session = leader[1], p \in actor[a].listed
        PROVE  FALSE
    <2>1. p \in Session(a)
      BY <1>4 DEF Session, Seen
    <2>2. Proven(a, kin)
      BY <2>1 DEF Blocked
    <2>3. p = Wrapper /\ p \in Seen(a)
      BY <1>4, <2>1, <2>2 DEF Owned, Session
    <2>4. Is(Wrapper, <<Wrapper, 0>>)
      BY <2>3, PidAssumption DEF Blocked, Reused
    <2>5. QED
      BY <1>0, <2>3, <2>4 DEF WrapperFacts, WrapperRuns
  <1>5. ASSUME a = "wrapper"
        PROVE  FALSE
    <2>1. WrapperRuns
      BY <1>0, <1>5 DEF Listing, Looking, WrapperFacts
    <2>2. Wrapper \in Seen(a) /\ SeesWrapper(a)
      BY <1>0, <1>5, <2>1, RunsFacts DEF Listing, Seen, SeesWrapper
    <2>3. PICK c \in actor[a].listed \cap Present : table[c].parent = Wrapper
      BY <1>0, <1>5 DEF Listing
    <2>4. c \in Seen(a) \ {Wrapper}
      BY <1>0, <2>1, <2>3 DEF Seen, WrapperFacts
    <2>5. c \in kin
      BY <2>2, <2>3, <2>4 DEF WithDescendants
    <2>6. QED
      BY <1>2, <2>5
  <1>6. QED
    BY <1>3, <1>4, <1>5

-----------------------------------------------------------------------------
(* Steps of an actor                                                          *)

Actor == [at : Places, members : SUBSET Identity, todo : SUBSET Identity,
          listed : SUBSET (Pid \cup {0}), again : BOOLEAN]

\* Where an actor looks and signals.
Working == {"eligible", "guard", "cleanup", "term", "grace", "kill", "wait"}

\* An actor that works has a leader, and the wrapper runs while it does.
LEMMA WorkingFacts ==
    ASSUME IInv, NEW a \in Actors, actor[a].at \in Working \cup {"loaded"}
    PROVE  /\ TypeOK /\ WrapperFacts /\ actor[a] \in Actor /\ actor \in [Actors -> Actor] /\ leader # None
           /\ a = "wrapper" => WrapperRuns
           /\ \A id \in actor[a].members \cup actor[a].todo : id \in Identity /\ Trusted(id)
  <1>1. TypeOK /\ WrapperFacts /\ LeaderFacts /\ Records /\ actor[a].at \notin {"idle", "done", "gone"}
    BY DEF IInv, Working
  <1>2. actor \in [Actors -> Actor] /\ actor[a] \in Actor
    BY <1>1 DEF TypeOK, Actor
  <1>3. leader # None /\ (a = "wrapper" => WrapperRuns)
    BY <1>1 DEF Records, LeaderFacts, WrapperFacts, At, Actors
  <1>4. \A id \in actor[a].members \cup actor[a].todo : id \in Identity /\ Trusted(id)
    BY <1>1, <1>2 DEF Records, Actor
  <1>5. QED
    BY <1>1, <1>2, <1>3, <1>4

LEMMA ActorStep ==
    ASSUME IInv, NEW a \in Actors, leader # None, UNCHANGED <<leader, hit>>,
           table' \in Tables /\ starts' \in 0 .. MaxStart /\ Kept /\ WrapperFacts' /\ Kinship' /\ Sessions',
           a = "cleaner" => Children /\ Offspring,
           actor' \in [Actors -> Actor], \A b \in Actors \ {a} : actor'[b] = actor[b], Listing(a)',
           \A id \in record' \cup actor'[a].members \cup actor'[a].todo : id \in Identity /\ Trusted(id),
           actor'["wrapper"].at # "idle"
    PROVE  IInv'
  <1>0. TypeOK /\ LeaderFacts /\ Records
    BY DEF IInv
  <1>1. TypeOK'
    BY <1>0 DEF TypeOK, Tables, Actor
  <1>2. LeaderFacts'
    BY <1>0, LeaderStays DEF LeaderFacts
  <1>3. \A id \in record' : Trusted(id)'
    BY <1>0, TrustStays
  <1>4. ASSUME NEW b \in Actors, NEW id \in actor'[b].members \cup actor'[b].todo
        PROVE  Trusted(id)'
    <2>1. id \in Identity /\ Trusted(id)
      BY <1>0, <1>4 DEF Records, TypeOK
    <2>2. QED
      BY <1>0, <2>1, TrustStays
  <1>5. Records'
    BY <1>3, <1>4 DEF Records
  <1>6. ASSUME NEW b \in Actors
        PROVE  Listing(b)'
    <2>1. CASE b = a
      BY <2>1
    <2>2. CASE b # a
      <3>1. b = "wrapper" => Children /\ Offspring
        BY <2>2 DEF Actors
      <3>2. QED
        BY <2>2, <3>1, ListingStays
    <2>3. QED
      BY <2>1, <2>2
  <1>7. QED
    BY <1>1, <1>2, <1>5, <1>6 DEF IInv, Listings, OnlyTheRunIsSignalled

\* An actor goes on at its work, or the cleaner ends it; its listing is read and gone.
LEMMA GoesOnStep ==
    ASSUME IInv, NEW a \in Actors, actor[a].at \in Working \cup {"loaded"},
           table' \in Tables /\ Kept /\ WrapperFacts' /\ Kinship' /\ Sessions',
           a = "cleaner" => Children /\ Offspring,
           UNCHANGED <<starts, leader, hit>>,
           NEW new \in Actor, actor' = [actor EXCEPT ![a] = new], new.listed = {},
           a = "wrapper" => new.at # "idle",
           \A id \in record' \cup new.members \cup new.todo : id \in Identity /\ Trusted(id)
    PROVE  IInv'
  <1>0. /\ TypeOK /\ actor \in [Actors -> Actor] /\ leader # None
        /\ a = "cleaner" => actor["wrapper"].at # "idle"
    BY WorkingFacts DEF IInv, LeaderFacts
  <1>1. /\ actor' \in [Actors -> Actor] /\ actor'[a] = new /\ \A b \in Actors \ {a} : actor'[b] = actor[b]
        /\ actor'["wrapper"].at # "idle"
    BY <1>0 DEF Actors
  <1>2. Listing(a)'
    BY <1>1 DEF Listing
  <1>3. starts' \in 0 .. MaxStart
    BY <1>0 DEF TypeOK
  <1>4. QED
    BY <1>0, <1>1, <1>2, <1>3, ActorStep

\* The same when no process changes.
LEMMA TurnsStep ==
    ASSUME IInv, NEW a \in Actors, actor[a].at \in Working \cup {"loaded"},
           UNCHANGED <<kernel, leader, hit>>,
           NEW new \in Actor, actor' = [actor EXCEPT ![a] = new], new.listed = {},
           a = "wrapper" => new.at \in Working,
           \A id \in record' \cup new.members \cup new.todo : id \in Identity /\ Trusted(id)
    PROVE  IInv'
  <1>0. actor \in [Actors -> Actor] /\ WrapperFacts /\ (a = "wrapper" => WrapperRuns)
    BY WorkingFacts
  <1>1. SamePhase
    BY <1>0 DEF SamePhase, Working, Actors, WrapperFacts
  <1>2. UNCHANGED starts /\ (a = "wrapper" => new.at # "idle")
    BY DEF kernel, Working
  <1>3. table' \in Tables /\ Kept /\ WrapperFacts' /\ Kinship' /\ Sessions' /\ Children /\ Offspring
    BY <1>1, NoProcessFacts
  <1>4. QED
    BY <1>2, <1>3, GoesOnStep

LEMMA RecordFacts ==
    ASSUME IInv
    PROVE  \A id \in record : id \in Identity /\ Trusted(id)
  BY DEF IInv, TypeOK, Records

\* What write_record leaves is a record of the browser's processes.
LEMMA WriteFacts ==
    ASSUME IInv, NEW a \in Actors, NEW members, Write(a, members),
           \A id \in members : id \in Identity /\ Trusted(id)
    PROVE  \A id \in record' : id \in Identity /\ Trusted(id)
  BY RecordFacts DEF Write

LEMMA IdleFacts ==
    /\ Idle \in Actor /\ Idle.at = "idle" /\ Idle.members = {} /\ Idle.todo = {} /\ Idle.listed = {}
    /\ \A place \in Places :
          LET new == [Idle EXCEPT !.at = place]
          IN  new \in Actor /\ new.at = place /\ new.members = {} /\ new.todo = {} /\ new.listed = {}
  BY DEF Idle, Actor, Places

LEMMA StopsStep ==
    ASSUME IInv, NEW a \in Actors, actor[a].at \in Working, Stops(a)
    PROVE  IInv' /\ UNCHANGED record
  <1>0. /\ TypeOK /\ WrapperFacts /\ actor[a] \in Actor /\ actor \in [Actors -> Actor]
        /\ a = "wrapper" => WrapperRuns
        /\ \A id \in actor[a].members : id \in Identity /\ Trusted(id)
    BY WorkingFacts
  <1>1. GivesUp(a) /\ UNCHANGED <<leader, record, hit>>
    BY DEF Stops
  <1>2. \A id \in record' : id \in Identity /\ Trusted(id)
    BY <1>1, RecordFacts
  <1>3. CASE a = "wrapper" /\ ~actor[a].again
    <2> DEFINE new == [actor[a] EXCEPT !.at = "cleanup", !.todo = {}, !.listed = {}, !.again = TRUE]
    <2>1. actor' = [actor EXCEPT ![a] = new] /\ UNCHANGED kernel
      BY <1>0, <1>1, <1>3 DEF GivesUp
    <2>2. /\ new \in Actor /\ new.listed = {} /\ new.at \in Working
          /\ new.members = actor[a].members /\ new.todo = {}
      BY <1>0 DEF Actor, Places, Looking, Working
    <2> HIDE DEF new
    <2>3. QED
      BY <1>0, <1>1, <1>2, <2>1, <2>2, TurnsStep
  <1>4. CASE a = "wrapper" /\ actor[a].again
    <2> DEFINE new == [Idle EXCEPT !.at = "gone"]
    <2>1. actor' = [actor EXCEPT ![a] = new] /\ table' = WrapperEnded /\ UNCHANGED starts
      BY <1>1, <1>4 DEF GivesUp
    <2>2. new \in Actor /\ new.at = "gone" /\ new.members = {} /\ new.todo = {} /\ new.listed = {}
      BY IdleFacts DEF Places
    <2> HIDE DEF new
    <2>3. actor'["wrapper"].at = "gone"
      BY <1>0, <1>4, <2>1, <2>2
    <2>4. table' \in Tables /\ Kept /\ WrapperFacts' /\ Kinship' /\ Sessions'
      BY <1>0, <1>4, <2>1, <2>3, WrapperEndedFacts
    <2>5. QED
      BY <1>1, <1>2, <1>4, <2>1, <2>2, <2>4, GoesOnStep
  <1>5. CASE a = "cleaner"
    <2>1. actor' = [actor EXCEPT ![a] = Idle] /\ UNCHANGED kernel
      BY <1>1, <1>5 DEF GivesUp
    <2>2. QED
      BY <1>1, <1>2, <1>5, <2>1, IdleFacts, TurnsStep
  <1>6. QED
    BY <1>1, <1>3, <1>4, <1>5 DEF Actors

\* The end of a run: the record is removed and the wrapper, when it is the wrapper, ends.
LEMMA CleanedStep ==
    ASSUME IInv, NEW a \in Actors, actor[a].at \in Working, Cleaned(a)
    PROVE  IInv'
  <1>0. /\ TypeOK /\ WrapperFacts /\ actor \in [Actors -> Actor]
        /\ a = "wrapper" => WrapperRuns
    BY WorkingFacts
  <1> DEFINE place == IF a = "wrapper" THEN "done" ELSE "idle"
             new == [Idle EXCEPT !.at = place]
  <1>1. /\ record' = {} /\ table' = IF a = "wrapper" THEN WrapperEnded ELSE table
        /\ actor' = [actor EXCEPT ![a] = new] /\ UNCHANGED <<starts, leader, hit>>
    BY DEF Cleaned
  <1>2. new \in Actor /\ new.at = place /\ new.members = {} /\ new.todo = {} /\ new.listed = {}
    BY IdleFacts DEF Places
  <1> HIDE DEF new
  <1>3. CASE a = "wrapper"
    <2>1. actor'["wrapper"].at = "done" /\ new.at # "idle" /\ table' = WrapperEnded
      BY <1>0, <1>1, <1>2, <1>3
    <2>2. table' \in Tables /\ Kept /\ WrapperFacts' /\ Kinship' /\ Sessions'
      BY <1>0, <1>1, <1>3, <2>1, WrapperEndedFacts
    <2>3. QED
      BY <1>1, <1>2, <1>3, <2>1, <2>2, GoesOnStep
  <1>4. CASE a = "cleaner"
    <2>1. UNCHANGED kernel
      BY <1>1, <1>4 DEF kernel
    <2>2. QED
      BY <1>1, <1>2, <1>4, <2>1, TurnsStep
  <1>5. QED
    BY <1>3, <1>4 DEF Actors

\* A listing names whoever is there, and a child of the wrapper's when it is the wrapper's.
LEMMA ListStep ==
    ASSUME IInv, NEW a \in Actors, List(a)
    PROVE  IInv'
  <1>0. actor[a].at \in Working \cup {"loaded"} /\ actor[a].at \in Looking
    BY DEF List, Looking, Working
  <1>1. /\ TypeOK /\ WrapperFacts /\ Kinship /\ actor[a] \in Actor /\ actor \in [Actors -> Actor]
        /\ leader # None /\ (a = "wrapper" => WrapperRuns)
        /\ \A id \in actor[a].members \cup actor[a].todo : id \in Identity /\ Trusted(id)
    BY <1>0, WorkingFacts DEF IInv
  <1>2. /\ table' = IF a = "wrapper" /\ At(a, "wait") THEN Reaped ELSE table
        /\ actor' = [actor EXCEPT ![a].listed = Present' \cup {0}]
        /\ UNCHANGED <<starts, leader, record, hit>>
    BY DEF List
  <1>3. /\ actor' \in [Actors -> Actor] /\ \A b \in Actors \ {a} : actor'[b] = actor[b]
        /\ actor'[a].at = actor[a].at /\ actor'[a].members = actor[a].members
        /\ actor'[a].todo = actor[a].todo /\ actor'[a].listed = Present' \cup {0}
    <2>1. Present' \cup {0} \in SUBSET (Pid \cup {0})
      BY DEF Present
    <2>2. QED
      BY <1>1, <1>2, <2>1 DEF Actor
  <1>4. SamePhase /\ actor'["wrapper"].at # "idle"
    BY <1>0, <1>1, <1>3 DEF SamePhase, Actors, IInv, LeaderFacts
  <1>5. /\ table' \in Tables /\ Kept /\ WrapperFacts' /\ Kinship' /\ Sessions'
        /\ a = "cleaner" => Children /\ Offspring
        /\ a = "wrapper" => \E R \in {Present, Alive} : /\ Present' = R
                                                        /\ \A p \in R : table'[p] = table[p]
    <2>1. CASE a = "wrapper" /\ At(a, "wait")
      <3> DEFINE D == {p \in Present : table[p].dead}
      <3>1. table' = [p \in Pid |-> IF p \in D THEN None ELSE table[p]]
        BY <1>2, <2>1 DEF Reaped
      <3>2. D \in SUBSET Pid /\ \A p \in D : p \in Present => table[p].dead
        BY DEF Present
      <3>3. Present' = Alive /\ \A p \in Alive : table'[p] = table[p]
        BY <3>1 DEF Present, Alive
      <3> HIDE DEF D
      <3>4. table' \in Tables /\ Kept /\ WrapperFacts' /\ Kinship' /\ Sessions'
        BY <1>2, <1>4, <3>1, <3>2, ReapFacts
      <3>5. \E R \in {Present, Alive} : Present' = R /\ \A p \in R : table'[p] = table[p]
        BY <3>3
      <3>6. QED
        BY <2>1, <3>4, <3>5
    <2>2. CASE ~(a = "wrapper" /\ At(a, "wait"))
      <3>1. UNCHANGED kernel /\ table' = table
        BY <1>2, <2>2 DEF kernel
      <3>2. Present' = Present
        BY <3>1 DEF Present
      <3>3. QED
        BY <1>4, <3>1, <3>2, NoProcessFacts
    <2>3. QED
      BY <2>1, <2>2
  <1>6. ASSUME a = "wrapper"
        PROVE  /\ Wrapper \in Present'
               /\ (\E p \in Present' : table'[p].ours) => \E c \in Present' : table'[c].parent = Wrapper
    <2>1. PICK R \in {Present, Alive} : Present' = R /\ \A p \in R : table'[p] = table[p]
      BY <1>5, <1>6
    <2>2. WrapperRuns /\ Wrapper \in Present /\ Wrapper \in Alive
      BY <1>1, <1>6, RunsFacts DEF WrapperFacts, Alive
    <2>3. ASSUME NEW p \in R, table[p].ours
          PROVE  \E c \in R : table[c].parent = Wrapper
      BY <2>2, <2>3, FirstBorn
    <2>4. QED
      BY <2>1, <2>2, <2>3
  <1>7. Listing(a)'
    <2>1. \A id : Is(id[1], id)' => id[1] \in Present'
      BY DEF Is
    <2>2. QED
      BY <1>0, <1>3, <1>6, <2>1 DEF Listing
  <1>8. \A id \in record' \cup actor'[a].members \cup actor'[a].todo : id \in Identity /\ Trusted(id)
    BY <1>1, <1>2, <1>3, RecordFacts
  <1>9. starts' \in 0 .. MaxStart
    BY <1>1, <1>2 DEF TypeOK
  <1>10. QED
    BY <1>1, <1>2, <1>3, <1>4, <1>5, <1>7, <1>8, <1>9, ActorStep

-----------------------------------------------------------------------------
(* The looks and the signals                                                  *)

LEMMA CleanupLookStep ==
    ASSUME IInv, NEW a \in Actors, CleanupLook(a)
    PROVE  IInv'
  <1>0. actor[a].at = "cleanup" /\ actor[a].at \in Working
    BY DEF CleanupLook, Looks, At, Working
  <1>1. /\ actor[a] \in Actor /\ actor \in [Actors -> Actor] /\ leader # None
        /\ \A id \in actor[a].members : id \in Identity /\ Trusted(id)
    BY <1>0, WorkingFacts
  <1>2. CASE Blocked(a)
    BY <1>0, <1>2, StopsStep DEF CleanupLook
  <1>3. CASE ~Blocked(a)
    <2> DEFINE found == Ids(Owned(a))
               members == actor[a].members \cup found
               new == [actor[a] EXCEPT !.at = "term", !.members = members, !.todo = found, !.listed = {}]
    <2>1. \A id \in found : id \in Identity /\ Trusted(id)
      BY <1>1, OwnedIds
    <2>2. /\ Write(a, members) /\ actor' = [actor EXCEPT ![a] = new] /\ UNCHANGED <<kernel, leader, hit>>
      BY <1>1, <1>3 DEF CleanupLook
    <2> HIDE DEF found
    <2>3. \A id \in members : id \in Identity /\ Trusted(id)
      BY <1>1, <2>1
    <2> HIDE DEF members
    <2>4. /\ new \in Actor /\ new.at \in Working /\ new.members = members /\ new.todo = found /\ new.listed = {}
      BY <1>1, <2>1, <2>3 DEF Actor, Places, Working
    <2> HIDE DEF new
    <2>5. \A id \in record' : id \in Identity /\ Trusted(id)
      BY <2>2, <2>3, WriteFacts
    <2>6. QED
      BY <1>0, <2>1, <2>2, <2>3, <2>4, <2>5, TurnsStep
  <1>4. QED
    BY <1>2, <1>3

\* Who is signalled is still who was found, and that came from the browser.
LEMMA SignalStep ==
    ASSUME IInv, NEW a \in Actors, Signal(a)
    PROVE  IInv'
  <1>0. actor[a].at \in {"term", "kill"} /\ actor[a].at \in Working
    BY DEF Signal, At, Working
  <1>1. /\ actor[a] \in Actor /\ actor \in [Actors -> Actor] /\ leader # None /\ WrapperFacts
        /\ \A i \in actor[a].members \cup actor[a].todo : i \in Identity /\ Trusted(i)
        /\ a = "wrapper" => WrapperRuns
    BY <1>0, WorkingFacts
  <1>2. PICK id \in actor[a].todo :
          IF id[1] \in Present /\ ~Is(id[1], id) THEN Stops(a)
          ELSE /\ actor' = [actor EXCEPT ![a].todo = @ \ {id}]
               /\ hit' = hit \cup Ids(Strangers(Present \cap {id[1]}))
               /\ table' = IF At(a, "kill") /\ id[1] \in Alive THEN Ended(id[1]) ELSE table
               /\ UNCHANGED <<starts, leader, record>>
    BY DEF Signal
  <1>3. Trusted(id)
    BY <1>1
  <1>4. CASE id[1] \in Present /\ ~Is(id[1], id)
    BY <1>0, <1>2, <1>4, StopsStep
  <1>5. CASE ~(id[1] \in Present /\ ~Is(id[1], id))
    <2> DEFINE new == [actor[a] EXCEPT !.todo = @ \ {id}]
    <2>1. /\ actor' = [actor EXCEPT ![a] = new]
          /\ hit' = hit \cup Ids(Strangers(Present \cap {id[1]}))
          /\ table' = IF At(a, "kill") /\ id[1] \in Alive THEN Ended(id[1]) ELSE table
          /\ UNCHANGED <<starts, leader, record>>
      BY <1>1, <1>2, <1>5
    <2>2. /\ new \in Actor /\ new.at = actor[a].at /\ new.members = actor[a].members
          /\ new.todo \subseteq actor[a].todo /\ new.listed = actor[a].listed
      BY <1>1 DEF Actor
    <2>3. new.listed = {}
      BY <1>0, <2>2 DEF IInv, Listings, Listing, Looking
    <2> HIDE DEF new
    <2>4. UNCHANGED hit
      <3>1. Strangers(Present \cap {id[1]}) = {}
        BY <1>3, <1>5 DEF Strangers, Trusted
      <3>2. QED
        BY <2>1, <3>1 DEF Ids
    <2>5. SamePhase
      <3>1. actor'["wrapper"].at = actor["wrapper"].at
        BY <1>1, <2>1, <2>2 DEF Actors
      <3>2. QED
        BY <3>1 DEF SamePhase
    <2>6. table' \in Tables /\ Kept /\ WrapperFacts' /\ Kinship' /\ Sessions' /\ Children /\ Offspring
      <3>1. CASE At(a, "kill") /\ id[1] \in Alive
        BY <1>3, <2>1, <2>5, <3>1, EndedFacts DEF Trusted
      <3>2. CASE ~(At(a, "kill") /\ id[1] \in Alive)
        BY <2>1, <2>5, <3>2, NoProcessFacts DEF kernel
      <3>3. QED
        BY <3>1, <3>2
    <2>7. \A i \in record' \cup new.members \cup new.todo : i \in Identity /\ Trusted(i)
      BY <1>1, <2>1, <2>2, RecordFacts
    <2>8. new.at # "idle"
      BY <1>0, <2>2
    <2>9. QED
      BY <1>0, <2>1, <2>2, <2>3, <2>4, <2>6, <2>7, <2>8, GoesOnStep
  <1>6. QED
    BY <1>4, <1>5

LEMMA SignalledStep ==
    ASSUME IInv, NEW a \in Actors, Signalled(a)
    PROVE  IInv'
  <1> DEFINE new == [actor[a] EXCEPT !.at = IF actor[a].at = "term" THEN "grace" ELSE "wait"]
  <1>1. actor[a].at \in {"term", "kill"} /\ actor[a].at \in Working
    BY DEF Signalled, At, Working
  <1>2. /\ actor[a] \in Actor /\ actor \in [Actors -> Actor]
        /\ \A id \in actor[a].members \cup actor[a].todo : id \in Identity /\ Trusted(id)
    BY <1>1, WorkingFacts
  <1>3. actor' = [actor EXCEPT ![a] = new] /\ UNCHANGED <<kernel, leader, record, hit>>
    BY <1>2 DEF Signalled
  <1>4. /\ new \in Actor /\ new.at \in Working /\ new.members = actor[a].members
        /\ new.todo = actor[a].todo /\ new.listed = actor[a].listed
    BY <1>2 DEF Actor, Places, Looking, Working
  <1> HIDE DEF new
  <1>5. new.listed = {}
    BY <1>1, <1>4 DEF IInv, Listings, Listing, Looking
  <1>6. \A id \in record' \cup new.members \cup new.todo : id \in Identity /\ Trusted(id)
    BY <1>2, <1>3, <1>4, RecordFacts
  <1>7. QED
    BY <1>1, <1>3, <1>4, <1>5, <1>6, TurnsStep

\* Who appears during the grace comes from the browser, like the others.
LEMMA GraceLookStep ==
    ASSUME IInv, NEW a \in Actors, GraceLook(a)
    PROVE  IInv'
  <1>0. actor[a].at = "grace" /\ actor[a].at \in Working
    BY DEF GraceLook, Looks, At, Working
  <1>1. /\ actor[a] \in Actor /\ actor \in [Actors -> Actor] /\ leader # None
        /\ \A id \in actor[a].members \cup actor[a].todo : id \in Identity /\ Trusted(id)
    BY <1>0, WorkingFacts
  <1>2. CASE Blocked(a)
    BY <1>0, <1>2, StopsStep DEF GraceLook
  <1>3. CASE ~Blocked(a) /\ Owned(a) = {}
    BY <1>0, <1>3, CleanedStep DEF GraceLook
  <1>4. CASE ~Blocked(a) /\ Owned(a) # {}
    <2> DEFINE fresh == {p \in Owned(a) : <<p, table[p].start>> \notin actor[a].members}
               members == actor[a].members \cup Ids(fresh)
               new == [actor[a] EXCEPT !.members = members, !.listed = {}]
    <2>1. /\ Write(a, members) /\ actor' = [actor EXCEPT ![a] = new]
          /\ hit' = hit \cup Ids(Strangers(fresh)) /\ UNCHANGED <<kernel, leader>>
      BY <1>1, <1>4 DEF GraceLook
    <2>2. fresh \in SUBSET Owned(a)
      OBVIOUS
    <2> HIDE DEF fresh
    <2>3. UNCHANGED hit
      <3>1. Strangers(fresh) = {}
        BY <1>1, <2>2, OwnedOurs DEF Strangers
      <3>2. QED
        BY <2>1, <3>1 DEF Ids
    <2>4. \A id \in members : id \in Identity /\ Trusted(id)
      BY <1>1, <2>2, OwnedIds
    <2> HIDE DEF members
    <2>5. /\ new \in Actor /\ new.at = "grace" /\ new.members = members
          /\ new.todo = actor[a].todo /\ new.listed = {}
      BY <1>0, <1>1, <2>4 DEF Actor
    <2> HIDE DEF new
    <2>6. \A id \in record' \cup new.members \cup new.todo : id \in Identity /\ Trusted(id)
      BY <1>1, <2>1, <2>4, <2>5, WriteFacts
    <2>7. QED
      BY <1>0, <2>1, <2>3, <2>5, <2>6, TurnsStep
  <1>5. QED
    BY <1>2, <1>3, <1>4

LEMMA GraceOverStep ==
    ASSUME IInv, NEW a \in Actors, GraceOver(a)
    PROVE  IInv'
  <1>0. actor[a].at = "grace" /\ actor[a].at \in Working
    BY DEF GraceOver, Looks, At, Working
  <1>1. /\ actor[a] \in Actor /\ actor \in [Actors -> Actor] /\ leader # None
        /\ \A id \in actor[a].members : id \in Identity /\ Trusted(id)
    BY <1>0, WorkingFacts
  <1>2. CASE Blocked(a)
    BY <1>0, <1>2, StopsStep DEF GraceOver
  <1>3. CASE ~Blocked(a)
    <2> DEFINE found == Ids(Owned(a))
               new == [actor[a] EXCEPT !.at = "kill", !.todo = found, !.listed = {}]
    <2>1. \A id \in found : id \in Identity /\ Trusted(id)
      BY <1>1, OwnedIds
    <2>2. actor' = [actor EXCEPT ![a] = new] /\ UNCHANGED <<kernel, leader, record, hit>>
      BY <1>1, <1>3 DEF GraceOver
    <2> HIDE DEF found
    <2>3. /\ new \in Actor /\ new.at \in Working /\ new.members = actor[a].members
          /\ new.todo = found /\ new.listed = {}
      BY <1>1, <2>1 DEF Actor, Places, Working
    <2> HIDE DEF new
    <2>4. \A id \in record' \cup new.members \cup new.todo : id \in Identity /\ Trusted(id)
      BY <1>1, <2>1, <2>2, <2>3, RecordFacts
    <2>5. QED
      BY <1>0, <2>2, <2>3, <2>4, TurnsStep
  <1>4. QED
    BY <1>2, <1>3

\* A place is left, or the actor looks once more, with what it knows.
LEMMA MovesStep ==
    ASSUME IInv, NEW a \in Actors, actor[a].at \in Working \cup {"loaded"}, NEW place \in Working,
           actor' = [actor EXCEPT ![a].at = place, ![a].listed = {}] \/ (place = actor[a].at /\ Again(a)),
           UNCHANGED <<kernel, leader, record, hit>>
    PROVE  IInv'
  <1> DEFINE new == [actor[a] EXCEPT !.at = place, !.listed = {}]
  <1>1. /\ actor[a] \in Actor /\ actor \in [Actors -> Actor]
        /\ \A id \in actor[a].members \cup actor[a].todo : id \in Identity /\ Trusted(id)
    BY WorkingFacts
  <1>2. actor' = [actor EXCEPT ![a] = new]
    <2>1. CASE actor' = [actor EXCEPT ![a].at = place, ![a].listed = {}]
      BY <1>1, <2>1
    <2>2. CASE place = actor[a].at /\ Again(a)
      <3>1. new = [actor[a] EXCEPT !.listed = {}]
        BY <1>1, <2>2 DEF Actor
      <3> HIDE DEF new
      <3>2. QED
        BY <2>2, <3>1 DEF Again
    <2>3. QED
      BY <2>1, <2>2
  <1>3. /\ new \in Actor /\ new.at = place /\ new.members = actor[a].members
        /\ new.todo = actor[a].todo /\ new.listed = {}
    BY <1>1 DEF Actor, Places, Looking, Working
  <1> HIDE DEF new
  <1>4. \A id \in record' \cup new.members \cup new.todo : id \in Identity /\ Trusted(id)
    BY <1>1, <1>3, RecordFacts
  <1>5. QED
    BY <1>2, <1>3, <1>4, TurnsStep

LEMMA KillLookStep ==
    ASSUME IInv, NEW a \in Actors, KillLook(a)
    PROVE  IInv'
  <1>0. actor[a].at \in Working
    BY DEF KillLook, Looks, At, Working
  <1>1. CASE Stops(a)
    BY <1>0, <1>1, StopsStep
  <1>2. CASE Cleaned(a)
    BY <1>0, <1>2, CleanedStep
  <1>3. CASE Again(a)
    <2>1. UNCHANGED <<kernel, leader, record, hit>>
      BY <1>3 DEF Again
    <2>2. QED
      BY <1>0, <1>3, <2>1, MovesStep
  <1>4. QED
    BY <1>1, <1>2, <1>3 DEF KillLook

-----------------------------------------------------------------------------
(* The wrapper                                                                *)

LEMMA LaunchStep ==
    ASSUME IInv, NEW q \in Pid, Launch(q)
    PROVE  IInv'
  <1>0. TypeOK /\ WrapperFacts /\ LeaderFacts /\ Records /\ starts \in Nat /\ Wrapper # 0
    BY PidAssumption DEF IInv, TypeOK
  <1>1. /\ actor["wrapper"].at = "idle" /\ WrapperRuns /\ NewProcess(q, Wrapper, q, TRUE)
        /\ leader' = <<q, starts + 1>>
        /\ actor' = [actor EXCEPT !["wrapper"].at = "started"]
        /\ UNCHANGED <<record, hit>>
    BY DEF Launch, At
  <1>2. /\ actor' \in [Actors -> Actor] /\ actor'["wrapper"].at = "started"
        /\ actor'["cleaner"] = actor["cleaner"]
        /\ \A a \in Actors : /\ actor'[a].members = actor[a].members /\ actor'[a].todo = actor[a].todo
                             /\ actor'[a].listed = actor[a].listed
    BY <1>0, <1>1 DEF TypeOK, Actors, Actor, Places
  <1>3. /\ table' \in Tables /\ starts' \in 0 .. MaxStart /\ starts' = starts + 1
        /\ q \notin Present /\ Present' = Present \cup {q}
        /\ table'[q].start = starts' /\ table'[q].ours = TRUE /\ table'[q].session = q
        /\ Kept /\ WrapperFacts' /\ Kinship' /\ Sessions'
    <2>1. Wrapper \in Alive /\ Wrapper \in Pid
      BY <1>0, <1>1, RunsFacts DEF WrapperFacts, Alive, Present
    <2>2. \A p \in Present : table[p].session # q
      BY <1>1 DEF NewProcess, Free
    <2>3. SamePhase
      BY <1>1, <1>2 DEF SamePhase
    <2>4. QED
      BY <1>0, <1>1, <2>1, <2>2, <2>3, NewProcessFacts DEF SamePhase
  <1>4. leader = None /\ record = {} /\ At("cleaner", "idle")
    BY <1>0, <1>1 DEF LeaderFacts, Records
  <1>5. Wrapper \in Present
    BY <1>1, RunsFacts
  <1>6. leader' \in Identity /\ leader' # None /\ leader'[1] = q /\ leader'[2] = starts'
    BY <1>0, <1>1, <1>3, PidAssumption DEF Identity
  <1>7. TypeOK'
    BY <1>0, <1>1, <1>2, <1>3, <1>6 DEF TypeOK, Tables, Actor
  <1>8. LeaderFacts'
    BY <1>0, <1>2, <1>3, <1>5, <1>6 DEF LeaderFacts, Trusted
  <1>9. Records'
    <2>1. \A id \in record' : Trusted(id)'
      BY <1>1, <1>4
    <2>2. \A a \in Actors : \A id \in actor'[a].members \cup actor'[a].todo : Trusted(id)'
      BY <1>0, <1>2, <1>3, TrustStays DEF Records, TypeOK
    <2>3. QED
      BY <1>6, <2>1, <2>2 DEF Records
  <1>10. Listings'
    <2>1. Listing("wrapper") /\ "wrapper" \in Actors
      BY DEF IInv, Listings, Actors
    <2>2. actor'["wrapper"].listed = {}
      BY <1>1, <1>2, <2>1 DEF Listing, Looking
    <2>3. Listing("cleaner")'
      BY <1>2, <1>3, ListingStays DEF Actors
    <2>4. QED
      BY <2>2, <2>3 DEF Listings, Listing, Actors
  <1>11. QED
    BY <1>1, <1>3, <1>7, <1>8, <1>9, <1>10 DEF IInv, OnlyTheRunIsSignalled

LEMMA FirstRecordStep ==
    ASSUME IInv, FirstRecord
    PROVE  IInv'
  <1> DEFINE new == [actor["wrapper"] EXCEPT !.at = "guard", !.members = {leader}]
  <1>0. TypeOK /\ WrapperFacts /\ LeaderFacts /\ Records /\ Listing("wrapper") /\ "wrapper" \in Actors
    BY DEF IInv, Listings, Actors
  <1>1. /\ actor["wrapper"].at = "started" /\ record' = {leader}
        /\ actor' = [actor EXCEPT !["wrapper"].at = "guard", !["wrapper"].members = {leader}]
        /\ UNCHANGED <<kernel, leader, hit>>
    BY DEF FirstRecord, At
  <1>2. leader # None /\ leader \in Identity /\ Trusted(leader)
    BY <1>0, <1>1 DEF LeaderFacts, TypeOK
  <1>3. actor \in [Actors -> Actor] /\ actor["wrapper"] \in Actor /\ actor["wrapper"].listed = {}
    BY <1>0, <1>1 DEF TypeOK, Actor, Listing, Looking
  <1>4. actor' = [actor EXCEPT !["wrapper"] = new]
    BY <1>0, <1>1, <1>3
  <1>5. /\ new \in Actor /\ new.at = "guard" /\ new.members = {leader}
        /\ new.todo = actor["wrapper"].todo /\ new.listed = {}
    BY <1>2, <1>3 DEF Actor, Places, Looking
  <1> HIDE DEF new
  <1>6. /\ actor' \in [Actors -> Actor] /\ actor'["wrapper"] = new
        /\ \A b \in Actors \ {"wrapper"} : actor'[b] = actor[b]
    BY <1>0, <1>3, <1>4, <1>5
  <1>7. SamePhase
    BY <1>1, <1>5, <1>6 DEF SamePhase
  <1>8. table' \in Tables /\ Kept /\ WrapperFacts' /\ Kinship' /\ Sessions' /\ starts' \in 0 .. MaxStart
    BY <1>0, <1>1, <1>7, NoProcessFacts DEF kernel, TypeOK
  <1>9. \A id \in record' \cup new.members \cup new.todo : id \in Identity /\ Trusted(id)
    BY <1>0, <1>1, <1>2, <1>3, <1>5 DEF Records, Actor
  <1>10. Listing("wrapper")'
    BY <1>5, <1>6 DEF Listing
  <1>11. QED
    BY <1>0, <1>1, <1>2, <1>5, <1>6, <1>8, <1>9, <1>10, ActorStep

LEMMA GuardStep ==
    ASSUME IInv, Guard
    PROVE  IInv'
  <1>0. /\ actor["wrapper"].at = "guard" /\ actor["wrapper"].at \in Working /\ "wrapper" \in Actors
    BY DEF Guard, Looks, At, Working, Actors
  <1>1. /\ actor["wrapper"] \in Actor /\ actor \in [Actors -> Actor] /\ leader # None /\ TypeOK
        /\ \A id \in actor["wrapper"].members \cup actor["wrapper"].todo : id \in Identity /\ Trusted(id)
    BY <1>0, WorkingFacts
  <1>2. CASE Blocked("wrapper")
    <2> DEFINE new == [actor["wrapper"] EXCEPT !.at = "cleanup", !.listed = {}, !.again = TRUE]
    <2>1. actor' = [actor EXCEPT !["wrapper"] = new] /\ UNCHANGED <<kernel, leader, record, hit>>
      BY <1>1, <1>2 DEF Guard
    <2>2. /\ new \in Actor /\ new.at \in Working /\ new.members = actor["wrapper"].members
          /\ new.todo = actor["wrapper"].todo /\ new.listed = {}
      BY <1>1 DEF Actor, Places, Looking, Working
    <2> HIDE DEF new
    <2>3. \A id \in record' \cup new.members \cup new.todo : id \in Identity /\ Trusted(id)
      BY <1>1, <2>1, <2>2, RecordFacts
    <2>4. QED
      BY <1>0, <2>1, <2>2, <2>3, TurnsStep
  <1>3. CASE ~Blocked("wrapper")
    <2> DEFINE found == Ids(Owned("wrapper"))
               members == actor["wrapper"].members \cup found
               D == {p \in Pid : p = leader[1] /\ Is(leader[1], leader) /\ table[leader[1]].dead}
    <2>1. /\ Write("wrapper", members)
          /\ table' = IF Is(leader[1], leader) /\ table[leader[1]].dead
                      THEN [table EXCEPT ![leader[1]] = None] ELSE table
          /\ UNCHANGED <<starts, leader, hit>>
      BY <1>3 DEF Guard
    <2>2. PICK place \in {"cleanup", "guard"} :
             actor' = [actor EXCEPT !["wrapper"].at = place, !["wrapper"].listed = {},
                                    !["wrapper"].members = members]
      BY <1>3 DEF Guard
    <2> DEFINE new == [actor["wrapper"] EXCEPT !.at = place, !.listed = {}, !.members = members]
    <2>3. actor' = [actor EXCEPT !["wrapper"] = new]
      BY <1>1, <2>2
    <2>4. table' = [p \in Pid |-> IF p \in D THEN None ELSE table[p]]
      BY <1>1, <2>1 DEF TypeOK
    <2>5. D \in SUBSET Pid /\ \A p \in D : p \in Present => table[p].dead
      OBVIOUS
    <2>6. \A id \in members : id \in Identity /\ Trusted(id)
      BY <1>0, <1>1, OwnedIds
    <2> HIDE DEF members, D
    <2>7. /\ new \in Actor /\ new.at = place /\ new.members = members
          /\ new.todo = actor["wrapper"].todo /\ new.listed = {}
      BY <1>1, <2>6 DEF Actor, Places, Looking
    <2> HIDE DEF new
    <2>8. SamePhase
      BY <1>0, <1>1, <2>3, <2>7 DEF SamePhase
    <2>9. table' \in Tables /\ Kept /\ WrapperFacts' /\ Kinship' /\ Sessions'
      BY <2>1, <2>4, <2>5, <2>8, ReapFacts
    <2>10. \A id \in record' \cup new.members \cup new.todo : id \in Identity /\ Trusted(id)
      BY <1>0, <1>1, <2>1, <2>6, <2>7, WriteFacts
    <2>11. new.at # "idle"
      BY <2>7
    <2>12. QED
      BY <1>0, <2>1, <2>3, <2>7, <2>9, <2>10, <2>11, GoesOnStep
  <1>4. QED
    BY <1>2, <1>3

\* A wrapper that is killed takes nothing with it.
LEMMA WrapperKilledStep ==
    ASSUME IInv, WrapperKilled
    PROVE  IInv'
  <1> DEFINE new == [Idle EXCEPT !.at = "gone"]
  <1>0. TypeOK /\ WrapperFacts /\ "wrapper" \in Actors /\ actor \in [Actors -> Actor]
    BY DEF IInv, Actors, TypeOK, Actor
  <1>1. /\ WrapperRuns /\ leader # None /\ table' = WrapperEnded
        /\ actor' = [actor EXCEPT !["wrapper"] = new]
        /\ UNCHANGED <<starts, leader, record, hit>>
    BY DEF WrapperKilled
  <1>2. new \in Actor /\ new.at = "gone" /\ new.members = {} /\ new.todo = {} /\ new.listed = {}
    BY IdleFacts DEF Places
  <1> HIDE DEF new
  <1>3. /\ actor' \in [Actors -> Actor] /\ actor'["wrapper"] = new
        /\ \A b \in Actors \ {"wrapper"} : actor'[b] = actor[b]
    BY <1>0, <1>1, <1>2
  <1>4. table' \in Tables /\ Kept /\ WrapperFacts' /\ Kinship' /\ Sessions'
    BY <1>1, <1>2, <1>3, WrapperEndedFacts
  <1>5. \A id \in record' \cup new.members \cup new.todo : id \in Identity /\ Trusted(id)
    BY <1>1, <1>2, RecordFacts
  <1>6. Listing("wrapper")' /\ starts' \in 0 .. MaxStart
    BY <1>0, <1>1, <1>2, <1>3 DEF Listing, TypeOK
  <1>7. QED
    BY <1>0, <1>1, <1>2, <1>3, <1>4, <1>5, <1>6, ActorStep

-----------------------------------------------------------------------------
(* The cleaner                                                                *)

\* The cleaner starts or is killed, whatever the wrapper does.
LEMMA CleanerStep ==
    ASSUME IInv, UNCHANGED <<kernel, leader, record, hit>>, leader # None,
           NEW new \in Actor, actor' = [actor EXCEPT !["cleaner"] = new], new.listed = {},
           \A id \in new.members \cup new.todo : id \in Identity /\ Trusted(id)
    PROVE  IInv'
  <1>0. TypeOK /\ LeaderFacts /\ "cleaner" \in Actors /\ actor \in [Actors -> Actor]
    BY DEF IInv, Actors, TypeOK, Actor
  <1>1. /\ actor' \in [Actors -> Actor] /\ actor'["cleaner"] = new
        /\ \A b \in Actors \ {"cleaner"} : actor'[b] = actor[b]
        /\ actor'["wrapper"] = actor["wrapper"]
    BY <1>0 DEF Actors
  <1>2. SamePhase /\ actor'["wrapper"].at # "idle" /\ starts' \in 0 .. MaxStart
    BY <1>0, <1>1 DEF SamePhase, LeaderFacts, kernel, TypeOK
  <1>3. table' \in Tables /\ Kept /\ WrapperFacts' /\ Kinship' /\ Sessions' /\ Children /\ Offspring
    BY <1>2, NoProcessFacts
  <1>4. Listing("cleaner")'
    BY <1>1 DEF Listing
  <1>5. \A id \in record' \cup new.members \cup new.todo : id \in Identity /\ Trusted(id)
    BY RecordFacts
  <1>6. QED
    BY <1>0, <1>1, <1>2, <1>3, <1>4, <1>5, ActorStep

LEMMA StaleLoadStep ==
    ASSUME IInv, StaleLoad
    PROVE  IInv'
  <1> DEFINE new == [actor["cleaner"] EXCEPT !.at = "loaded", !.members = record]
  <1>0. TypeOK /\ Records /\ Listing("cleaner") /\ "cleaner" \in Actors
    BY DEF IInv, Listings, Actors
  <1>1. /\ actor["cleaner"].at = "idle" /\ record # {}
        /\ actor' = [actor EXCEPT !["cleaner"].at = "loaded", !["cleaner"].members = record]
        /\ UNCHANGED <<kernel, leader, record, hit>>
    BY DEF StaleLoad, At
  <1>2. /\ actor \in [Actors -> Actor] /\ actor["cleaner"] \in Actor /\ record \subseteq Identity
        /\ actor["cleaner"].listed = {} /\ leader # None
        /\ \A id \in actor["cleaner"].todo : id \in Identity /\ Trusted(id)
    BY <1>0, <1>1 DEF TypeOK, Actor, Listing, Looking, Records
  <1>3. new \in Actor /\ new.members = record /\ new.todo = actor["cleaner"].todo /\ new.listed = {}
    BY <1>2 DEF Actor, Places, Looking
  <1>4. actor' = [actor EXCEPT !["cleaner"] = new]
    BY <1>1, <1>2
  <1> HIDE DEF new
  <1>5. \A id \in new.members \cup new.todo : id \in Identity /\ Trusted(id)
    BY <1>2, <1>3, RecordFacts
  <1>6. QED
    BY <1>1, <1>2, <1>3, <1>4, <1>5, CleanerStep

LEMMA StaleEligibleStep ==
    ASSUME IInv, StaleEligible
    PROVE  IInv'
  <1>0. /\ "cleaner" \in Actors /\ actor["cleaner"].at \in Working \cup {"loaded"}
        /\ "eligible" \in Working /\ UNCHANGED <<kernel, leader, record, hit>>
    BY DEF StaleEligible, Looks, At, Actors, Working
  <1>1. leader # None /\ actor \in [Actors -> Actor] /\ actor["cleaner"] \in Actor
    BY <1>0, WorkingFacts
  <1>2. CASE SeesWrapper("cleaner") \/ Blocked("cleaner")
    <2>1. actor' = [actor EXCEPT !["cleaner"] = Idle]
      BY <1>2 DEF StaleEligible
    <2>2. QED
      BY <1>0, <1>1, <2>1, IdleFacts, CleanerStep
  <1>3. CASE ~(SeesWrapper("cleaner") \/ Blocked("cleaner"))
    <2>1. actor' = [actor EXCEPT !["cleaner"].at = "eligible", !["cleaner"].listed = {}]
      BY <1>1, <1>3 DEF StaleEligible
    <2>2. QED
      BY <1>0, <2>1, MovesStep
  <1>4. QED
    BY <1>2, <1>3

LEMMA StaleActStep ==
    ASSUME IInv, StaleAct
    PROVE  IInv'
  <1>0. /\ "cleaner" \in Actors /\ actor["cleaner"].at \in Working /\ "cleanup" \in Working
    BY DEF StaleAct, Looks, At, Actors, Working
  <1>1. CASE Blocked("cleaner")
    BY <1>0, <1>1, StopsStep DEF StaleAct
  <1>2. CASE ~Blocked("cleaner") /\ Owned("cleaner") = {}
    BY <1>0, <1>2, CleanedStep DEF StaleAct
  <1>3. CASE ~Blocked("cleaner") /\ Owned("cleaner") # {}
    <2>1. /\ actor' = [actor EXCEPT !["cleaner"].at = "cleanup", !["cleaner"].listed = {}]
          /\ UNCHANGED <<kernel, leader, record, hit>>
      BY <1>3 DEF StaleAct
    <2>2. QED
      BY <1>0, <2>1, MovesStep
  <1>4. QED
    BY <1>1, <1>2, <1>3

LEMMA CleanerKilledStep ==
    ASSUME IInv, CleanerKilled
    PROVE  IInv'
  <1>1. /\ ~At("cleaner", "idle") /\ actor' = [actor EXCEPT !["cleaner"] = Idle]
        /\ UNCHANGED <<kernel, leader, record, hit>>
    BY DEF CleanerKilled
  <1>2. leader # None
    BY <1>1 DEF IInv, Records
  <1>3. QED
    BY <1>1, <1>2, IdleFacts, CleanerStep

-----------------------------------------------------------------------------
(* The kernel                                                                 *)

LEMMA KernelKeeps ==
    ASSUME IInv, Kernel
    PROVE  IInv'
  <1>0. TypeOK /\ WrapperFacts /\ Kinship /\ Sessions /\ Wrapper # 0
    BY PidAssumption DEF IInv
  <1>1. UNCHANGED <<leader, record, actor, hit>> /\ SamePhase
    BY DEF Kernel, StrangerStarts, Setsid, Exit, Fork, User, SamePhase
  <1>2. /\ table' \in Tables /\ starts' \in 0 .. MaxStart /\ Kept
        /\ WrapperFacts' /\ Kinship' /\ Sessions' /\ Children /\ Offspring
    <2>1. CASE \E q \in Pid : StrangerStarts(q)
      <3>1. PICK q \in Pid : NewProcess(q, 0, q, FALSE)
        BY <2>1 DEF StrangerStarts
      <3>2. \A p \in Present : table[p].session # q
        BY <3>1 DEF NewProcess, Free
      <3>3. /\ table' \in Tables /\ starts' \in 0 .. MaxStart /\ starts' = starts + 1
            /\ Present' = Present \cup {q} /\ table'[q].ours = FALSE
            /\ \A p \in Present : table'[p].ours = table[p].ours
            /\ Kept /\ WrapperFacts' /\ Kinship' /\ Sessions' /\ Children
        BY <1>1, <3>1, <3>2, NewProcessFacts DEF SamePhase
      <3>4. Offspring
        BY <1>0, <3>3 DEF Offspring
      <3>5. QED
        BY <3>3, <3>4
    <2>2. CASE \E p \in Pid, q \in Pid : Fork(p, q)
      <3>1. PICK p \in Pid, q \in Pid :
               p \in Forkers /\ NewProcess(q, p, table[p].session, table[p].ours)
        BY <2>2 DEF Fork
      <3>2. p \in Alive /\ p \in Present /\ ~(p = Wrapper /\ WrapperRuns)
        BY <3>1 DEF Forkers, Alive, WrapperRuns, Is
      <3>3. table[p].session \in Pid /\ table[p].ours \in BOOLEAN /\ p # 0
        BY <1>0, <3>2, ProcessFacts
      <3>4. \A r \in Present : table[r].session = table[p].session => table[r].ours = table[p].ours
        BY <1>0, <3>2 DEF Sessions
      <3>5. /\ table' \in Tables /\ starts' \in 0 .. MaxStart /\ starts' = starts + 1
            /\ Present' = Present \cup {q} /\ table'[q].ours = table[p].ours
            /\ \A r \in Present : table'[r].ours = table[r].ours
            /\ Kept /\ WrapperFacts' /\ Kinship' /\ Sessions' /\ Children
        BY <1>1, <3>1, <3>2, <3>3, <3>4, NewProcessFacts DEF SamePhase
      <3>6. Offspring
        BY <1>0, <3>2, <3>5 DEF Offspring
      <3>7. QED
        BY <3>5, <3>6
    <2>3. CASE \E p \in Pid : Setsid(p)
      BY <1>0, <2>3, SetsidFacts DEF TypeOK
    <2>4. CASE \E p \in Pid : Exit(p)
      <3>1. PICK p \in Pid : p \in Forkers /\ table' = Ended(p) /\ UNCHANGED starts
        BY <2>4 DEF Exit
      <3>2. p \in Alive /\ ~(p = Wrapper /\ WrapperRuns)
        BY <3>1 DEF Forkers, Alive, WrapperRuns, Is
      <3>3. QED
        BY <1>0, <1>1, <3>1, <3>2, EndedFacts DEF TypeOK
    <2>5. QED
      BY <2>1, <2>2, <2>3, <2>4 DEF Kernel
  <1>3. TypeOK'
    BY <1>0, <1>1, <1>2 DEF TypeOK, Tables
  <1>4. QED
    BY <1>1, <1>2, <1>3, KernelStep

-----------------------------------------------------------------------------
(* The invariant                                                              *)

LEMMA InvInit == Init => IInv
  <1> SUFFICES ASSUME Init PROVE IInv
    OBVIOUS
  <1> DEFINE w == [start |-> 0, parent |-> 0, session |-> Wrapper, ours |-> FALSE, dead |-> FALSE]
  <1>1. /\ \A p \in Pid : table[p] = IF p = Wrapper THEN w ELSE None
        /\ table = [p \in Pid |-> table[p]]
        /\ starts = 0 /\ leader = None /\ record = {} /\ actor = [a \in Actors |-> Idle] /\ hit = {}
    BY DEF Init
  <1>2. Wrapper \in Pid /\ w \in Process /\ None \notin Process /\ MaxStart \in Nat
    BY PidAssumption DEF Process
  <1>3. w # None /\ w.start = 0 /\ w.parent = 0 /\ w.session = Wrapper /\ w.ours = FALSE /\ w.dead = FALSE
    BY <1>2
  <1>4. Present = {Wrapper} /\ table[Wrapper] = w
    BY <1>1, <1>2, <1>3 DEF Present
  <1>5. TypeOK
    <2>1. table \in [Pid -> Process \cup {None}]
      BY <1>1, <1>2
    <2>2. Idle \in Actor
      BY IdleFacts
    <2>3. QED
      BY <1>1, <1>2, <2>1, <2>2 DEF TypeOK, Actor
  <1> HIDE DEF w
  <1>6. \A a \in Actors : /\ actor[a].at = "idle" /\ actor[a].members = {} /\ actor[a].todo = {}
                          /\ actor[a].listed = {}
    BY <1>1, IdleFacts
  <1>7. "wrapper" \in Actors /\ "cleaner" \in Actors
    BY DEF Actors
  <1>8. WrapperRuns
    BY <1>3, <1>4 DEF WrapperRuns, Is
  <1>9. WrapperFacts /\ LeaderFacts /\ Records /\ Listings
    BY <1>1, <1>3, <1>4, <1>6, <1>7, <1>8 DEF WrapperFacts, LeaderFacts, Records, Listings, Listing, At
  <1>10. Kinship /\ Sessions /\ OnlyTheRunIsSignalled
    BY <1>1, <1>3, <1>4 DEF Kinship, Sessions, OnlyTheRunIsSignalled
  <1>11. QED
    BY <1>5, <1>9, <1>10 DEF IInv

LEMMA InvStep == IInv /\ [Next]_vars => IInv'
  <1> SUFFICES ASSUME IInv, [Next]_vars PROVE IInv'
    OBVIOUS
  <1>1. CASE UNCHANGED vars
    <2>1. UNCHANGED <<table, starts, leader, record, actor, hit>> /\ UNCHANGED kernel /\ SamePhase
      BY <1>1 DEF vars, kernel, SamePhase
    <2>2. TypeOK'
      BY <2>1 DEF IInv, TypeOK
    <2>3. QED
      BY <2>1, <2>2, NoProcessFacts, KernelStep
  <1>2. CASE Kernel
    BY <1>2, KernelKeeps
  <1>3. CASE (\E q \in Pid : Launch(q)) \/ FirstRecord \/ Guard \/ WrapperKilled
    BY <1>3, LaunchStep, FirstRecordStep, GuardStep, WrapperKilledStep
  <1>4. CASE StaleLoad \/ StaleEligible \/ StaleAct \/ CleanerKilled
    BY <1>4, StaleLoadStep, StaleEligibleStep, StaleActStep, CleanerKilledStep
  <1>5. CASE \E a \in Actors : CleanupStep(a)
    BY <1>5, ListStep, CleanupLookStep, SignalStep, SignalledStep, GraceLookStep, GraceOverStep, KillLookStep
    DEF CleanupStep
  <1>6. QED
    BY <1>1, <1>2, <1>3, <1>4, <1>5 DEF Next

LEMMA Invariance == Spec => []IInv
  BY InvInit, InvStep, PTL DEF Spec

\* Every process, record, copy of it and listing is what it is taken for, whoever is killed.
THEOREM TypeCorrect == Spec => []TypeOK
  <1>1. IInv => TypeOK
    BY DEF IInv
  <1>2. QED
    BY <1>1, Invariance, PTL

\* No stranger is ever signalled, however pids and session numbers are used again.
THEOREM RunOnlySignalled == Spec => []OnlyTheRunIsSignalled
  <1>1. IInv => OnlyTheRunIsSignalled
    BY DEF IInv
  <1>2. QED
    BY <1>1, Invariance, PTL

-----------------------------------------------------------------------------
(* The end of a run                                                           *)

\* The record is removed by an actor that looked and found nothing.
LEMMA RemovedAfterLook ==
    ASSUME IInv, Next, record # {}, record' = {}
    PROVE  \E a \in Actors : /\ actor[a].at \in Working /\ actor[a].listed # {}
                             /\ Cleaned(a) /\ ~Blocked(a) /\ Owned(a) = {}
  <1>1. CASE Kernel
    BY <1>1 DEF Kernel, StrangerStarts, Setsid, Exit, Fork, User
  <1>2. CASE (\E q \in Pid : Launch(q)) \/ FirstRecord \/ WrapperKilled
    BY <1>2 DEF Launch, FirstRecord, WrapperKilled
  <1>3. CASE StaleLoad \/ StaleEligible \/ CleanerKilled
    BY <1>3 DEF StaleLoad, StaleEligible, CleanerKilled
  <1>4. CASE Guard
    BY <1>4 DEF Guard, Write
  <1>5. CASE StaleAct
    <2>1. "cleaner" \in Actors /\ actor["cleaner"].at \in Working /\ actor["cleaner"].listed # {}
      BY <1>5 DEF StaleAct, Looks, At, Actors, Working
    <2>2. QED
      BY <1>5, <2>1 DEF StaleAct, Stops
  <1>6. ASSUME NEW a \in Actors, CleanupStep(a)
        PROVE  /\ actor[a].at \in Working /\ actor[a].listed # {}
               /\ Cleaned(a) /\ ~Blocked(a) /\ Owned(a) = {}
    <2>1. CASE List(a)
      BY <2>1 DEF List
    <2>2. CASE CleanupLook(a)
      BY <2>2 DEF CleanupLook, Stops, Write
    <2>3. CASE Signal(a) \/ Signalled(a) \/ GraceOver(a)
      BY <2>3 DEF Signal, Signalled, GraceOver, Stops
    <2>4. CASE GraceLook(a)
      <3>1. actor[a].at \in Working /\ actor[a].listed # {}
        BY <2>4 DEF GraceLook, Looks, At, Working
      <3>2. QED
        BY <2>4, <3>1 DEF GraceLook, Stops, Write
    <2>5. CASE KillLook(a)
      <3>1. actor[a].at \in Working /\ actor[a].listed # {}
        BY <2>5 DEF KillLook, Looks, At, Working
      <3>2. QED
        BY <2>5, <3>1 DEF KillLook, Stops, Again
    <2>6. QED
      BY <1>6, <2>1, <2>2, <2>3, <2>4, <2>5 DEF CleanupStep
  <1>7. QED
    BY <1>1, <1>2, <1>3, <1>4, <1>5, <1>6 DEF Next

\* Only the actor that removes the record changes with it.
LEMMA CleanedLeavesNothing ==
    ASSUME IInv, NEW b \in Actors, actor[b].at \in Working, actor[b].listed # {},
           Cleaned(b), ~Blocked(b), Owned(b) = {},
           NEW a \in Actors, actor'[a] # actor[a], NEW p \in Alive', table'[p].ours
    PROVE  /\ <<p, table'[p].start>> \notin actor[a].members
           /\ table'[p].session = leader[1] => p \notin actor[a].listed
           /\ a # "wrapper"
  <1>0. actor \in [Actors -> Actor] /\ leader # None /\ (b = "wrapper" => WrapperRuns)
    BY WorkingFacts
  <1>1. a = b
    BY <1>0 DEF Cleaned
  <1>2. CASE b = "wrapper"
    <2>1. table' = WrapperEnded /\ UNCHANGED starts
      BY <1>2 DEF Cleaned
    <2>2. actor'["wrapper"].at = "done"
      BY <1>0, <1>2, IdleFacts DEF Cleaned, Places
    <2>3. p \in Present /\ table[p].ours
      BY <1>0, <1>2, <2>1, <2>2, WrapperEndedFacts DEF Alive
    <2>4. b # "wrapper"
      BY <1>0, <2>3, NothingOwned
    <2>5. QED
      BY <1>2, <2>4
  <1>3. CASE b = "cleaner"
    <2>1. table' = table
      BY <1>3 DEF Cleaned
    <2>2. p \in Present /\ table[p].ours
      BY <2>1 DEF Alive, Present
    <2>3. /\ <<p, table[p].start>> \notin actor[b].members
          /\ table[p].session = leader[1] => p \notin actor[b].listed
          /\ b # "wrapper"
      BY <1>0, <2>2, NothingOwned
    <2>4. QED
      BY <1>1, <2>1, <2>3
  <1>4. QED
    BY <1>2, <1>3 DEF Actors

\* With the record goes the last living process that the copy of it in the hands of whoever removes
\* it names, and the last of the browser's session that was there when it listed the processes; a
\* wrapper that removes it leaves nothing that came from the browser. What was recorded after the
\* copy was made, or forked after the listing by an orphan, is not spoken of: it can be left.
THEOREM NothingLeftBehind == Spec => NothingIsLeftBehind
  <1>1. IInv /\ [Next]_vars =>
           [\A a \in Actors : record # {} /\ record' = {} /\ actor'[a] # actor[a] =>
               \A p \in Alive' : table'[p].ours =>
                  /\ <<p, table'[p].start>> \notin actor[a].members
                  /\ table'[p].session = leader[1] => p \notin actor[a].listed
                  /\ a # "wrapper"]_vars
    <2>1. SUFFICES ASSUME IInv, Next, NEW a \in Actors, record # {}, record' = {}, actor'[a] # actor[a],
                          NEW p \in Alive', table'[p].ours
                   PROVE  /\ <<p, table'[p].start>> \notin actor[a].members
                          /\ table'[p].session = leader[1] => p \notin actor[a].listed
                          /\ a # "wrapper"
      OBVIOUS
    <2>2. PICK b \in Actors : /\ actor[b].at \in Working /\ actor[b].listed # {}
                              /\ Cleaned(b) /\ ~Blocked(b) /\ Owned(b) = {}
      BY <2>1, RemovedAfterLook
    <2>3. QED
      BY <2>1, <2>2, CleanedLeavesNothing
  <1>2. QED
    BY <1>1, Invariance, PTL DEF Spec, NothingIsLeftBehind
=============================================================================
