--------------------------- MODULE LiveAuthProofs ---------------------------
(* Theorems about LIVE-AUTH, for every number of processes, issues, requests *)
(* and commits.                                                              *)
EXTENDS LiveAuthOneShot, TLAPS

\* All of a process's memory that the others see stays.
Keeps(q) ==
    /\ pc'[q] = pc[q] /\ issue'[q] = issue[q] /\ accepted'[q] = accepted[q]
    /\ checks'[q] = checks[q] /\ plan'[q] = plan[q] /\ inserted'[q] = inserted[q]

LEMMA TypeInit == Init => TypeOK
  BY ConstantsAssumption DEF Init, TypeOK, Contents, Shas

\* What a process writes into its own memory, for the type of all.
LEMMA GoToType ==
    ASSUME TypeOK, NEW p \in Procs, NEW l, GoTo(p, l),
           l \in {"idle", "discover"} \cup Validating \cup Consuming \cup Mutating \cup Dry
    PROVE  /\ pc' \in [Procs -> {"idle", "discover"} \cup Validating \cup Consuming
                                \cup Mutating \cup Dry]
           /\ pc'[p] = l
           /\ \A q \in Procs \ {p} : pc'[q] = pc[q]
  BY DEF TypeOK, GoTo

LEMMA ExitType ==
    ASSUME TypeOK, NEW p \in Procs, Exit(p)
    PROVE  /\ pc' \in [Procs -> {"idle", "discover"} \cup Validating \cup Consuming
                                \cup Mutating \cup Dry]
           /\ issue' \in [Procs -> Issues \cup {None}]
           /\ accepted' \in [Procs -> Bodies \cup {None}]
           /\ candidate' \in [Procs -> Bodies \cup {None}]
           /\ checks' \in [Procs -> 0 .. 4]
           /\ plan' \in [Procs -> Seq({"fetch"} \cup Objects)]
           /\ inserted' \in [Procs -> Issues \cup {None}]
           /\ pc'[p] = "idle" /\ checks'[p] = 0
           /\ \A q \in Procs \ {p} : Keeps(q)
  BY GoToType DEF TypeOK, Exit, GoTo, Keeps

LEMMA CloseStoreType ==
    ASSUME TypeOK, NEW p, NEW rows, rows \subseteq Rows, CloseStore(p, rows)
    PROVE  file' \subseteq Rows
  BY DEF TypeOK, CloseStore

\* The plan is a sequence of mutations in the order of the budget; it is empty
\* when nothing is absent, and never ends with the fetch.
LEMMA InstallPlanType ==
    /\ InstallPlan \in Seq({"fetch"} \cup Objects)
    /\ \A i \in 1 .. Len(InstallPlan) : InstallPlan[i] = "fetch" => i < Len(InstallPlan)
  <1> DEFINE c == IF host["checkout"] = Absent THEN <<"fetch", "checkout">> ELSE <<>>
             o == IF host["operator"] = Absent THEN <<"operator">> ELSE <<>>
             m == IF host["marker"] = Absent THEN <<"marker">> ELSE <<>>
             M == {"fetch"} \cup Objects
  <1>1. InstallPlan = c \o o \o m
    BY DEF InstallPlan
  <1>2. c \in Seq(M) /\ o \in Seq(M) /\ m \in Seq(M)
    <2>1. "fetch" \in M /\ "checkout" \in M /\ "operator" \in M /\ "marker" \in M
      BY DEF Objects
    <2> HIDE DEF M
    <2>2. <<"fetch", "checkout">> \in Seq(M) /\ <<>> \in Seq(M)
      BY <2>1
    <2>3. <<"operator">> \in Seq(M) /\ <<"marker">> \in Seq(M)
      BY <2>1
    <2>4. QED
      BY <2>2, <2>3
  <1>3. Len(c) \in {0, 2} /\ Len(o) \in {0, 1} /\ Len(m) \in {0, 1}
    OBVIOUS
  <1>4. /\ \A i \in 1 .. Len(c) : c[i] = "fetch" => i < Len(c)
        /\ \A i \in 1 .. Len(o) : o[i] # "fetch"
        /\ \A i \in 1 .. Len(m) : m[i] # "fetch"
    OBVIOUS
  <1> HIDE DEF c, o, m
  <1>5. /\ c \o o \in Seq(M)
        /\ \A i \in 1 .. Len(c \o o) : (c \o o)[i] = "fetch" => i < Len(c \o o)
    BY <1>2, <1>3, <1>4
  <1>6. /\ (c \o o) \o m \in Seq(M)
        /\ \A i \in 1 .. Len((c \o o) \o m) : ((c \o o) \o m)[i] = "fetch" => i < Len((c \o o) \o m)
    BY <1>2, <1>3, <1>4, <1>5
  <1>7. QED
    BY <1>1, <1>6

-----------------------------------------------------------------------------
(* The store *)

\* A new row is one, and belongs to what the process accepted.
LEMMA InsertType ==
    ASSUME TypeOK, NEW p \in Procs, issue[p] \in Issues, accepted[p] \in Bodies, Insert(p)
    PROVE  db' \subseteq Rows
  <1>1. NewRow(p) \in Rows
    BY DEF NewRow, Rows, States
  <1>2. db' = db \cup {NewRow(p)}
    BY DEF Insert
  <1>3. QED
    BY <1>1, <1>2 DEF TypeOK

LEMMA TransitionType ==
    ASSUME TypeOK, NEW p \in Procs, NEW from, NEW to \in States, NEW spend \in BOOLEAN,
           Transition(p, from, to, spend)
    PROVE  db' \subseteq Rows
  <1>1. PICK r \in db : /\ r.body.request = accepted[p].request
                        /\ r.state = from
                        /\ db' = (db \ {r}) \cup {Moved(r, to, spend)}
    BY DEF Transition
  <1>2. r \in Rows
    BY DEF TypeOK
  <1>3. Moved(r, to, spend) \in Rows
    BY <1>2 DEF Rows, Moved
  <1>4. QED
    BY <1>1, <1>3 DEF TypeOK

-----------------------------------------------------------------------------
(* Types, and what a process remembers *)

Memory == TypeOK /\ ChecksCounted /\ HasAccepted /\ PlanLeft /\ OwnsRow

LEMMA MemoryInit == Init => Memory
  BY TypeInit DEF Init, Memory, ChecksCounted, HasAccepted, PlanLeft, OwnsRow, Holding,
                  Validating, Consuming, Mutating, Dry

LEMMA TypeStep ==
    ASSUME Memory, NEW p \in Procs, Step(p)
    PROVE  TypeOK'
  <1> USE DEF Memory, github, store
  <1>0. TypeOK
    OBVIOUS
  <1>1. ASSUME NEW i \in Issues, RouteOperation(p, i) \/ CanaryPreflight(p, i)
        PROVE  TypeOK'
    BY <1>1, ZenonT(60) DEF TypeOK, RouteOperation, CanaryPreflight, Begin, GoTo, Validating, Dry
  <1>2. CASE AcceptIssue(p)
    BY <1>2 DEF TypeOK, AcceptIssue, GoTo, Validating, HasAccepted, Contents
  <1>3. CASE VerifySource(p)
    BY <1>3 DEF TypeOK, VerifySource, GoTo, Validating
  <1>4. CASE IsAvailable(p)
    <2>1. accepted[p] \in Bodies /\ checks[p] \in 0 .. 3
      BY <1>4 DEF IsAvailable, HasAccepted, ChecksCounted
    <2>2. checks[p] + 1 \in 1 .. 4 /\ AfterCheck(checks[p] + 1) \in Validating
      BY <2>1 DEF AfterCheck, Validating
    <2>3. QED
      BY <1>4, <2>1, <2>2 DEF TypeOK, IsAvailable, GoTo
  <1>5. CASE VerifyUnchanged(p)
    BY <1>5 DEF TypeOK, VerifyUnchanged, GoTo, Validating
  <1>6. CASE Observe(p)
    <2>1. CASE InstallPlan = <<>>
      BY <1>6, <2>1, ExitType DEF TypeOK, Observe
    <2>2. CASE InstallPlan # <<>>
      BY <1>6, <2>2, InstallPlanType DEF TypeOK, Observe, GoTo
    <2>3. QED
      BY <2>1, <2>2
  <1>7. CASE Discover(p)
    <2>1. issue[p] \in Issues /\ accepted[p] \in Bodies
      BY <1>7 DEF Discover, HasAccepted
    <2>2. db' \subseteq Rows
      BY <1>7, <2>1, InsertType DEF Discover
    <2>3. QED
      BY <1>7, <2>2 DEF TypeOK, Discover, Insert, GoTo, Consuming
  <1>8. CASE Validate(p)
    <2>1. db' \subseteq Rows
      BY <1>8, TransitionType DEF Validate, States
    <2>2. QED
      BY <1>8, <2>1 DEF TypeOK, Validate, GoTo, Consuming
  <1>9. CASE Accept(p)
    <2>1. db' \subseteq Rows
      BY <1>9, TransitionType DEF Accept, States
    <2>2. QED
      BY <1>9, <2>1 DEF TypeOK, Accept, GoTo, Consuming
  <1>10. CASE Consume(p)
    <2>1. db' \subseteq Rows
      BY <1>10, TransitionType DEF Consume, States
    <2>2. file' \subseteq Rows
      BY <1>10, <2>1, CloseStoreType DEF Consume
    <2>3. QED
      BY <1>10, <2>1, <2>2 DEF TypeOK, Consume, GoTo, Mutating
  <1>11. CASE Fetch(p)
    <2>1. plan[p] \in Seq({"fetch"} \cup Objects) /\ plan[p] # <<>>
      BY <1>11 DEF TypeOK, Fetch, PlanLeft
    <2>2. Tail(plan[p]) \in Seq({"fetch"} \cup Objects)
      BY <2>1
    <2>3. QED
      BY <1>11, <2>2 DEF TypeOK, Fetch
  <1>12. CASE Create(p)
    BY <1>12 DEF TypeOK, Create, Put, GoTo, Mutating
  <1>13. CASE Finish(p)
    <2>1. plan[p] \in Seq({"fetch"} \cup Objects) /\ plan[p] # <<>> /\ Head(plan[p]) \in Objects
      BY <1>13 DEF TypeOK, Finish, PlanLeft
    <2>2. Tail(plan[p]) \in Seq({"fetch"} \cup Objects)
      BY <2>1
    <2>3. accepted[p].sha \in Shas
      BY <1>13, ConstantsAssumption DEF Finish, HasAccepted, Mutating
    <2>4. Written(Head(plan[p]), accepted[p].sha) \in Shas \cup {Absent, Partial}
      BY <2>3 DEF TypeOK, Written, Objects
    <2>5. host' \in [Objects -> Shas \cup {Absent, Partial}]
      BY <1>13, <2>1, <2>4 DEF TypeOK, Finish, Put
    <2>6. QED
      BY <1>13, <2>2, <2>5 DEF TypeOK, Finish, GoTo, Mutating
  <1>14. CASE VerifyExact(p)
    BY <1>14 DEF TypeOK, VerifyExact, GoTo, Mutating
  <1>15. CASE MarkVerifying(p)
    <2>1. db' \subseteq Rows
      BY <1>15, TransitionType DEF MarkVerifying, States
    <2>2. QED
      BY <1>15, <2>1 DEF TypeOK, MarkVerifying, GoTo, Mutating
  <1>16. CASE MarkSucceeded(p)
    <2>1. db' \subseteq Rows
      BY <1>16, TransitionType DEF MarkSucceeded, States
    <2>2. file' \subseteq Rows
      BY <1>16, <2>1, CloseStoreType DEF MarkSucceeded
    <2>3. QED
      BY <1>16, <2>1, <2>2, ExitType DEF TypeOK, MarkSucceeded
  <1>17. CASE CanaryRead(p)
    BY <1>17 DEF TypeOK, CanaryRead, GoTo, Dry, HasAccepted, Contents
  <1>18. CASE CanaryDiscover(p)
    <2>1. issue[p] \in Issues /\ accepted[p] \in Bodies
      BY <1>18 DEF CanaryDiscover, HasAccepted
    <2>2. db' \subseteq Rows
      BY <1>18, <2>1, InsertType DEF CanaryDiscover
    <2>3. QED
      BY <1>18, <2>2 DEF TypeOK, CanaryDiscover, Insert, GoTo, Dry
  <1>19. CASE CanaryValidate(p)
    <2>1. db' \subseteq Rows
      BY <1>19, TransitionType DEF CanaryValidate, States
    <2>2. QED
      BY <1>19, <2>1 DEF TypeOK, CanaryValidate, GoTo, Dry
  <1>20. CASE CanaryChecks(p)
    BY <1>20 DEF TypeOK, CanaryChecks, GoTo, Dry
  <1>21. CASE CanaryUnchanged(p)
    BY <1>21 DEF TypeOK, CanaryUnchanged, GoTo, Dry
  <1>22. CASE CanaryAccept(p)
    <2>1. db' \subseteq Rows
      BY <1>22, TransitionType DEF CanaryAccept, States
    <2>2. file' \subseteq Rows
      BY <1>22, <2>1, CloseStoreType DEF CanaryAccept
    <2>3. QED
      BY <1>22, <2>1, <2>2, ExitType DEF TypeOK, CanaryAccept
  <1>23. CASE Stop(p)
    <2>1. file' \subseteq Rows
      BY <1>23, CloseStoreType DEF Stop, TypeOK
    <2>2. QED
      BY <1>23, <2>1, ExitType DEF TypeOK, Stop
  <1>24. CASE Kill(p)
    BY <1>24, ExitType DEF TypeOK, Kill
  <1>25. QED
    BY <1>1, <1>2, <1>3, <1>4, <1>5, <1>6, <1>7, <1>8, <1>9, <1>10, <1>11, <1>12, <1>13,
       <1>14, <1>15, <1>16, <1>17, <1>18, <1>19, <1>20, <1>21, <1>22, <1>23, <1>24 DEF Step

\* Nobody else's memory is touched.
LEMMA OthersKept ==
    ASSUME TypeOK, NEW p \in Procs, Step(p), NEW q \in Procs \ {p}
    PROVE  Keeps(q)
  <1> USE DEF Keeps, TypeOK, GoTo
  <1>1. CASE Observe(p)
    BY <1>1, ExitType DEF Observe
  <1>2. CASE MarkSucceeded(p) \/ CanaryAccept(p) \/ Stop(p) \/ Kill(p)
    BY <1>2, ExitType DEF MarkSucceeded, CanaryAccept, Stop, Kill
  <1>3. ASSUME NEW i \in Issues, RouteOperation(p, i) \/ CanaryPreflight(p, i)
        PROVE  Keeps(q)
    BY <1>3 DEF RouteOperation, CanaryPreflight, Begin
  <1>4. CASE AcceptIssue(p) \/ VerifySource(p) \/ IsAvailable(p) \/ VerifyUnchanged(p)
    BY <1>4 DEF AcceptIssue, VerifySource, IsAvailable, VerifyUnchanged
  <1>5. CASE Discover(p) \/ Validate(p) \/ Accept(p) \/ Consume(p)
    BY <1>5 DEF Discover, Insert, Validate, Accept, Consume
  <1>6. CASE Fetch(p) \/ Create(p) \/ Finish(p) \/ VerifyExact(p) \/ MarkVerifying(p)
    BY <1>6 DEF Fetch, Create, Finish, VerifyExact, MarkVerifying
  <1>7. CASE \/ CanaryRead(p) \/ CanaryDiscover(p) \/ CanaryValidate(p)
             \/ CanaryChecks(p) \/ CanaryUnchanged(p)
    BY <1>7 DEF CanaryRead, CanaryDiscover, Insert, CanaryValidate, CanaryChecks, CanaryUnchanged
  <1>8. QED
    BY <1>1, <1>2, <1>3, <1>4, <1>5, <1>6, <1>7 DEF Step

\* ChecksCounted, HasAccepted, PlanLeft and OwnsRow of one process.
Remembers(p) ==
    /\ /\ pc[p] = "idle" => checks[p] = 0
       /\ pc[p] \in {"read", "source"} => checks[p] \in {0, 2}
       /\ pc[p] = "available" => checks[p] \in 0 .. 3
       /\ pc[p] = "unchanged" => checks[p] \in {1, 3}
    /\ /\ pc[p] # "idle" => issue[p] \in Issues
       /\ pc[p] \notin {"idle", "read", "c_read"} => accepted[p] \in Bodies
       /\ pc[p] \in (Validating \ {"read"}) \cup {"discover"} \cup Consuming \cup Mutating =>
            accepted[p].op = "install"
    /\ pc[p] \in {"discover", "mutate", "finish"} \cup Consuming =>
         /\ plan[p] # <<>>
         /\ pc[p] = "finish" => Head(plan[p]) \in Objects
         /\ \A i \in 1 .. Len(plan[p]) : plan[p][i] = "fetch" => i < Len(plan[p])
    /\ pc[p] \in Holding => inserted[p] = issue[p]

LEMMA EachRemembers ==
    ChecksCounted /\ HasAccepted /\ PlanLeft /\ OwnsRow <=> \A p \in Procs : Remembers(p)
  BY DEF ChecksCounted, HasAccepted, PlanLeft, OwnsRow, Remembers

\* What is left of a plan when its first mutation is done.
LEMMA FetchFirst ==
    ASSUME NEW M, NEW s \in Seq(M), s # <<>>,
           \A i \in 1 .. Len(s) : s[i] = "fetch" => i < Len(s)
    PROVE  /\ \A i \in 1 .. Len(Tail(s)) : Tail(s)[i] = "fetch" => i < Len(Tail(s))
           /\ s[1] = "fetch" => Tail(s) # <<>>
  <1>1. Len(s) \in Nat \ {0} /\ Tail(s) \in Seq(M) /\ Len(Tail(s)) = Len(s) - 1
    OBVIOUS
  <1>2. \A i \in 1 .. Len(Tail(s)) : Tail(s)[i] = s[i + 1]
    OBVIOUS
  <1>3. \A i \in 1 .. Len(Tail(s)) : Tail(s)[i] = "fetch" => i < Len(Tail(s))
    BY <1>1, <1>2
  <1>4. s[1] = "fetch" => Len(Tail(s)) # 0
    BY <1>1
  <1>5. Len(<<>>) = 0
    OBVIOUS
  <1>6. QED
    BY <1>3, <1>4, <1>5

LEMMA OwnMemory ==
    ASSUME TypeOK, NEW p \in Procs, Remembers(p), Step(p)
    PROVE  Remembers(p)'
  <1> USE DEF Remembers, GoTo, Validating, Consuming, Mutating, Dry, Holding
  <1> USE DEF TypeOK
  <1>1. ASSUME NEW i \in Issues, RouteOperation(p, i) \/ CanaryPreflight(p, i)
        PROVE  Remembers(p)'
    BY <1>1 DEF RouteOperation, CanaryPreflight, Begin
  <1>2. CASE AcceptIssue(p)
    BY <1>2 DEF AcceptIssue, Contents
  <1>3. CASE VerifySource(p)
    BY <1>3 DEF VerifySource
  <1>4. CASE IsAvailable(p)
    <2>1. checks[p] \in 0 .. 3 /\ checks'[p] = checks[p] + 1 /\ pc'[p] = AfterCheck(checks[p] + 1)
      BY <1>4 DEF IsAvailable
    <2>2. \/ pc'[p] = "unchanged" /\ checks'[p] \in {1, 3}
          \/ pc'[p] = "read" /\ checks'[p] = 2
          \/ pc'[p] = "observe"
      <3>1. CASE checks[p] = 0 \/ checks[p] = 2
        BY <2>1, <3>1 DEF AfterCheck
      <3>2. CASE checks[p] = 1
        BY <2>1, <3>2 DEF AfterCheck
      <3>3. CASE checks[p] = 3
        BY <2>1, <3>3 DEF AfterCheck
      <3>4. QED
        BY <2>1, <3>1, <3>2, <3>3
    <2>3. QED
      BY <1>4, <2>2 DEF IsAvailable
  <1>5. CASE VerifyUnchanged(p)
    BY <1>5 DEF VerifyUnchanged
  <1>6. CASE Observe(p)
    <2>1. CASE InstallPlan = <<>>
      BY <1>6, <2>1, ExitType DEF Observe
    <2>2. CASE InstallPlan # <<>>
      BY <1>6, <2>2, InstallPlanType DEF Observe
    <2>3. QED
      BY <2>1, <2>2
  <1>7. CASE Discover(p) \/ Validate(p) \/ Accept(p)
    <2>1. CASE Discover(p)
      BY <2>1 DEF Discover, Insert
    <2>2. CASE Validate(p) \/ Accept(p)
      BY <2>2 DEF Validate, Accept
    <2>3. QED
      BY <1>7, <2>1, <2>2
  <1>8. CASE Consume(p)
    BY <1>8 DEF Consume
  <1>9. CASE Fetch(p)
    <2>1. plan[p] \in Seq({"fetch"} \cup Objects) /\ plan[p] # <<>>
          /\ plan[p][1] = "fetch" /\ plan'[p] = Tail(plan[p]) /\ pc'[p] = "mutate"
      BY <1>9 DEF Fetch
    <2>2. /\ plan'[p] # <<>>
          /\ \A i \in 1 .. Len(plan'[p]) : plan'[p][i] = "fetch" => i < Len(plan'[p])
      BY <1>9, <2>1, FetchFirst DEF Fetch
    <2>3. QED
      BY <1>9, <2>1, <2>2 DEF Fetch
  <1>10. CASE Create(p)
    BY <1>10 DEF Create
  <1>11. CASE Finish(p)
    <2>1. plan[p] \in Seq({"fetch"} \cup Objects) /\ plan[p] # <<>>
          /\ plan'[p] = Tail(plan[p])
          /\ pc'[p] = IF Tail(plan[p]) = <<>> THEN "verify" ELSE "mutate"
      BY <1>11 DEF Finish
    <2>2. \A i \in 1 .. Len(plan'[p]) : plan'[p][i] = "fetch" => i < Len(plan'[p])
      BY <1>11, <2>1, FetchFirst DEF Finish
    <2>3. QED
      BY <1>11, <2>1, <2>2 DEF Finish
  <1>12. CASE VerifyExact(p) \/ MarkVerifying(p)
    BY <1>12 DEF VerifyExact, MarkVerifying
  <1>13. CASE CanaryRead(p)
    BY <1>13 DEF CanaryRead, Contents
  <1>14. CASE \/ CanaryDiscover(p) \/ CanaryValidate(p) \/ CanaryChecks(p) \/ CanaryUnchanged(p)
    <2>1. CASE CanaryDiscover(p)
      BY <2>1 DEF CanaryDiscover, Insert
    <2>2. CASE CanaryValidate(p) \/ CanaryChecks(p) \/ CanaryUnchanged(p)
      BY <2>2, ZenonT(60) DEF CanaryValidate, CanaryChecks, CanaryUnchanged
    <2>3. QED
      BY <1>14, <2>1, <2>2
  <1>15. CASE MarkSucceeded(p) \/ CanaryAccept(p) \/ Stop(p) \/ Kill(p)
    BY <1>15, ExitType DEF MarkSucceeded, CanaryAccept, Stop, Kill
  <1>16. QED
    BY <1>1, <1>2, <1>3, <1>4, <1>5, <1>6, <1>7, <1>8, <1>9, <1>10, <1>11, <1>12, <1>13,
       <1>14, <1>15 DEF Step

LEMMA OwnersStep ==
    ASSUME TypeOK, Push \/ \E i \in Issues : Edit(i)
    PROVE  TypeOK' /\ UNCHANGED <<db, file, host, memory>>
  <1>1. CASE Push
    BY <1>1, ConstantsAssumption DEF Push, TypeOK, store, memory, Shas
  <1>2. ASSUME NEW i \in Issues, Edit(i)
        PROVE  TypeOK' /\ UNCHANGED <<db, file, host, memory>>
    BY <1>2, ConstantsAssumption DEF Edit, TypeOK, store, memory
  <1>3. QED
    BY <1>1, <1>2

LEMMA MemoryStep == Memory /\ [Next]_vars => Memory'
  <1> SUFFICES ASSUME Memory, [Next]_vars PROVE Memory'
    OBVIOUS
  <1>1. \A q \in Procs : Remembers(q)
    BY EachRemembers DEF Memory
  <1>2. ASSUME NEW p \in Procs, Step(p) PROVE Memory'
    <2>1. TypeOK'
      BY <1>2, TypeStep
    <2>2. Remembers(p)'
      BY <1>1, <1>2, OwnMemory DEF Memory
    <2>3. ASSUME NEW q \in Procs \ {p} PROVE Remembers(q)'
      BY <1>1, <1>2, <2>3, OthersKept DEF Memory, Remembers, Keeps
    <2>4. \A q \in Procs : Remembers(q)'
      BY <2>2, <2>3
    <2>5. QED
      BY <2>1, <2>4, EachRemembers DEF Memory, ChecksCounted, HasAccepted, PlanLeft, OwnsRow, Remembers
  <1>3. ASSUME TypeOK', UNCHANGED memory PROVE Memory'
    BY <1>3 DEF Memory, memory, ChecksCounted, HasAccepted, PlanLeft, OwnsRow
  <1>4. CASE Push \/ \E i \in Issues : Edit(i)
    BY <1>3, <1>4, OwnersStep DEF Memory
  <1>5. CASE UNCHANGED vars
    <2>1. TypeOK' /\ UNCHANGED memory
      BY <1>5 DEF vars, github, store, memory, Memory, TypeOK
    <2>2. QED
      BY <1>3, <2>1
  <1>6. QED
    BY <1>2, <1>4, <1>5 DEF Next

-----------------------------------------------------------------------------
(* Rows, and who works on them *)

Ownership == Memory /\ KeysUnique /\ HoldsRow /\ HoldsAlone /\ StoreAlwaysOpens

\* HoldsRow of one process.
Owns(p) ==
    pc[p] \in Holding =>
      \E r \in db : /\ r.issue = issue[p] /\ r.body = accepted[p]
                    /\ pc[p] \in Mutating => r.consumed

LEMMA OwnershipInit == Init => Ownership
  BY MemoryInit DEF Init, Ownership, KeysUnique, HoldsRow, HoldsAlone, StoreAlwaysOpens,
                    Intact, Holding, Consuming, Mutating, Dry

\* The row a holder's transition finds by request_id is its own.
LEMMA OwnTransition ==
    ASSUME Ownership, NEW p \in Procs, pc[p] \in Holding, NEW from, NEW to, NEW spend \in BOOLEAN,
           Transition(p, from, to, spend)
    PROVE  \E r \in db :
             /\ r.issue = issue[p] /\ r.body = accepted[p] /\ r.state = from
             /\ pc[p] \in Mutating => r.consumed
             /\ db' = (db \ {r}) \cup {Moved(r, to, spend)}
  <1>1. PICK r \in db : /\ r.body.request = accepted[p].request
                        /\ r.state = from
                        /\ db' = (db \ {r}) \cup {Moved(r, to, spend)}
    BY DEF Transition
  <1>2. PICK s \in db : /\ s.issue = issue[p] /\ s.body = accepted[p]
                        /\ pc[p] \in Mutating => s.consumed
    BY DEF Ownership, HoldsRow
  <1>3. r = s
    BY <1>1, <1>2 DEF Ownership, KeysUnique
  <1>4. r.issue = issue[p] /\ r.body = accepted[p] /\ (pc[p] \in Mutating => r.consumed)
    BY <1>2, <1>3
  <1>5. QED
    BY <1>1, <1>4

\* It leaves the keys unique, its own row as it should be, and those of the
\* others alone.
LEMMA TransitionRows ==
    ASSUME Ownership, NEW p \in Procs, pc[p] \in Holding,
           NEW from, NEW to \in States, NEW spend \in BOOLEAN, Transition(p, from, to, spend)
    PROVE  /\ KeysUnique'
           /\ \E r \in db' : /\ r.issue = issue[p] /\ r.body = accepted[p] /\ r.state = to
                             /\ (pc[p] \in Mutating \/ spend) => r.consumed
           /\ \A q \in Procs \ {p} : pc[q] \in Holding =>
                \E r \in db' : /\ r.issue = issue[q] /\ r.body = accepted[q]
                               /\ pc[q] \in Mutating => r.consumed
  <1>1. PICK r \in db :
             /\ r.issue = issue[p] /\ r.body = accepted[p] /\ r.state = from
             /\ pc[p] \in Mutating => r.consumed
             /\ db' = (db \ {r}) \cup {Moved(r, to, spend)}
    BY OwnTransition
  <1>2. PICK n : n = Moved(r, to, spend)
    OBVIOUS
  <1>3. r \in Rows
    BY DEF Ownership, Memory, TypeOK
  <1>4. n.issue = r.issue /\ n.body = r.body /\ n.state = to /\ n.consumed = (r.consumed \/ spend)
    BY <1>2, <1>3 DEF Rows, Moved
  <1>5. db' = (db \ {r}) \cup {n}
    BY <1>1, <1>2
  <1>6. KeysUnique'
    BY <1>4, <1>5 DEF Ownership, KeysUnique
  <1>7. n \in db' /\ n.issue = issue[p] /\ n.body = accepted[p] /\ n.state = to
        /\ ((pc[p] \in Mutating \/ spend) => n.consumed)
    BY <1>1, <1>4, <1>5
  <1>8. ASSUME NEW q \in Procs \ {p}, pc[q] \in Holding
        PROVE  \E x \in db' : /\ x.issue = issue[q] /\ x.body = accepted[q]
                              /\ pc[q] \in Mutating => x.consumed
    <2>1. PICK x \in db : /\ x.issue = issue[q] /\ x.body = accepted[q]
                          /\ pc[q] \in Mutating => x.consumed
      BY <1>8 DEF Ownership, HoldsRow
    <2>2. x # r
      BY <1>1, <1>8, <2>1 DEF Ownership, HoldsAlone
    <2>3. QED
      BY <1>5, <2>1, <2>2
  <1>9. QED
    BY <1>6, <1>7, <1>8

\* A transition within the states that are consumed, within those that are not,
\* or from the one to the other with consumed_at, leaves the rows intact.
ConsumedStates == {"CONSUMED", "VERIFYING", "SUCCEEDED"}
UnspentStates  == {"DISCOVERED", "VALIDATING", "ACCEPTED"}

LEMMA TransitionIntact ==
    ASSUME Ownership, NEW p \in Procs, NEW from, NEW to, NEW spend \in BOOLEAN,
           Transition(p, from, to, spend),
           \/ from \in UnspentStates /\ to \in UnspentStates /\ spend = FALSE
           \/ from \in UnspentStates /\ to \in ConsumedStates /\ spend = TRUE
           \/ from \in ConsumedStates /\ to \in ConsumedStates
    PROVE  StoreAlwaysOpens'
  <1>1. PICK r \in db : /\ r.state = from
                        /\ db' = (db \ {r}) \cup {Moved(r, to, spend)}
    BY DEF Transition
  <1>2. PICK n : n = Moved(r, to, spend)
    OBVIOUS
  <1>3. r \in Rows
    BY DEF Ownership, Memory, TypeOK
  <1>4. n.state = to /\ n.consumed = (r.consumed \/ spend)
    BY <1>2, <1>3 DEF Rows, Moved
  <1>5. db' = (db \ {r}) \cup {n}
    BY <1>1, <1>2
  <1>6. /\ from \in ConsumedStates => r.consumed
        /\ from \in UnspentStates => ~r.consumed
    BY <1>1 DEF Ownership, StoreAlwaysOpens, Intact, ConsumedStates, UnspentStates
  <1>7. /\ to \in ConsumedStates => n.consumed
        /\ to \in UnspentStates => ~n.consumed
    <2>1. CASE spend = TRUE
      BY <1>4, <2>1 DEF ConsumedStates, UnspentStates
    <2>2. CASE spend = FALSE
      BY <1>4, <1>6, <2>2 DEF ConsumedStates, UnspentStates
    <2>3. QED
      BY <2>1, <2>2
  <1>8. to \in ConsumedStates \cup UnspentStates
    OBVIOUS
  <1>9. ASSUME NEW x \in db'
        PROVE  /\ x.state \in ConsumedStates => x.consumed
               /\ x.state \in UnspentStates \cup {"REJECTED", "EXPIRED"} => ~x.consumed
    <2>1. CASE x = n
      BY <1>4, <1>7, <1>8, <2>1 DEF ConsumedStates, UnspentStates
    <2>2. CASE x \in db
      BY <2>2 DEF Ownership, StoreAlwaysOpens, Intact, ConsumedStates, UnspentStates
    <2>3. QED
      BY <1>5, <2>1, <2>2
  <1>10. QED
    BY <1>9 DEF StoreAlwaysOpens, Intact, ConsumedStates, UnspentStates

\* A new row has keys that no holder's row has.
LEMMA InsertRows ==
    ASSUME Ownership, NEW p \in Procs, Insert(p)
    PROVE  /\ KeysUnique' /\ StoreAlwaysOpens'
           /\ NewRow(p) \in db' /\ db \subseteq db'
           /\ NewRow(p).issue = issue[p] /\ NewRow(p).body = accepted[p]
           /\ \A q \in Procs : pc[q] \in Holding =>
                issue[q] # issue[p] /\ accepted[q].request # accepted[p].request
  <1>1. db' = db \cup {NewRow(p)} /\ \A r \in db : r.issue # issue[p] /\ r.body.request # accepted[p].request
    BY DEF Insert, Observed
  <1>2. /\ NewRow(p).issue = issue[p] /\ NewRow(p).body = accepted[p]
        /\ NewRow(p).state = "DISCOVERED" /\ NewRow(p).consumed = FALSE
    BY DEF NewRow
  <1>3. KeysUnique'
    BY <1>1, <1>2 DEF Ownership, KeysUnique
  <1>4. StoreAlwaysOpens'
    BY <1>1, <1>2 DEF Ownership, StoreAlwaysOpens, Intact
  <1>5. QED
    BY <1>1, <1>2, <1>3, <1>4 DEF Ownership, HoldsRow

\* A process that neither takes a row nor enters the mutations.
KeepsHold(p) ==
    pc'[p] \in Holding =>
      /\ pc[p] \in Holding /\ issue'[p] = issue[p] /\ accepted'[p] = accepted[p]
      /\ pc'[p] \in Mutating => pc[p] \in Mutating

\* The places every other action goes to.
LEMMA HoldKept ==
    ASSUME TypeOK, ChecksCounted, NEW p \in Procs,
           Step(p), ~Discover(p), ~CanaryDiscover(p), ~Consume(p)
    PROVE  KeepsHold(p)
  <1> USE DEF KeepsHold, Holding, Consuming, Mutating, Dry, TypeOK, GoTo
  <1>1. ASSUME NEW i \in Issues, RouteOperation(p, i) \/ CanaryPreflight(p, i)
        PROVE  KeepsHold(p)
    BY <1>1 DEF RouteOperation, CanaryPreflight, Begin
  <1>2. CASE AcceptIssue(p) \/ VerifySource(p) \/ VerifyUnchanged(p) \/ CanaryRead(p)
    BY <1>2 DEF AcceptIssue, VerifySource, VerifyUnchanged, CanaryRead
  <1>3. CASE IsAvailable(p)
    <2>1. pc'[p] = AfterCheck(checks[p] + 1) /\ checks[p] \in 0 .. 3
      BY <1>3 DEF IsAvailable, ChecksCounted
    <2>2. AfterCheck(checks[p] + 1) \in Validating
      BY <2>1 DEF AfterCheck, Validating
    <2>3. QED
      BY <2>1, <2>2 DEF Validating
  <1>4. CASE Observe(p)
    BY <1>4, ExitType DEF Observe
  <1>5. CASE Validate(p) \/ Accept(p)
    BY <1>5 DEF Validate, Accept
  <1>6. CASE Fetch(p)
    BY <1>6 DEF Fetch
  <1>7. CASE Create(p) \/ Finish(p) \/ VerifyExact(p) \/ MarkVerifying(p)
    BY <1>7 DEF Create, Finish, VerifyExact, MarkVerifying
  <1>8. CASE CanaryValidate(p) \/ CanaryChecks(p) \/ CanaryUnchanged(p)
    BY <1>8 DEF CanaryValidate, CanaryChecks, CanaryUnchanged
  <1>9. CASE MarkSucceeded(p) \/ CanaryAccept(p) \/ Stop(p) \/ Kill(p)
    BY <1>9, ExitType DEF MarkSucceeded, CanaryAccept, Stop, Kill
  <1>10. QED
    BY <1>1, <1>2, <1>3, <1>4, <1>5, <1>6, <1>7, <1>8, <1>9 DEF Step

\* What a step of p may do to rows.
TakesRow(p) ==
    /\ Insert(p)
    /\ pc'[p] \in Holding /\ pc'[p] \notin Mutating
    /\ issue'[p] = issue[p] /\ accepted'[p] = accepted[p]

MovesRow(p) ==
    /\ pc[p] \in Holding
    /\ \E from, to \in States, spend \in BOOLEAN :
         /\ Transition(p, from, to, spend)
         /\ \/ from \in UnspentStates /\ to \in UnspentStates /\ spend = FALSE
            \/ from \in UnspentStates /\ to \in ConsumedStates /\ spend = TRUE
            \/ from \in ConsumedStates /\ to \in ConsumedStates
         /\ pc'[p] \in Holding =>
              /\ issue'[p] = issue[p] /\ accepted'[p] = accepted[p]
              /\ pc'[p] \in Mutating => pc[p] \in Mutating \/ spend

LEMMA RowEffects ==
    ASSUME Memory, NEW p \in Procs, Step(p)
    PROVE  TakesRow(p) \/ MovesRow(p) \/ (UNCHANGED db /\ KeepsHold(p))
  <1>1. CASE Discover(p) \/ CanaryDiscover(p)
    BY <1>1 DEF Discover, CanaryDiscover, TakesRow, Holding, Consuming, Mutating, Dry,
                GoTo, Memory, TypeOK
  <1>2. CASE Consume(p)
    <2>1. /\ pc[p] \in Holding /\ Transition(p, "ACCEPTED", "CONSUMED", TRUE)
          /\ issue'[p] = issue[p] /\ accepted'[p] = accepted[p]
      BY <1>2 DEF Consume, Holding, Consuming
    <2>2. QED
      BY <2>1 DEF MovesRow, States, UnspentStates, ConsumedStates
  <1>3. CASE ~Discover(p) /\ ~CanaryDiscover(p) /\ ~Consume(p)
    <2>1. KeepsHold(p)
      BY <1>3, HoldKept DEF Memory
    <2>2. CASE Validate(p) \/ CanaryValidate(p)
      BY <2>1, <2>2 DEF Validate, CanaryValidate, MovesRow, KeepsHold, States, UnspentStates,
                        Holding, Consuming, Dry
    <2>3. CASE Accept(p) \/ CanaryAccept(p)
      BY <2>1, <2>3 DEF Accept, CanaryAccept, MovesRow, KeepsHold, States, UnspentStates,
                        Holding, Consuming, Dry
    <2>4. CASE MarkVerifying(p)
      BY <2>1, <2>4 DEF MarkVerifying, MovesRow, KeepsHold, States, ConsumedStates,
                        Holding, Mutating
    <2>5. CASE MarkSucceeded(p)
      BY <2>1, <2>5 DEF MarkSucceeded, MovesRow, KeepsHold, States, ConsumedStates,
                        Holding, Mutating
    <2>6. CASE ~(Validate(p) \/ CanaryValidate(p) \/ Accept(p) \/ CanaryAccept(p)
                 \/ MarkVerifying(p) \/ MarkSucceeded(p))
      <3>1. UNCHANGED db
        BY <1>3, <2>6 DEF Step, store, RouteOperation, CanaryPreflight, Begin, AcceptIssue,
             VerifySource, IsAvailable, VerifyUnchanged, Observe, Fetch, Create, Finish,
             VerifyExact, CanaryRead, CanaryChecks, CanaryUnchanged, Stop, Kill
      <3>2. QED
        BY <2>1, <3>1
    <2>7. QED
      BY <2>2, <2>3, <2>4, <2>5, <2>6
  <1>4. QED
    BY <1>1, <1>2, <1>3

\* The rows after a step of p, from its effect on them.
LEMMA OwnershipByStep ==
    ASSUME Ownership, NEW p \in Procs, Step(p)
    PROVE  (KeysUnique /\ HoldsRow /\ HoldsAlone /\ StoreAlwaysOpens)'
  <1>1. \A q \in Procs \ {p} : Keeps(q)
    BY OthersKept DEF Ownership, Memory
  <1>2. ASSUME KeepsHold(p) \/ MovesRow(p)
        PROVE  HoldsAlone'
    <2>1. pc'[p] \in Holding => pc[p] \in Holding /\ issue'[p] = issue[p] /\ accepted'[p] = accepted[p]
      BY <1>2 DEF KeepsHold, MovesRow
    <2>2. \A q \in Procs : pc'[q] \in Holding =>
            pc[q] \in Holding /\ issue'[q] = issue[q] /\ accepted'[q] = accepted[q]
      BY <1>1, <2>1 DEF Keeps
    <2>3. QED
      BY <2>2 DEF Ownership, HoldsAlone
  <1>3. CASE TakesRow(p)
    <2>1. Insert(p) /\ pc'[p] \in Holding /\ pc'[p] \notin Mutating
          /\ issue'[p] = issue[p] /\ accepted'[p] = accepted[p]
      BY <1>3 DEF TakesRow
    <2>2. /\ KeysUnique' /\ StoreAlwaysOpens'
          /\ NewRow(p) \in db' /\ db \subseteq db'
          /\ NewRow(p).issue = issue[p] /\ NewRow(p).body = accepted[p]
          /\ \A q \in Procs : pc[q] \in Holding =>
               issue[q] # issue[p] /\ accepted[q].request # accepted[p].request
      BY <2>1, InsertRows
    <2>3. Owns(p)'
      BY <2>1, <2>2 DEF Owns
    <2>4. ASSUME NEW q \in Procs \ {p} PROVE Owns(q)'
      <3>1. Owns(q)
        BY DEF Ownership, HoldsRow, Owns
      <3>2. QED
        BY <1>1, <2>2, <3>1 DEF Owns, Keeps
    <2>5. HoldsRow'
      BY <2>3, <2>4 DEF HoldsRow, Owns
    <2>6. ASSUME NEW a \in Procs, NEW b \in Procs, a # b, pc'[a] \in Holding, pc'[b] \in Holding
          PROVE  issue'[a] # issue'[b] /\ accepted'[a].request # accepted'[b].request
      <3>1. CASE a = p
        BY <1>1, <2>1, <2>2, <2>6, <3>1 DEF Keeps
      <3>2. CASE b = p
        BY <1>1, <2>1, <2>2, <2>6, <3>2 DEF Keeps
      <3>3. CASE a # p /\ b # p
        BY <1>1, <2>6, <3>3 DEF Keeps, Ownership, HoldsAlone
      <3>4. QED
        BY <3>1, <3>2, <3>3
    <2>7. HoldsAlone'
      BY <2>6 DEF HoldsAlone
    <2>8. QED
      BY <2>2, <2>5, <2>7
  <1>4. CASE MovesRow(p)
    <2>1. PICK from, to \in States, spend \in BOOLEAN :
            /\ Transition(p, from, to, spend)
            /\ \/ from \in UnspentStates /\ to \in UnspentStates /\ spend = FALSE
               \/ from \in UnspentStates /\ to \in ConsumedStates /\ spend = TRUE
               \/ from \in ConsumedStates /\ to \in ConsumedStates
            /\ pc'[p] \in Holding =>
                 /\ issue'[p] = issue[p] /\ accepted'[p] = accepted[p]
                 /\ pc'[p] \in Mutating => pc[p] \in Mutating \/ spend
      BY <1>4 DEF MovesRow
    <2>2. pc[p] \in Holding
      BY <1>4 DEF MovesRow
    <2>3. /\ KeysUnique'
          /\ \E r \in db' : /\ r.issue = issue[p] /\ r.body = accepted[p] /\ r.state = to
                            /\ (pc[p] \in Mutating \/ spend) => r.consumed
          /\ \A q \in Procs \ {p} : pc[q] \in Holding =>
               \E r \in db' : /\ r.issue = issue[q] /\ r.body = accepted[q]
                              /\ pc[q] \in Mutating => r.consumed
      BY <2>1, <2>2, TransitionRows
    <2>4. StoreAlwaysOpens'
      BY <2>1, TransitionIntact
    <2>5. Owns(p)'
      BY <2>1, <2>3 DEF Owns
    <2>6. \A q \in Procs \ {p} : Owns(q)'
      BY <1>1, <2>3 DEF Owns, Keeps
    <2>7. HoldsRow'
      BY <2>5, <2>6 DEF HoldsRow, Owns
    <2>8. QED
      BY <1>2, <1>4, <2>3, <2>4, <2>7
  <1>5. CASE UNCHANGED db /\ KeepsHold(p)
    <2>1. KeysUnique' /\ StoreAlwaysOpens'
      BY <1>5 DEF Ownership, KeysUnique, StoreAlwaysOpens, Intact
    <2>2. ASSUME NEW q \in Procs PROVE Owns(q)'
      <3>1. Owns(q)
        BY DEF Ownership, HoldsRow, Owns
      <3>2. CASE q = p
        BY <1>5, <3>1, <3>2 DEF Owns, KeepsHold
      <3>3. CASE q # p
        BY <1>1, <1>5, <3>1, <3>3 DEF Owns, Keeps
      <3>4. QED
        BY <3>2, <3>3
    <2>3. HoldsRow'
      BY <2>2 DEF HoldsRow, Owns
    <2>4. QED
      BY <1>2, <1>5, <2>1, <2>3
  <1>6. QED
    BY <1>3, <1>4, <1>5, RowEffects DEF Ownership

LEMMA OwnershipStep == Ownership /\ [Next]_vars => Ownership'
  <1> SUFFICES ASSUME Ownership, [Next]_vars PROVE Ownership'
    OBVIOUS
  <1>1. Memory'
    BY MemoryStep DEF Ownership
  <1>2. ASSUME NEW p \in Procs, Step(p) PROVE Ownership'
    BY <1>1, <1>2, OwnershipByStep DEF Ownership
  <1>3. CASE UNCHANGED <<db, memory>>
    BY <1>1, <1>3 DEF Ownership, memory, KeysUnique, HoldsRow, HoldsAlone, StoreAlwaysOpens, Intact
  <1>4. CASE Push \/ \E i \in Issues : Edit(i)
    BY <1>3, <1>4, OwnersStep DEF Ownership, Memory
  <1>5. CASE UNCHANGED vars
    BY <1>3, <1>5 DEF vars, store
  <1>6. QED
    BY <1>2, <1>4, <1>5 DEF Next

-----------------------------------------------------------------------------
(* The host *)

\* What is exact stays so when an object that is not whole is written.
LEMMA ExactStays ==
    ASSUME NEW o \in Objects, host[o] \in {Absent, Partial},
           \A x \in Objects \ {o} : host'[x] = host[x], NEW s \in Shas
    PROVE  /\ \A x \in Objects : Exact(x, s) => Exact(x, s)'
           /\ \A x \in Objects : Before(x, s) => Before(x, s)'
  <1>1. Absent \notin Shas /\ Partial \notin Shas
    BY ConstantsAssumption
  <1>2. \A x \in Objects : host[x] = s => host'[x] = s
    BY <1>1
  <1>3. CheckoutExact(s) => CheckoutExact(s)'
    BY <1>2 DEF CheckoutExact, Objects
  <1>4. OperatorExact(s) => OperatorExact(s)'
    BY <1>2 DEF OperatorExact, CheckoutExact, Objects
  <1>5. MarkerExact(s) => MarkerExact(s)'
    BY <1>2 DEF MarkerExact, Objects
  <1>6. QED
    BY <1>3, <1>4, <1>5 DEF Exact, Before, Objects

\* The commit of what a process accepted, and of a row.
LEMMA AcceptedSha ==
    ASSUME Memory, NEW p \in Procs, pc[p] \in {"mutate", "finish", "verify", "verifying", "succeed"}
    PROVE  accepted[p] \in Bodies /\ accepted[p].sha \in Shas /\ accepted[p].op = "install"
  BY ConstantsAssumption DEF Memory, HasAccepted, Mutating

LEMMA RowSha ==
    ASSUME TypeOK, NEW r \in db PROVE r.body.sha \in Shas
  BY ConstantsAssumption DEF TypeOK, Rows

\* Only mark_succeeded writes SUCCEEDED, and for what the process accepted.
LEMMA NewSuccess ==
    ASSUME Ownership, NEW p \in Procs, Step(p), NEW r \in db', r.state = "SUCCEEDED"
    PROVE  r \in db \/ (MarkSucceeded(p) /\ r.body = accepted[p])
  <1>1. ASSUME NEW from, NEW to \in States, NEW spend \in BOOLEAN, Transition(p, from, to, spend)
        PROVE  r \in db \/ to = "SUCCEEDED"
    <2>1. PICK x \in db : db' = (db \ {x}) \cup {Moved(x, to, spend)}
      BY <1>1 DEF Transition
    <2>2. x \in Rows
      BY DEF Ownership, Memory, TypeOK
    <2>3. Moved(x, to, spend).state = to
      BY <2>2 DEF Moved, Rows
    <2>4. QED
      BY <2>1, <2>3
  <1>2. CASE MarkSucceeded(p)
    <2>0. pc[p] \in Holding
      BY <1>2 DEF MarkSucceeded, Holding, Mutating
    <2>1. PICK spend \in BOOLEAN : Transition(p, "VERIFYING", "SUCCEEDED", spend)
      BY <1>2 DEF MarkSucceeded
    <2>2. PICK x \in db : /\ x.issue = issue[p] /\ x.body = accepted[p] /\ x.state = "VERIFYING"
                          /\ pc[p] \in Mutating => x.consumed
                          /\ db' = (db \ {x}) \cup {Moved(x, "SUCCEEDED", spend)}
      BY <2>0, <2>1, OwnTransition
    <2>3. x \in Rows
      BY DEF Ownership, Memory, TypeOK
    <2>4. Moved(x, "SUCCEEDED", spend).body = accepted[p]
      BY <2>2, <2>3 DEF Moved, Rows
    <2>5. QED
      BY <1>2, <2>2, <2>4
  <1>3. CASE Discover(p) \/ CanaryDiscover(p)
    <2>1. db' = db \cup {NewRow(p)}
      BY <1>3 DEF Discover, CanaryDiscover, Insert
    <2>2. QED
      BY <2>1 DEF NewRow
  <1>4. CASE Validate(p) \/ CanaryValidate(p)
    BY <1>1, <1>4 DEF Validate, CanaryValidate, States
  <1>5. CASE Accept(p) \/ CanaryAccept(p)
    BY <1>1, <1>5 DEF Accept, CanaryAccept, States
  <1>6. CASE Consume(p) \/ MarkVerifying(p)
    BY <1>1, <1>6 DEF Consume, MarkVerifying, States
  <1>7. CASE UNCHANGED db
    BY <1>7
  <1>8. QED
    BY <1>2, <1>3, <1>4, <1>5, <1>6, <1>7
       DEF Step, store, RouteOperation, CanaryPreflight, Begin, AcceptIssue, VerifySource,
           IsAvailable, VerifyUnchanged, Observe, Fetch, Create, Finish, VerifyExact,
           CanaryRead, CanaryChecks, CanaryUnchanged, Stop, Kill

\* Every other step leaves the host alone and no process at finish, or past
\* verify_exact, that was not there before.
LEMMA HostKept ==
    ASSUME Memory, NEW p \in Procs, Step(p), ~Create(p), ~Finish(p)
    PROVE  /\ UNCHANGED host
           /\ pc'[p] # "finish"
           /\ pc'[p] \in {"verifying", "succeed"} =>
                /\ accepted'[p] = accepted[p]
                /\ pc[p] = "verifying" \/ (\A o \in Objects : Exact(o, accepted[p].sha))
  <1> USE DEF Memory, TypeOK, GoTo
  <1>1. ASSUME NEW i \in Issues, RouteOperation(p, i) \/ CanaryPreflight(p, i)
        PROVE  UNCHANGED host /\ pc'[p] \notin {"finish", "verifying", "succeed"}
    BY <1>1 DEF RouteOperation, CanaryPreflight, Begin
  <1>2. CASE AcceptIssue(p) \/ VerifySource(p) \/ VerifyUnchanged(p)
    BY <1>2 DEF AcceptIssue, VerifySource, VerifyUnchanged
  <1>3. CASE IsAvailable(p)
    <2>1. pc'[p] = AfterCheck(checks[p] + 1) /\ checks[p] \in 0 .. 3
      BY <1>3 DEF IsAvailable, ChecksCounted
    <2>2. AfterCheck(checks[p] + 1) \in Validating
      BY <2>1 DEF AfterCheck, Validating
    <2>3. QED
      BY <1>3, <2>1, <2>2 DEF Validating, IsAvailable
  <1>4. CASE Observe(p)
    BY <1>4, ExitType DEF Observe
  <1>5. CASE Discover(p) \/ Validate(p) \/ Accept(p) \/ Consume(p)
    BY <1>5 DEF Discover, Validate, Accept, Consume
  <1>6. CASE Fetch(p)
    BY <1>6 DEF Fetch
  <1>7. CASE VerifyExact(p)
    BY <1>7 DEF VerifyExact
  <1>8. CASE MarkVerifying(p)
    BY <1>8 DEF MarkVerifying
  <1>9. CASE \/ CanaryRead(p) \/ CanaryDiscover(p) \/ CanaryValidate(p)
             \/ CanaryChecks(p) \/ CanaryUnchanged(p)
    BY <1>9 DEF CanaryRead, CanaryDiscover, CanaryValidate, CanaryChecks, CanaryUnchanged
  <1>10. CASE MarkSucceeded(p) \/ CanaryAccept(p) \/ Stop(p) \/ Kill(p)
    BY <1>10, ExitType DEF MarkSucceeded, CanaryAccept, Stop, Kill, store
  <1>11. QED
    BY <1>1, <1>2, <1>3, <1>4, <1>5, <1>6, <1>7, <1>8, <1>9, <1>10 DEF Step

HostInv == MakesAlone /\ VerifiedExact /\ MarkerNamesInstall /\ SucceededIsInstalled

LEMMA HostInit == Init => HostInv
  BY DEF Init, HostInv, MakesAlone, VerifiedExact, MarkerNamesInstall, SucceededIsInstalled, Objects

\* Creation finds the object absent, so nobody else is making it.
LEMMA CreateKeepsHost ==
    ASSUME Ownership, HostInv, NEW p \in Procs, Create(p)
    PROVE  HostInv'
  <1> DEFINE o == Head(plan[p])
             s == accepted[p].sha
  <1>0. TypeOK /\ Memory
    BY DEF Ownership, Memory
  <1>1. /\ o \in Objects /\ host[o] = Absent /\ Before(o, s) /\ s \in Shas
        /\ host' = [host EXCEPT ![o] = Partial] /\ pc' = [pc EXCEPT ![p] = "finish"]
        /\ UNCHANGED <<db, accepted, plan>>
    BY <1>0, AcceptedSha DEF Create, Put, GoTo, store
  <1>2. pc'[p] = "finish" /\ \A q \in Procs \ {p} : pc'[q] = pc[q]
    BY <1>0, <1>1 DEF TypeOK
  <1>3. host'[o] = Partial /\ \A x \in Objects \ {o} : host'[x] = host[x]
    BY <1>0, <1>1 DEF TypeOK
  <1>4. \A c \in Shas : /\ \A x \in Objects : Exact(x, c) => Exact(x, c)'
                        /\ \A x \in Objects : Before(x, c) => Before(x, c)'
    BY <1>1, <1>3, ExactStays
  <1>5. Absent # Partial /\ Absent \notin Shas
    BY ConstantsAssumption
  <1>6. \A q \in Procs : pc[q] = "finish" =>
          Head(plan[q]) \in Objects /\ Head(plan[q]) # o /\ accepted[q].sha \in Shas
    BY <1>0, <1>1, <1>5, AcceptedSha DEF HostInv, MakesAlone, Memory, PlanLeft
  <1>7. MakesAlone'
    <2>1. ASSUME NEW q \in Procs, pc'[q] = "finish"
          PROVE  /\ host'[Head(plan'[q])] = Partial
                 /\ Before(Head(plan[q]), accepted[q].sha)'
                 /\ \A x \in Procs \ {q} : pc'[x] = "finish" => Head(plan'[x]) # Head(plan'[q])
      <3>1. CASE q = p
        <4>1. Before(o, s)'
          BY <1>1, <1>4 DEF Before, CheckoutExact, OperatorExact
        <4>2. QED
          BY <1>1, <1>2, <1>3, <1>6, <3>1, <4>1
      <3>2. CASE q # p
        <4>1. pc[q] = "finish" /\ Head(plan[q]) \in Objects \ {o}
          BY <1>2, <1>6, <2>1, <3>2
        <4>2. /\ host[Head(plan[q])] = Partial /\ Before(Head(plan[q]), accepted[q].sha)
              /\ \A x \in Procs \ {q} : pc[x] = "finish" => Head(plan[x]) # Head(plan[q])
          BY <4>1 DEF HostInv, MakesAlone
        <4>3. Before(Head(plan[q]), accepted[q].sha)'
          BY <1>1, <1>4, <1>6, <4>1, <4>2, ZenonT(60) DEF Before, CheckoutExact, OperatorExact
        <4>4. QED
          BY <1>1, <1>2, <1>3, <1>6, <3>2, <4>1, <4>2, <4>3
      <3>3. QED
        BY <3>1, <3>2
    <2>2. QED
      BY <2>1 DEF MakesAlone
  <1>8. VerifiedExact'
    <2>1. ASSUME NEW q \in Procs, pc'[q] \in {"verifying", "succeed"}, NEW x \in Objects
          PROVE  Exact(x, accepted[q].sha)'
      <3>1. pc[q] \in {"verifying", "succeed"} /\ q # p
        BY <1>2, <2>1
      <3>2. Exact(x, accepted[q].sha) /\ accepted[q].sha \in Shas
        BY <1>0, <3>1, AcceptedSha DEF HostInv, VerifiedExact
      <3>3. QED
        BY <1>1, <1>4, <3>2 DEF Exact, CheckoutExact, OperatorExact, MarkerExact
    <2>2. QED
      BY <2>1 DEF VerifiedExact
  <1>9. MarkerNamesInstall'
    <2>1. CASE o = "marker"
      BY <1>1, <1>3, <2>1 DEF MarkerNamesInstall, Before, OperatorExact, CheckoutExact, Objects
    <2>2. CASE o # "marker"
      BY <1>1, <1>3, <1>5, <2>2 DEF HostInv, MarkerNamesInstall, Objects
    <2>3. QED
      BY <2>1, <2>2
  <1>10. SucceededIsInstalled'
    <2>1. ASSUME NEW r \in db', r.state = "SUCCEEDED", NEW x \in Objects
          PROVE  Exact(x, r.body.sha)'
      BY <1>0, <1>1, <1>4, <2>1, RowSha DEF HostInv, SucceededIsInstalled
    <2>2. QED
      BY <2>1 DEF SucceededIsInstalled
  <1>11. QED
    BY <1>7, <1>8, <1>9, <1>10 DEF HostInv

\* What is finished was partial, and rests on what Before saw.
LEMMA FinishKeepsHost ==
    ASSUME Ownership, HostInv, NEW p \in Procs, Finish(p)
    PROVE  HostInv'
  <1> DEFINE o == Head(plan[p])
             s == accepted[p].sha
  <1>0. TypeOK /\ Memory
    BY DEF Ownership, Memory
  <1>1. /\ o \in Objects /\ host[o] = Partial /\ Before(o, s) /\ s \in Shas
        /\ \A q \in Procs \ {p} : pc[q] = "finish" => Head(plan[q]) # o
        /\ host' = [host EXCEPT ![o] = Written(o, s)]
        /\ pc' = [pc EXCEPT ![p] = IF Tail(plan[p]) = <<>> THEN "verify" ELSE "mutate"]
        /\ plan' = [plan EXCEPT ![p] = Tail(@)]
        /\ UNCHANGED <<db, accepted>>
    BY <1>0, AcceptedSha DEF Finish, Put, GoTo, store, HostInv, MakesAlone, Memory, PlanLeft
  <1>2. pc'[p] \in {"verify", "mutate"} /\ \A q \in Procs \ {p} : pc'[q] = pc[q] /\ plan'[q] = plan[q]
    BY <1>0, <1>1 DEF TypeOK
  <1>3. host'[o] = Written(o, s) /\ \A x \in Objects \ {o} : host'[x] = host[x]
    BY <1>0, <1>1 DEF TypeOK
  <1>4. \A c \in Shas : /\ \A x \in Objects : Exact(x, c) => Exact(x, c)'
                        /\ \A x \in Objects : Before(x, c) => Before(x, c)'
    BY <1>1, <1>3, ExactStays
  <1>5. Partial # Absent /\ Partial \notin Shas
    BY ConstantsAssumption
  <1>6. MakesAlone'
    <2>1. ASSUME NEW q \in Procs, pc'[q] = "finish"
          PROVE  /\ host'[Head(plan'[q])] = Partial
                 /\ Before(Head(plan[q]), accepted[q].sha)'
                 /\ \A x \in Procs \ {q} : pc'[x] = "finish" => Head(plan'[x]) # Head(plan'[q])
      <3>1. q # p /\ pc[q] = "finish" /\ plan'[q] = plan[q]
        BY <1>2, <2>1
      <3>2. Head(plan[q]) \in Objects \ {o} /\ accepted[q].sha \in Shas
        BY <1>0, <1>1, <3>1, AcceptedSha DEF Memory, PlanLeft
      <3>3. /\ host[Head(plan[q])] = Partial /\ Before(Head(plan[q]), accepted[q].sha)
            /\ \A x \in Procs \ {q} : pc[x] = "finish" => Head(plan[x]) # Head(plan[q])
        BY <3>1 DEF HostInv, MakesAlone
      <3>4. Before(Head(plan[q]), accepted[q].sha)'
        BY <1>1, <1>4, <3>1, <3>2, <3>3 DEF Before, CheckoutExact, OperatorExact
      <3>5. QED
        BY <1>1, <1>2, <1>3, <3>1, <3>2, <3>3, <3>4
    <2>2. QED
      BY <2>1 DEF MakesAlone
  <1>7. VerifiedExact'
    <2>1. ASSUME NEW q \in Procs, pc'[q] \in {"verifying", "succeed"}, NEW x \in Objects
          PROVE  Exact(x, accepted[q].sha)'
      <3>1. pc[q] \in {"verifying", "succeed"}
        BY <1>2, <2>1
      <3>2. Exact(x, accepted[q].sha) /\ accepted[q].sha \in Shas
        BY <1>0, <3>1, AcceptedSha DEF HostInv, VerifiedExact
      <3>3. QED
        BY <1>1, <1>4, <3>2 DEF Exact, CheckoutExact, OperatorExact, MarkerExact
    <2>2. QED
      BY <2>1 DEF VerifiedExact
  <1>8. MarkerNamesInstall'
    <2>1. CASE o = "marker"
      BY <1>1, <1>3, <2>1 DEF MarkerNamesInstall, Written, Before, OperatorExact, CheckoutExact, Objects
    <2>2. CASE o # "marker"
      BY <1>1, <1>3, <1>5, <2>2 DEF HostInv, MarkerNamesInstall, Objects
    <2>3. QED
      BY <2>1, <2>2
  <1>9. SucceededIsInstalled'
    <2>1. ASSUME NEW r \in db', r.state = "SUCCEEDED", NEW x \in Objects
          PROVE  Exact(x, r.body.sha)'
      BY <1>0, <1>1, <1>4, <2>1, RowSha DEF HostInv, SucceededIsInstalled
    <2>2. QED
      BY <2>1 DEF SucceededIsInstalled
  <1>10. QED
    BY <1>6, <1>7, <1>8, <1>9 DEF HostInv

LEMMA HostByStep ==
    ASSUME Ownership, HostInv, NEW p \in Procs, Step(p)
    PROVE  HostInv'
  <1>1. CASE Create(p)
    BY <1>1, CreateKeepsHost
  <1>2. CASE Finish(p)
    BY <1>2, FinishKeepsHost
  <1>3. CASE ~Create(p) /\ ~Finish(p)
    <2>1. /\ UNCHANGED host
          /\ pc'[p] # "finish"
          /\ pc'[p] \in {"verifying", "succeed"} =>
               /\ accepted'[p] = accepted[p]
               /\ pc[p] = "verifying" \/ (\A o \in Objects : Exact(o, accepted[p].sha))
      BY <1>3, HostKept DEF Ownership
    <2>2. \A q \in Procs \ {p} : Keeps(q)
      BY OthersKept DEF Ownership, Memory
    <2>3. \A o \in Objects, c \in Shas : /\ Exact(o, c) => Exact(o, c)'
                                        /\ Before(o, c) => Before(o, c)'
      BY <2>1 DEF Exact, Before, CheckoutExact, OperatorExact, MarkerExact
    <2>4. MakesAlone'
      <3>1. ASSUME NEW q \in Procs, pc'[q] = "finish"
            PROVE  /\ host'[Head(plan'[q])] = Partial
                   /\ Before(Head(plan[q]), accepted[q].sha)'
                   /\ \A x \in Procs \ {q} : pc'[x] = "finish" => Head(plan'[x]) # Head(plan'[q])
        <4>1. q # p /\ pc[q] = "finish" /\ plan'[q] = plan[q] /\ accepted'[q] = accepted[q]
          BY <2>1, <2>2, <3>1 DEF Keeps
        <4>2. /\ host[Head(plan[q])] = Partial /\ Before(Head(plan[q]), accepted[q].sha)
              /\ \A x \in Procs \ {q} : pc[x] = "finish" => Head(plan[x]) # Head(plan[q])
          BY <4>1 DEF HostInv, MakesAlone
        <4>3. Before(Head(plan[q]), accepted[q].sha)'
          BY <2>1, <4>1, <4>2 DEF Before, CheckoutExact, OperatorExact
        <4>4. QED
          BY <2>1, <2>2, <4>1, <4>2, <4>3 DEF Keeps
      <3>2. QED
        BY <3>1 DEF MakesAlone
    <2>5. VerifiedExact'
      <3>1. ASSUME NEW q \in Procs, pc'[q] \in {"verifying", "succeed"}, NEW x \in Objects
            PROVE  Exact(x, accepted[q].sha)'
        <4>1. Exact(x, accepted[q].sha) /\ accepted'[q] = accepted[q]
          <5>1. CASE q = p
            BY <2>1, <3>1, <5>1 DEF HostInv, VerifiedExact
          <5>2. CASE q # p
            BY <2>2, <3>1, <5>2 DEF HostInv, VerifiedExact, Keeps
          <5>3. QED
            BY <5>1, <5>2
        <4>2. QED
          BY <2>1, <4>1 DEF Exact, CheckoutExact, OperatorExact, MarkerExact
      <3>2. QED
        BY <3>1 DEF VerifiedExact
    <2>6. MarkerNamesInstall'
      BY <2>1 DEF HostInv, MarkerNamesInstall
    <2>7. SucceededIsInstalled'
      <3>1. ASSUME NEW r \in db', r.state = "SUCCEEDED", NEW x \in Objects
            PROVE  Exact(x, r.body.sha)'
        <4>1. CASE r \in db
          BY <2>1, <3>1, <4>1 DEF HostInv, SucceededIsInstalled, Exact, CheckoutExact,
                                  OperatorExact, MarkerExact
        <4>2. CASE MarkSucceeded(p) /\ r.body = accepted[p]
          <5>1. Exact(x, accepted[p].sha)
            BY <4>2 DEF MarkSucceeded, HostInv, VerifiedExact
          <5>2. QED
            BY <2>1, <4>2, <5>1 DEF Exact, CheckoutExact, OperatorExact, MarkerExact
        <4>3. QED
          BY <3>1, <4>1, <4>2, NewSuccess
      <3>2. QED
        BY <3>1 DEF SucceededIsInstalled
    <2>8. QED
      BY <2>4, <2>5, <2>6, <2>7 DEF HostInv
  <1>4. QED
    BY <1>1, <1>2, <1>3

LEMMA HostStep == Ownership /\ HostInv /\ [Next]_vars => HostInv'
  <1> SUFFICES ASSUME Ownership, HostInv, [Next]_vars PROVE HostInv'
    OBVIOUS
  <1>1. CASE UNCHANGED <<db, host, memory>>
    BY <1>1 DEF memory, HostInv, MakesAlone, VerifiedExact, MarkerNamesInstall,
                SucceededIsInstalled, Before, Exact, CheckoutExact, OperatorExact, MarkerExact
  <1>2. CASE Push \/ \E i \in Issues : Edit(i)
    BY <1>1, <1>2, OwnersStep DEF Ownership, Memory
  <1>3. CASE UNCHANGED vars
    BY <1>1, <1>3 DEF vars, store
  <1>4. QED
    BY <1>2, <1>3, HostByStep DEF Next

-----------------------------------------------------------------------------
(* Theorems *)

LEMMA IInvParts == IInv <=> Ownership /\ HostInv
  BY DEF IInv, Ownership, Memory, HostInv

\* The inductive invariant: what each process knows at each place, the row it
\* holds alone, and the objects nobody else makes.
THEOREM Invariance == Spec => []IInv
  <1>1. Init => IInv
    BY OwnershipInit, HostInit, IInvParts
  <1>2. IInv /\ [Next]_vars => IInv'
    <2> SUFFICES ASSUME IInv, [Next]_vars PROVE IInv'
      OBVIOUS
    <2>1. Ownership' /\ HostInv'
      BY OwnershipStep, HostStep, IInvParts
    <2>2. QED
      BY <2>1 DEF IInv, Ownership, Memory, HostInv
  <1>3. QED
    BY <1>1, <1>2, PTL DEF Spec

\* Every variable keeps its type.
THEOREM TypeCorrect == Spec => []TypeOK
  <1>1. IInv => TypeOK
    BY DEF IInv
  <1>2. QED
    BY <1>1, Invariance, PTL

\* Who may change the host has spent what it accepted, and alone.
THEOREM UsedOnce == Spec => []SingleUse
  <1>1. IInv => SingleUse
    BY DEF IInv, HoldsRow, HoldsAlone, SingleUse, Holding
  <1>2. QED
    BY <1>1, Invariance, PTL

\* The store always opens again.
THEOREM AlwaysOpens == Spec => []StoreAlwaysOpens
  <1>1. IInv => StoreAlwaysOpens
    BY DEF IInv
  <1>2. QED
    BY <1>1, Invariance, PTL

\* SUCCEEDED is only on record for a whole installation of that commit.
THEOREM SuccessInstalled == Spec => []SucceededIsInstalled
  <1>1. IInv => SucceededIsInstalled
    BY DEF IInv
  <1>2. QED
    BY <1>1, Invariance, PTL

\* The activation marker names the commit beneath it.
THEOREM MarkerTruthful == Spec => []MarkerNamesInstall
  <1>1. IInv => MarkerNamesInstall
    BY DEF IInv
  <1>2. QED
    BY <1>1, Invariance, PTL

\* A row that changes is that of the process that steps, which inserted it.
LEMMA OnlyOwnRow ==
    ASSUME Ownership, NEW p \in Procs, Step(p), NEW r \in db, r \notin db'
    PROVE  inserted[p] = r.issue
  <1>1. CASE TakesRow(p)
    BY <1>1 DEF TakesRow, Insert
  <1>2. CASE MovesRow(p)
    <2>1. pc[p] \in Holding /\ inserted[p] = issue[p]
      BY <1>2 DEF MovesRow, Ownership, Memory, OwnsRow
    <2>2. PICK from, to \in States, spend \in BOOLEAN : Transition(p, from, to, spend)
      BY <1>2 DEF MovesRow
    <2>3. PICK x \in db : /\ x.issue = issue[p] /\ x.body = accepted[p] /\ x.state = from
                          /\ pc[p] \in Mutating => x.consumed
                          /\ db' = (db \ {x}) \cup {Moved(x, to, spend)}
      BY <2>1, <2>2, OwnTransition
    <2>4. r = x
      BY <2>3
    <2>5. QED
      BY <2>1, <2>3, <2>4
  <1>3. QED
    BY <1>1, <1>2, RowEffects DEF Ownership

\* A step that changes a row takes its process on.
LEMMA RowStepMoves ==
    ASSUME TypeOK, NEW p \in Procs, Step(p), db' # db
    PROVE  pc'[p] # pc[p]
  <1> USE DEF TypeOK, GoTo
  <1>1. CASE Discover(p) \/ Validate(p) \/ Accept(p) \/ Consume(p)
    BY <1>1 DEF Discover, Validate, Accept, Consume
  <1>2. CASE MarkVerifying(p) \/ MarkSucceeded(p)
    BY <1>2 DEF MarkVerifying, MarkSucceeded, Exit
  <1>3. CASE CanaryDiscover(p) \/ CanaryValidate(p) \/ CanaryAccept(p)
    BY <1>3 DEF CanaryDiscover, CanaryValidate, CanaryAccept, Exit
  <1>4. CASE ~ (\/ Discover(p) \/ Validate(p) \/ Accept(p) \/ Consume(p)
                \/ MarkVerifying(p) \/ MarkSucceeded(p)
                \/ CanaryDiscover(p) \/ CanaryValidate(p) \/ CanaryAccept(p))
    BY <1>4 DEF Step, store, RouteOperation, CanaryPreflight, Begin, AcceptIssue,
         VerifySource, IsAvailable, VerifyUnchanged, Observe, Fetch, Create, Finish,
         VerifyExact, CanaryRead, CanaryChecks, CanaryUnchanged, Stop, Kill
  <1>5. QED
    BY <1>1, <1>2, <1>3, <1>4

\* Nothing resumes a request whose process is gone: a row is only ever changed
\* by the process that inserted it.
THEOREM NotResumed == Spec => NeverResumed
  <1>1. IInv /\ [Next]_vars =>
          [\A r \in db \ db' : \E p \in Procs : inserted[p] = r.issue /\ pc'[p] # pc[p]]_vars
    <2> SUFFICES ASSUME IInv, Next, NEW r \in db \ db'
                 PROVE  \E p \in Procs : inserted[p] = r.issue /\ pc'[p] # pc[p]
      OBVIOUS
    <2>1. ASSUME NEW p \in Procs, Step(p)
          PROVE  inserted[p] = r.issue /\ pc'[p] # pc[p]
      BY <2>1, OnlyOwnRow, RowStepMoves, IInvParts DEF IInv
    <2>2. CASE Push \/ \E i \in Issues : Edit(i)
      BY <2>2, OwnersStep DEF IInv
    <2>3. QED
      BY <2>1, <2>2 DEF Next
  <1>2. QED
    BY <1>1, Invariance, PTL DEF Spec, NeverResumed

-----------------------------------------------------------------------------
(* The refinement *)

Pair(r) == [issue |-> r.issue, body |-> r.body]

LEMMA SpentRows == \A e : e \in Spent <=> \E r \in db : r.consumed /\ e = Pair(r)
  BY DEF Spent, Pair

\* A row of a process that mutates is a spent authorization for its commit.
LEMMA HolderSpent ==
    ASSUME Ownership, NEW p \in Procs, pc[p] \in {"mutate", "finish"}
    PROVE  \E e \in Spent : e.body = accepted[p]
  <1>1. PICK r \in db : r.body = accepted[p] /\ r.consumed
    BY DEF Ownership, HoldsRow, Holding, Mutating
  <1>2. Pair(r) \in Spent /\ Pair(r).body = accepted[p]
    BY <1>1, SpentRows DEF Pair
  <1>3. QED
    BY <1>2

\* A transition spends its process's authorization, or nothing.
LEMMA TransitionSpends ==
    ASSUME Ownership, NEW p \in Procs, MovesRow(p)
    PROVE  \/ UNCHANGED Spent
           \/ \E i \in Issues, b \in Bodies :
                /\ \A e \in Spent : e.issue # i /\ e.body.request # b.request
                /\ Spent' = Spent \cup {[issue |-> i, body |-> b]}
  <1>1. pc[p] \in Holding
    BY DEF MovesRow
  <1>2. PICK from, to \in States, spend \in BOOLEAN :
          /\ Transition(p, from, to, spend)
          /\ \/ from \in UnspentStates /\ to \in UnspentStates /\ spend = FALSE
             \/ from \in UnspentStates /\ to \in ConsumedStates /\ spend = TRUE
             \/ from \in ConsumedStates /\ to \in ConsumedStates
    BY DEF MovesRow
  <1>3. PICK x \in db : /\ x.issue = issue[p] /\ x.body = accepted[p] /\ x.state = from
                        /\ pc[p] \in Mutating => x.consumed
                        /\ db' = (db \ {x}) \cup {Moved(x, to, spend)}
    BY <1>1, <1>2, OwnTransition
  <1>4. PICK n : n = Moved(x, to, spend)
    OBVIOUS
  <1>5. x \in Rows
    BY DEF Ownership, Memory, TypeOK
  <1>6. n.issue = x.issue /\ n.body = x.body /\ n.consumed = (x.consumed \/ spend)
    BY <1>4, <1>5 DEF Moved, Rows
  <1>7. Pair(n) = Pair(x) /\ db' = (db \ {x}) \cup {n}
    BY <1>3, <1>4, <1>6 DEF Pair
  <1>8. \A e : e \in Spent' <=> \E r \in db' : r.consumed /\ e = Pair(r)
    BY DEF Spent, Pair
  <1>9. CASE n.consumed <=> x.consumed
    <2>1. \A e : e \in Spent' <=> e \in Spent
      BY <1>7, <1>8, <1>9, SpentRows
    <2>2. QED
      BY <2>1
  <1>10. CASE n.consumed /\ ~x.consumed
    <2>1. \A e : e \in Spent' <=> e \in Spent \/ e = Pair(x)
      BY <1>7, <1>8, <1>10, SpentRows
    <2>2. \A e \in Spent : e.issue # x.issue /\ e.body.request # x.body.request
      <3>1. ASSUME NEW e \in Spent PROVE e.issue # x.issue /\ e.body.request # x.body.request
        <4>1. PICK y \in db : y.consumed /\ e = Pair(y)
          BY SpentRows
        <4>2. y # x /\ e.issue = y.issue /\ e.body = y.body
          BY <1>10, <4>1 DEF Pair
        <4>3. QED
          BY <4>2 DEF Ownership, KeysUnique
      <3>2. QED
        BY <3>1
    <2>3. x.issue \in Issues /\ x.body \in Bodies
      BY <1>5 DEF Rows
    <2>4. Spent' = Spent \cup {[issue |-> x.issue, body |-> x.body]}
      BY <2>1 DEF Pair
    <2>5. QED
      BY <2>2, <2>3, <2>4
  <1>11. QED
    BY <1>6, <1>9, <1>10

\* A new row is not spent.
LEMMA InsertSpends ==
    ASSUME NEW p \in Procs, Insert(p)
    PROVE  UNCHANGED Spent
  <1>1. db' = db \cup {NewRow(p)} /\ NewRow(p).consumed = FALSE
    BY DEF Insert, NewRow
  <1>2. {r \in db' : r.consumed} = {r \in db : r.consumed}
    BY <1>1
  <1>3. QED
    BY <1>2 DEF Spent

LEMMA AbstractStep ==
    ASSUME Ownership, HostInv, NEW p \in Procs, Step(p)
    PROVE  [Abstract!Next]_(Abstract!vars)
  <1>0. TypeOK /\ Memory
    BY DEF Ownership, Memory
  <1>1. CASE Create(p)
    <2>1. /\ Head(plan[p]) \in Objects /\ host[Head(plan[p])] = Absent
          /\ host' = [host EXCEPT ![Head(plan[p])] = Partial]
          /\ pc[p] = "mutate" /\ UNCHANGED db
      BY <1>1 DEF Create, Put, store
    <2>2. Spent # {} /\ UNCHANGED Spent
      BY <2>1, HolderSpent DEF Spent
    <2>3. Abstract!Begin(Head(plan[p]))
      BY <2>1, <2>2 DEF Abstract!Begin
    <2>4. QED
      BY <2>1, <2>3 DEF Abstract!Next
  <1>2. CASE Finish(p)
    <2>1. /\ Head(plan[p]) \in Objects /\ host[Head(plan[p])] = Partial
          /\ Before(Head(plan[p]), accepted[p].sha)
          /\ host' = [host EXCEPT ![Head(plan[p])] = Written(Head(plan[p]), accepted[p].sha)]
          /\ pc[p] = "finish" /\ UNCHANGED db
      BY <1>0, <1>2 DEF Finish, Put, store, HostInv, MakesAlone, Memory, PlanLeft
    <2>2. Written(Head(plan[p]), accepted[p].sha) = accepted[p].sha
      BY <2>1 DEF Written, Before, CheckoutExact, Objects
    <2>3. PICK e \in Spent : e.body = accepted[p]
      BY <2>1, HolderSpent
    <2>4. accepted[p].op = "install"
      BY <1>0, <2>1, AcceptedSha
    <2>5. UNCHANGED Spent
      BY <2>1 DEF Spent
    <2>6. Abstract!Complete(Head(plan[p]))
      BY <2>1, <2>2, <2>3, <2>4, <2>5 DEF Abstract!Complete
    <2>7. QED
      BY <2>1, <2>6 DEF Abstract!Next
  <1>3. CASE ~Create(p) /\ ~Finish(p)
    <2>1. UNCHANGED host
      BY <1>0, <1>3, HostKept
    <2>2. CASE TakesRow(p)
      BY <2>1, <2>2, InsertSpends DEF TakesRow, Abstract!vars
    <2>3. CASE MovesRow(p)
      <3>1. CASE UNCHANGED Spent
        BY <2>1, <3>1 DEF Abstract!vars
      <3>2. ASSUME NEW i \in Issues, NEW b \in Bodies,
                   \A e \in Spent : e.issue # i /\ e.body.request # b.request,
                   Spent' = Spent \cup {[issue |-> i, body |-> b]}
            PROVE  Abstract!Next
        <4>1. Abstract!Spend(i, b)
          BY <2>1, <3>2 DEF Abstract!Spend
        <4>2. QED
          BY <4>1 DEF Abstract!Next
      <3>3. QED
        BY <2>3, <3>1, <3>2, TransitionSpends
    <2>4. CASE UNCHANGED db
      BY <2>1, <2>4 DEF Abstract!vars, Spent
    <2>5. QED
      BY <1>0, <2>2, <2>3, <2>4, RowEffects
  <1>4. QED
    BY <1>1, <1>2, <1>3

\* Whatever crashes, edits, stale checks and concurrent processes do, each
\* behaviour is one of OneShotInstall.
THEOREM Refinement == Spec => ImplementsOneShot
  <1>1. Init => Abstract!Init
    BY DEF Init, Abstract!Init, Spent
  <1>2. IInv /\ [Next]_vars => [Abstract!Next]_(Abstract!vars)
    <2> SUFFICES ASSUME IInv, [Next]_vars PROVE [Abstract!Next]_(Abstract!vars)
      OBVIOUS
    <2>1. ASSUME NEW p \in Procs, Step(p) PROVE [Abstract!Next]_(Abstract!vars)
      BY <2>1, AbstractStep, IInvParts
    <2>2. CASE UNCHANGED <<db, host>>
      BY <2>2 DEF Abstract!vars, Spent
    <2>3. CASE Push \/ \E i \in Issues : Edit(i)
      BY <2>2, <2>3, OwnersStep DEF IInv
    <2>4. CASE UNCHANGED vars
      BY <2>2, <2>4 DEF vars, store
    <2>5. QED
      BY <2>1, <2>3, <2>4 DEF Next
  <1>3. QED
    BY <1>1, <1>2, Invariance, PTL DEF Spec, ImplementsOneShot, Abstract!Spec

=============================================================================
