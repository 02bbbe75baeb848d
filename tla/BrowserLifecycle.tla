-------------------------- MODULE BrowserLifecycle --------------------------
(* browser_lifecycle.py: a wrapper starts a browser in a session of its own,  *)
(* keeps a record of the processes it owns, and ends them all when the run is  *)
(* over; cleanup_stale_records does the same for a wrapper that died. Pids are  *)
(* used again by the kernel, so an owned process is a pid with its start time.   *)
(* A look at /proc is two steps: the pids are listed, then whoever has them is     *)
(* read, all in one step. One run and one cleaner; the last check of a start time   *)
(* and the signal after it are one step. A session and a process group are one.      *)
EXTENDS Naturals

CONSTANTS
    Pid,      \* pids, positive numbers
    Wrapper,  \* the wrapper's pid
    None,
    MaxStart, \* bound on processes that start
    Faults    \* subset of {"killed"}

\* A process: the session it is in, whether it comes from the browser, and whether it has ended.
Process == [start : Nat, parent : Pid \cup {0}, session : Pid, ours : BOOLEAN, dead : BOOLEAN]
Identity == Pid \X Nat

ASSUME PidAssumption ==
    /\ Pid \subseteq Nat \ {0} /\ Wrapper \in Pid
    /\ None \notin Process \cup Identity
    /\ MaxStart \in Nat /\ Faults \subseteq {"killed"}

VARIABLES
    table,   \* the process table
    starts,  \* processes started so far
    leader,  \* the browser's first process
    record,  \* the members in the run's record on disk, {} when there is none
    actor,   \* the wrapper and the cleaner of stale records
    hit      \* the strangers a signal was sent to

vars == <<table, starts, leader, record, actor, hit>>
kernel == <<table, starts>>

Actors == {"wrapper", "cleaner"}
Looking == {"loaded", "eligible", "guard", "cleanup", "grace", "wait"}
Places == Looking \cup {"idle", "started", "term", "kill", "done", "gone"}
\* What an actor knows: the members of its copy of the record, whom it has still to signal,
\* and the pids of the listing it has not read yet. A listing always has init, 0.
Idle == [at |-> "idle", members |-> {}, todo |-> {}, listed |-> {}, again |-> FALSE]

TypeOK ==
    /\ table \in [Pid -> Process \cup {None}] /\ starts \in 0 .. MaxStart
    /\ leader \in Identity \cup {None}
    /\ record \subseteq Identity /\ hit \subseteq Identity
    /\ actor \in [Actors -> [at : Places, members : SUBSET Identity, todo : SUBSET Identity,
                             listed : SUBSET (Pid \cup {0}), again : BOOLEAN]]

Init ==
    /\ table = [p \in Pid |-> IF p = Wrapper THEN [start |-> 0, parent |-> 0, session |-> p,
                                                   ours |-> FALSE, dead |-> FALSE] ELSE None]
    /\ starts = 0 /\ leader = None /\ record = {}
    /\ actor = [a \in Actors |-> Idle]
    /\ hit = {}

Present == {p \in Pid : table[p] # None}
Alive == {p \in Present : ~table[p].dead}
Is(p, id) == p = id[1] /\ p \in Present /\ table[p].start = id[2]
WrapperRuns == Is(Wrapper, <<Wrapper, 0>>)
Ids(S) == {<<p, table[p].start>> : p \in S}

-----------------------------------------------------------------------------
(* The kernel.                                                                *)

\* A pid that still names a session is not given to a new process.
Free(q) == q \notin Present /\ \A p \in Present : table[p].session # q

NewProcess(q, parent, session, ours) ==
    /\ starts < MaxStart /\ Free(q)
    /\ starts' = starts + 1
    /\ table' = [table EXCEPT ![q] = [start |-> starts + 1, parent |-> parent, session |-> session,
                                      ours |-> ours, dead |-> FALSE]]

\* The orphans of p go to the wrapper, a subreaper, when it is their ancestor. The wrapper
\* reaps its children itself, everybody else does at once.
Ended(p) ==
    LET heir == IF table[p].ours /\ WrapperRuns THEN Wrapper ELSE 0
    IN  [q \in Pid |->
            IF q \notin Present THEN None
            ELSE IF q = p THEN IF table[p].parent = Wrapper /\ WrapperRuns
                               THEN [table[p] EXCEPT !.dead = TRUE] ELSE None
            ELSE IF table[q].parent # p THEN table[q]
            ELSE [table[q] EXCEPT !.parent = heir]]

\* The wrapper's end: init reaps what has ended and adopts the rest.
WrapperEnded ==
    [q \in Pid |->
        IF q = Wrapper \/ q \notin Present THEN None
        ELSE IF table[q].parent # Wrapper THEN table[q]
        ELSE IF table[q].dead THEN None ELSE [table[q] EXCEPT !.parent = 0]]

User == UNCHANGED <<leader, record, actor, hit>>
Forkers == {p \in Alive : <<p, table[p].start>> # <<Wrapper, 0>>}

Fork(p, q)        == p \in Forkers /\ NewProcess(q, p, table[p].session, table[p].ours) /\ User
StrangerStarts(q) == NewProcess(q, 0, q, FALSE) /\ User

Setsid(p) ==
    /\ p \in Forkers /\ \A q \in Present : table[q].session # p
    /\ table' = [table EXCEPT ![p].session = p]
    /\ UNCHANGED starts /\ User

Exit(p) == p \in Forkers /\ table' = Ended(p) /\ UNCHANGED starts /\ User

Kernel ==
    \E p \in Pid : \/ StrangerStarts(p) \/ Setsid(p) \/ Exit(p)
                   \/ \E q \in Pid : Fork(p, q)

-----------------------------------------------------------------------------
(* A look: snapshot_processes and collect_owned.                              *)

At(a, place) == actor[a].at = place

\* While the wrapper waits for the end it reaps before every look.
Reaped == [p \in Pid |-> IF p \in Present /\ table[p].dead THEN None ELSE table[p]]

List(a) ==
    /\ actor[a].at \in Looking /\ actor[a].listed = {}
    /\ table' = IF a = "wrapper" /\ At(a, "wait") THEN Reaped ELSE table
    /\ actor' = [actor EXCEPT ![a].listed = Present' \cup {0}]
    /\ UNCHANGED <<starts, leader, record, hit>>

Looks(a, place) == At(a, place) /\ actor[a].listed # {}

\* Whoever has a listed pid by now.
Seen(a) == Present \cap actor[a].listed
SeesWrapper(a) == Wrapper \in Seen(a) /\ WrapperRuns

Reused(a) ==
    \E id \in actor[a].members \cup {<<Wrapper, 0>>, leader} : id[1] \in Seen(a) /\ ~Is(id[1], id)

Exact(a) == {p \in Seen(a) : \E id \in actor[a].members : Is(p, id)}

\* Descendants of the wrapper while it runs, through processes that are owned already.
WithDescendants(a) ==
    LET seen == Seen(a)
        exact == Exact(a)
        families == {S \in SUBSET seen : /\ exact \cup {Wrapper} \subseteq S
                                         /\ \A p \in seen : table[p].parent \in S => p \in S}
    IN  IF SeesWrapper(a) THEN {p \in seen \ {Wrapper} : \A S \in families : p \in S} ELSE exact

Session(a) == {p \in Seen(a) : table[p].session = leader[1]}

\* A variant: whoever has the leader's number as session belongs to it.
ProvenAlways(a, kin) == TRUE

\* The session is the browser's when its leader lives or a process owned otherwise is in it.
Proven(a, kin) == (leader[1] \in Seen(a) /\ Is(leader[1], leader)) \/ kin \cap Session(a) # {}

Owned(a) ==
    LET kin == WithDescendants(a)
    IN  (kin \cup (IF Proven(a, kin) THEN Session(a) ELSE {})) \ {Wrapper}

\* A variant: a session nobody can prove is no reason to stop.
BlockedByReuse(a) == Reused(a)

Blocked(a) == Reused(a) \/ (Session(a) # {} /\ ~Proven(a, WithDescendants(a)))

-----------------------------------------------------------------------------
(* Steps of both actors.                                                      *)

\* write_record, when a look found members it does not have.
Write(a, members) == record' = IF members = actor[a].members THEN record ELSE members

\* The wrapper tries cleanup once more when it failed; whoever failed last stops.
GivesUp(a) ==
    IF a = "wrapper" /\ ~actor[a].again
    THEN actor' = [actor EXCEPT ![a].at = "cleanup", ![a].todo = {},
                                   ![a].listed = {}, ![a].again = TRUE] /\ UNCHANGED kernel
    ELSE IF a = "wrapper"
    THEN actor' = [actor EXCEPT ![a] = [Idle EXCEPT !.at = "gone"]] /\ table' = WrapperEnded /\ UNCHANGED starts
    ELSE actor' = [actor EXCEPT ![a] = Idle] /\ UNCHANGED kernel

\* The record is removed and the wrapper returns; what ended is reaped.
Cleaned(a) ==
    /\ record' = {}
    /\ table' = IF a = "wrapper" THEN WrapperEnded ELSE table
    /\ actor' = [actor EXCEPT ![a] = [Idle EXCEPT !.at = IF a = "wrapper" THEN "done" ELSE "idle"]]
    /\ UNCHANGED <<starts, leader, hit>>

Stops(a) == GivesUp(a) /\ UNCHANGED <<leader, record, hit>>

\* Everything owned is written to the record before anything is signalled.
CleanupLook(a) ==
    /\ Looks(a, "cleanup")
    /\ LET owned == Owned(a)
           members == actor[a].members \cup Ids(owned)
       IN  IF Blocked(a) THEN Stops(a)
           ELSE /\ Write(a, members)
                /\ actor' = [actor EXCEPT ![a].at = "term", ![a].members = members,
                                          ![a].todo = Ids(owned), ![a].listed = {}]
                /\ UNCHANGED <<kernel, leader, hit>>

Strangers(S) == {p \in S : ~table[p].ours}

\* One process of the list, highest pid first, is signalled if it is still itself.
Signal(a) ==
    /\ At(a, "term") \/ At(a, "kill")
    /\ \E id \in actor[a].todo :
          /\ \A other \in actor[a].todo : other[1] <= id[1]
          /\ IF id[1] \in Present /\ ~Is(id[1], id) THEN Stops(a)
             ELSE /\ actor' = [actor EXCEPT ![a].todo = @ \ {id}]
                  /\ hit' = hit \cup Ids(Strangers(Present \cap {id[1]}))
                  /\ table' = IF At(a, "kill") /\ id[1] \in Alive THEN Ended(id[1]) ELSE table
                  /\ UNCHANGED <<starts, leader, record>>

Signalled(a) ==
    /\ At(a, "term") \/ At(a, "kill")
    /\ actor[a].todo = {}
    /\ actor' = [actor EXCEPT ![a].at = IF @ = "term" THEN "grace" ELSE "wait"]
    /\ UNCHANGED <<kernel, leader, record, hit>>

Again(a) == actor' = [actor EXCEPT ![a].listed = {}] /\ UNCHANGED <<kernel, leader, record, hit>>

\* Who appears during the grace is recorded and signalled too.
GraceLook(a) ==
    /\ Looks(a, "grace")
    /\ LET owned == Owned(a)
           new == {p \in owned : <<p, table[p].start>> \notin actor[a].members}
           members == actor[a].members \cup Ids(new)
       IN  IF Blocked(a) THEN Stops(a)
           ELSE IF owned = {} THEN Cleaned(a)
           ELSE /\ Write(a, members)
                /\ actor' = [actor EXCEPT ![a].members = members, ![a].listed = {}]
                /\ hit' = hit \cup Ids(Strangers(new))
                /\ UNCHANGED <<kernel, leader>>

\* The grace is over: who is killed is looked up anew, and not recorded.
GraceOver(a) ==
    /\ Looks(a, "grace")
    /\ IF Blocked(a) THEN Stops(a)
       ELSE /\ actor' = [actor EXCEPT ![a].at = "kill", ![a].todo = Ids(Owned(a)), ![a].listed = {}]
            /\ UNCHANGED <<kernel, leader, record, hit>>

\* Two seconds are left for everybody to be gone.
KillLook(a) ==
    /\ Looks(a, "wait")
    /\ IF Blocked(a) THEN Stops(a)
       ELSE IF Owned(a) = {} THEN Cleaned(a)
       ELSE Stops(a) \/ Again(a)

CleanupStep(a) == List(a) \/ CleanupLook(a) \/ Signal(a) \/ Signalled(a) \/ GraceLook(a) \/ GraceOver(a) \/ KillLook(a)

-----------------------------------------------------------------------------
(* The wrapper.                                                               *)

\* Popen with a new session.
Launch(q) ==
    /\ At("wrapper", "idle") /\ WrapperRuns
    /\ NewProcess(q, Wrapper, q, TRUE)
    /\ leader' = <<q, starts + 1>>
    /\ actor' = [actor EXCEPT !["wrapper"].at = "started"]
    /\ UNCHANGED <<record, hit>>

\* A variant: the leader is recorded by its pid alone.
FirstRecordByPid ==
    /\ At("wrapper", "started")
    /\ record' = {<<leader[1], None>>}
    /\ actor' = [actor EXCEPT !["wrapper"].at = "guard", !["wrapper"].members = {leader}]
    /\ UNCHANGED <<kernel, leader, hit>>

FirstRecord ==
    /\ At("wrapper", "started")
    /\ record' = {leader}
    /\ actor' = [actor EXCEPT !["wrapper"].at = "guard", !["wrapper"].members = {leader}]
    /\ UNCHANGED <<kernel, leader, hit>>

\* One turn of the loop. It ends when the leader is found dead (and reaped), at the time-out or
\* on a signal; an ambiguous owner ends it with an error.
Guard ==
    /\ Looks("wrapper", "guard")
    /\ LET members == actor["wrapper"].members \cup Ids(Owned("wrapper"))
           ended == Is(leader[1], leader) /\ table[leader[1]].dead
       IN  IF Blocked("wrapper")
           THEN /\ actor' = [actor EXCEPT !["wrapper"].at = "cleanup", !["wrapper"].listed = {},
                                          !["wrapper"].again = TRUE]
                /\ UNCHANGED <<kernel, leader, record, hit>>
           ELSE /\ Write("wrapper", members)
                /\ \E place \in {"cleanup"} \cup (IF ended THEN {} ELSE {"guard"}) :
                      actor' = [actor EXCEPT !["wrapper"].at = place, !["wrapper"].listed = {},
                                             !["wrapper"].members = members]
                /\ table' = IF ended THEN [table EXCEPT ![leader[1]] = None] ELSE table
                /\ UNCHANGED <<starts, leader, hit>>

\* SIGKILL, or the host's memory runs out.
WrapperKilled ==
    /\ "killed" \in Faults /\ WrapperRuns /\ leader # None
    /\ table' = WrapperEnded
    /\ actor' = [actor EXCEPT !["wrapper"] = [Idle EXCEPT !.at = "gone"]]
    /\ UNCHANGED <<starts, leader, record, hit>>

-----------------------------------------------------------------------------
(* cleanup_stale_records.                                                      *)

\* The record is loaded, and never again: its wrapper may still run and change it.
StaleLoad ==
    /\ At("cleaner", "idle") /\ record # {}
    /\ actor' = [actor EXCEPT !["cleaner"].at = "loaded", !["cleaner"].members = record]
    /\ UNCHANGED <<kernel, leader, record, hit>>

\* The first look passes over the record of a wrapper that runs.
StaleEligible ==
    /\ Looks("cleaner", "loaded")
    /\ actor' = [actor EXCEPT !["cleaner"] =
                    IF SeesWrapper("cleaner") \/ Blocked("cleaner") THEN Idle
                    ELSE [@ EXCEPT !.at = "eligible", !.listed = {}]]
    /\ UNCHANGED <<kernel, leader, record, hit>>

\* The second removes a record without processes.
StaleAct ==
    /\ Looks("cleaner", "eligible")
    /\ IF Blocked("cleaner") THEN Stops("cleaner")
       ELSE IF Owned("cleaner") = {} THEN Cleaned("cleaner")
       ELSE /\ actor' = [actor EXCEPT !["cleaner"].at = "cleanup", !["cleaner"].listed = {}]
            /\ UNCHANGED <<kernel, leader, record, hit>>

CleanerKilled ==
    /\ "killed" \in Faults /\ ~At("cleaner", "idle")
    /\ actor' = [actor EXCEPT !["cleaner"] = Idle]
    /\ UNCHANGED <<kernel, leader, record, hit>>

Next ==
    \/ Kernel
    \/ (\E q \in Pid : Launch(q)) \/ FirstRecord \/ Guard \/ WrapperKilled
    \/ StaleLoad \/ StaleEligible \/ StaleAct \/ CleanerKilled
    \/ \E a \in Actors : CleanupStep(a)

Spec == Init /\ [][Next]_vars

-----------------------------------------------------------------------------
\* No process that does not come from the browser is ever signalled, whichever pids and
\* session numbers strangers got after processes of the run had ended.
OnlyTheRunIsSignalled == hit = {}

\* Whoever removes the record leaves nothing alive that its own copy of the record names, nor
\* anything of the browser's session that its last listing had; and a wrapper that returns
\* cleanly leaves no process at all, one that fled into a session of its own included.
NothingIsLeftBehind ==
    [][\A a \in Actors : record # {} /\ record' = {} /\ actor'[a] # actor[a] =>
         \A p \in Alive' : table'[p].ours =>
            /\ <<p, table'[p].start>> \notin actor[a].members
            /\ table'[p].session = leader[1] => p \notin actor[a].listed
            /\ a # "wrapper"]_vars
=============================================================================
