-------------------------- MODULE LiveAuthInstall --------------------------
(***************************************************************************)
(* Privileged requests under LIVE-AUTH (ops/lib/deploy_executor): the      *)
(* durable replay store (state.py), the WeatherNext private host installer *)
(* (weather_private_bigquery_host_installer*.py), and the P9 canary        *)
(* (p9_canary.py, p9_host_runtime.py), which shares the store.             *)
(*                                                                         *)
(* The owner writes an authorization as a GitHub issue and may edit or     *)
(* close it at any time.  Root starts one process per request; no lock     *)
(* serialises them.  The database is in WAL mode: `file` is its main file, *)
(* which the immutable reader of is_available sees, and `db` is the main   *)
(* file with the WAL, which every StateStore sees.  Closing the last       *)
(* connection copies the WAL into the main file; a killed process leaves   *)
(* its commits in the WAL.                                                 *)
(*                                                                         *)
(* Queue, CI and ancestry checks, and any error of GitHub, SQLite or Git,  *)
(* are Stop: a step that has not happened can always raise instead.        *)
(***************************************************************************)
EXTENDS Naturals, Sequences

CONSTANTS
    Procs,      \* processes at one time
    Issues,     \* issues of the authorization repository
    Bodies,     \* authority blocks the owner may write
    Requests,   \* values of request_id
    MaxMain,    \* bound: commits of main
    MaxEdits,   \* bound: edits of issues
    Absent,     \* an object that does not exist
    Partial,    \* one that exists and is not exact
    None        \* no issue, no body

Shas     == 1 .. MaxMain
Ops      == {"install", "canary"}
Contents == [open : BOOLEAN, body : Bodies]
Objects  == {"checkout", "operator", "marker"}

States == {"DISCOVERED", "VALIDATING", "ACCEPTED", "CONSUMED", "VERIFYING",
           "SUCCEEDED", "REJECTED", "EXPIRED", "STOP_ERROR"}

\* The two digests of a row stand for the body they were computed from.
Rows == [issue : Issues, body : Bodies, state : States, consumed : BOOLEAN]

ASSUME ConstantsAssumption ==
    /\ MaxMain \in Nat \ {0} /\ MaxEdits \in Nat
    /\ Bodies \subseteq [request : Requests, sha : Shas, op : Ops]
    /\ None \notin Issues /\ None \notin Bodies
    /\ Absent # Partial /\ Absent \notin Shas /\ Partial \notin Shas

VARIABLES
    issues,     \* GitHub: the authorization issues
    main,       \* GitHub: the head of RPi5_main
    edits,      \* edits so far
    db,         \* rows of `requests` as every StateStore reads them
    file,       \* the rows in the main file only
    host,       \* the three objects of the private host capability
    pc,
    issue,      \* --issue-number of the process
    accepted,   \* the authorization accepted by the last read
    candidate,  \* DurableInstallReplayAuthority._candidate
    checks,     \* DurableInstallReplayAuthority._checks
    plan,       \* mutations still to execute
    inserted    \* history: the issue whose row this process inserted

github == <<issues, main, edits>>
store  == <<db, file>>
memory == <<pc, issue, accepted, candidate, checks, plan, inserted>>
vars   == <<github, store, host, memory>>

-----------------------------------------------------------------------------
Validating == {"read", "source", "available", "unchanged", "observe"}
Consuming  == {"validate", "accept", "consume"}
Mutating   == {"mutate", "finish", "verify", "verifying", "succeed"}
Dry        == {"c_read", "c_discover", "c_validate", "c_checks", "c_final", "c_accept"}

\* Where a process has the database open.
Open == Consuming \cup {"succeed", "c_validate", "c_checks", "c_final", "c_accept"}

\* Where it may open and close it without a commit.
Opening == {"discover", "c_discover", "verifying"}

\* Where a process works on a row of its own.
Holding == Consuming \cup Mutating \cup (Dry \ {"c_read", "c_discover"})

TypeOK ==
    /\ issues \in [Issues -> Contents]
    /\ main \in Shas
    /\ edits \in 0 .. MaxEdits
    /\ db \subseteq Rows /\ file \subseteq Rows
    /\ host \in [Objects -> Shas \cup {Absent, Partial}]
    /\ pc \in [Procs -> {"idle", "discover"} \cup Validating \cup Consuming
                        \cup Mutating \cup Dry]
    /\ issue \in [Procs -> Issues \cup {None}]
    /\ accepted \in [Procs -> Bodies \cup {None}]
    /\ candidate \in [Procs -> Bodies \cup {None}]
    /\ checks \in [Procs -> 0 .. 4]
    /\ plan \in [Procs -> Seq({"fetch"} \cup Objects)]
    /\ inserted \in [Procs -> Issues \cup {None}]

Init ==
    /\ issues \in [Issues -> {c \in Contents : c.open}]
    /\ main = 1
    /\ edits = 0
    /\ db = {} /\ file = {}
    /\ host = [o \in Objects |-> Absent]
    /\ pc = [p \in Procs |-> "idle"]
    /\ issue = [p \in Procs |-> None]
    /\ accepted = [p \in Procs |-> None]
    /\ candidate = [p \in Procs |-> None]
    /\ checks = [p \in Procs |-> 0]
    /\ plan = [p \in Procs |-> <<>>]
    /\ inserted = [p \in Procs |-> None]

-----------------------------------------------------------------------------
(* Processes *)

GoTo(p, l) == pc' = [pc EXCEPT ![p] = l]

\* The process is gone, and its memory with it.
Exit(p) ==
    /\ GoTo(p, "idle")
    /\ issue' = [issue EXCEPT ![p] = None]
    /\ accepted' = [accepted EXCEPT ![p] = None]
    /\ candidate' = [candidate EXCEPT ![p] = None]
    /\ checks' = [checks EXCEPT ![p] = 0]
    /\ plan' = [plan EXCEPT ![p] = <<>>]
    /\ inserted' = [inserted EXCEPT ![p] = None]

\* A connection closes over the rows `rows`; the last one copies the WAL.
CloseStore(p, rows) ==
    file' = IF \E q \in Procs \ {p} : pc[q] \in Open THEN file ELSE rows

\* The program ends itself, by an exception or because it is done.
Stop(p) ==
    /\ pc[p] # "idle"
    /\ \/ pc[p] \notin Open /\ UNCHANGED file
       \/ pc[p] \in Open \cup Opening /\ CloseStore(p, db)
    /\ Exit(p)
    /\ UNCHANGED <<github, db, host>>

Kill(p) ==
    /\ pc[p] # "idle"
    /\ Exit(p)
    /\ UNCHANGED <<github, store, host>>

-----------------------------------------------------------------------------
(* The owner *)

Edit(i) ==
    /\ edits < MaxEdits
    /\ \E c \in Contents \ {issues[i]} : issues' = [issues EXCEPT ![i] = c]
    /\ edits' = edits + 1
    /\ UNCHANGED <<main, store, host, memory>>

Push ==
    /\ main < MaxMain
    /\ main' = main + 1
    /\ UNCHANGED <<issues, edits, store, host, memory>>

-----------------------------------------------------------------------------
(* Revalidation: revalidate() runs twice, each with two replay checks *)

Begin(p, i, op, l) ==
    /\ pc[p] = "idle"
    /\ issues[i].open
    /\ issues[i].body.op = op
    /\ GoTo(p, l)
    /\ issue' = [issue EXCEPT ![p] = i]
    /\ UNCHANGED <<github, store, host, accepted, candidate, checks, plan, inserted>>

\* run_privileged_request: the dispatcher reads the issue to route it.
RouteOperation(p, i) == Begin(p, i, "install", "read")

\* run_p9_host_one_shot, after its own preflight.
CanaryPreflight(p, i) == Begin(p, i, "canary", "c_read")

\* accept_issue and _require_live_authority.
AcceptIssue(p) ==
    /\ pc[p] = "read"
    /\ issues[issue[p]].open
    /\ issues[issue[p]].body.op = "install"
    /\ accepted' = [accepted EXCEPT ![p] = issues[issue[p]].body]
    /\ GoTo(p, "source")
    /\ UNCHANGED <<github, store, host, issue, candidate, checks, plan, inserted>>

VerifySource(p) ==
    /\ pc[p] = "source"
    /\ accepted[p].sha = main
    /\ GoTo(p, "available")
    /\ UNCHANGED <<github, store, host, issue, accepted, candidate, checks, plan, inserted>>

\* A variant: the primary key is forgotten.
ObservedRequest(rows, i, b) == \E r \in rows : r.body.request = b.request

\* PRIMARY KEY (repository_id, issue_id) and UNIQUE (request_id).
Observed(rows, i, b) == \E r \in rows : r.issue = i \/ r.body.request = b.request

\* A variant: the rounds are not counted.
OneRoundMore(n) == IF n % 2 = 1 THEN "unchanged" ELSE "read"

\* After the first check of a round the issue is read again; the second round
\* ends in _require_stable_evidence, whose fields `candidate` already fixed.
AfterCheck(n) == CASE n = 1 \/ n = 3 -> "unchanged"
                   [] n = 2 -> "read"
                   [] n = 4 -> "observe"

IsAvailable(p) ==
    /\ pc[p] = "available"
    /\ candidate[p] \in {None, accepted[p]}
    /\ ~Observed(file, issue[p], accepted[p])
    /\ candidate' = [candidate EXCEPT ![p] = accepted[p]]
    /\ checks' = [checks EXCEPT ![p] = @ + 1]
    /\ GoTo(p, AfterCheck(checks[p] + 1))
    /\ UNCHANGED <<github, store, host, issue, accepted, plan, inserted>>

Unchanged(p) == issues[issue[p]] = [open |-> TRUE, body |-> accepted[p]]

VerifyUnchanged(p) ==
    /\ pc[p] = "unchanged"
    /\ Unchanged(p)
    /\ GoTo(p, "available")
    /\ UNCHANGED <<github, store, host, issue, accepted, candidate, checks, plan, inserted>>

-----------------------------------------------------------------------------
(* The plan: what is absent is made, what is there must be exact *)

\* A variant: HEAD of the checkout is not compared.
CheckoutPresent(s) == host["checkout"] \in Shas

CheckoutExact(s) == host["checkout"] = s
OperatorExact(s) == CheckoutExact(s) /\ host["operator"] = host["checkout"]
MarkerExact(s)   == host["marker"] = s

Exact(o, s) == CASE o = "checkout" -> CheckoutExact(s)
                 [] o = "operator" -> OperatorExact(s)
                 [] o = "marker"   -> MarkerExact(s)

Conflict(s) == \E o \in Objects : host[o] # Absent /\ ~Exact(o, s)

\* build_host_install_plan
InstallPlan ==
    LET For(o, mutations) == IF host[o] = Absent THEN mutations ELSE <<>>
    IN  For("checkout", <<"fetch", "checkout">>)
          \o For("operator", <<"operator">>) \o For("marker", <<"marker">>)

\* apply_install up to replay.consume; with nothing to do nothing is consumed.
Observe(p) ==
    /\ pc[p] = "observe"
    /\ ~Conflict(accepted[p].sha)
    /\ IF InstallPlan = <<>>
       THEN Exit(p)
       ELSE /\ plan' = [plan EXCEPT ![p] = InstallPlan]
            /\ GoTo(p, "discover")
            /\ UNCHANGED <<issue, accepted, candidate, checks, inserted>>
    /\ UNCHANGED <<github, store, host>>

-----------------------------------------------------------------------------
(* The replay store: StateStore *)

\* _verify_integrity over the rows, at every open.
Intact(rows) == \A r \in rows :
    /\ r.state \in {"CONSUMED", "VERIFYING", "SUCCEEDED"} => r.consumed
    /\ r.state \in {"DISCOVERED", "VALIDATING", "ACCEPTED", "REJECTED", "EXPIRED"} => ~r.consumed

NewRow(p) == [issue |-> issue[p], body |-> accepted[p], state |-> "DISCOVERED", consumed |-> FALSE]

\* A variant: the row of the same authorization is taken up again.
Resume(p) ==
    /\ Intact(db)
    /\ IF NewRow(p) \in db
       THEN UNCHANGED <<db, inserted>>
       ELSE /\ ~Observed(db, issue[p], accepted[p])
            /\ db' = db \cup {NewRow(p)}
            /\ inserted' = [inserted EXCEPT ![p] = issue[p]]

\* StateStore(...) and discover: an identity seen before is a ReplayError.
Insert(p) ==
    /\ Intact(db)
    /\ ~Observed(db, issue[p], accepted[p])
    /\ db' = db \cup {NewRow(p)}
    /\ inserted' = [inserted EXCEPT ![p] = issue[p]]

Discover(p) ==
    /\ pc[p] = "discover"
    /\ candidate[p] = accepted[p] /\ checks[p] >= 2
    /\ Insert(p)
    /\ GoTo(p, "validate")
    /\ UNCHANGED <<github, file, host, issue, accepted, candidate, checks, plan>>

\* The UPDATE of transition, and that of consume, which sets consumed_at too.
Moved(r, to, spend) == [r EXCEPT !.state = to, !.consumed = @ \/ spend]

\* The row `get` finds goes from one state to the next in one transaction.
Transition(p, from, to, spend) ==
    \E r \in db :
      /\ r.body.request = accepted[p].request
      /\ r.state = from
      /\ db' = (db \ {r}) \cup {Moved(r, to, spend)}

Validate(p) ==
    /\ pc[p] = "validate"
    /\ Transition(p, "DISCOVERED", "VALIDATING", FALSE)
    /\ GoTo(p, "accept")
    /\ UNCHANGED <<github, file, host, issue, accepted, candidate, checks, plan, inserted>>

\* A variant: the mutations start before the request is consumed.
AcceptUnspent(p) ==
    /\ pc[p] = "accept"
    /\ Transition(p, "VALIDATING", "ACCEPTED", FALSE)
    /\ CloseStore(p, db')
    /\ GoTo(p, "mutate")
    /\ UNCHANGED <<github, host, issue, accepted, candidate, checks, plan, inserted>>

Accept(p) ==
    /\ pc[p] = "accept"
    /\ Transition(p, "VALIDATING", "ACCEPTED", FALSE)
    /\ GoTo(p, "consume")
    /\ UNCHANGED <<github, file, host, issue, accepted, candidate, checks, plan, inserted>>

\* A variant: transition(request_id, "CONSUMED"), which leaves consumed_at alone.
ConsumeByTransition(p) ==
    /\ pc[p] = "consume"
    /\ Transition(p, "ACCEPTED", "CONSUMED", FALSE)
    /\ CloseStore(p, db')
    /\ GoTo(p, "mutate")
    /\ UNCHANGED <<github, host, issue, accepted, candidate, checks, plan, inserted>>

\* A variant: success is recorded before the mutations.
ConsumeThenSucceed(p) ==
    /\ pc[p] = "consume"
    /\ Transition(p, "ACCEPTED", "CONSUMED", TRUE)
    /\ CloseStore(p, db')
    /\ GoTo(p, "verifying")
    /\ UNCHANGED <<github, host, issue, accepted, candidate, checks, plan, inserted>>

\* consume commits, and the store is closed before the first mutation.
Consume(p) ==
    /\ pc[p] = "consume"
    /\ Transition(p, "ACCEPTED", "CONSUMED", TRUE)
    /\ CloseStore(p, db')
    /\ GoTo(p, "mutate")
    /\ UNCHANGED <<github, host, issue, accepted, candidate, checks, plan, inserted>>

-----------------------------------------------------------------------------
(* The mutations, one call of the backend each *)

Put(o, v) == host' = [host EXCEPT ![o] = v]

\* fetch_origin_main: only references of the manager checkout change.
Fetch(p) ==
    /\ pc[p] = "mutate" /\ Head(plan[p]) = "fetch"
    /\ host["checkout"] = Absent
    /\ main = accepted[p].sha
    /\ plan' = [plan EXCEPT ![p] = Tail(@)]
    /\ UNCHANGED <<github, store, host, pc, issue, accepted, candidate, checks, inserted>>

Before(o, s) == CASE o = "checkout" -> TRUE
                  [] o = "operator" -> CheckoutExact(s)
                  [] o = "marker"   -> OperatorExact(s)

\* A variant: an object that is there is written over.
CreateOver(p) ==
    /\ pc[p] = "mutate" /\ Head(plan[p]) \in Objects
    /\ Before(Head(plan[p]), accepted[p].sha)
    /\ Put(Head(plan[p]), Partial)
    /\ GoTo(p, "finish")
    /\ UNCHANGED <<github, store, issue, accepted, candidate, checks, plan, inserted>>

\* `git worktree add`, or open with O_EXCL: neither replaces what is there.
Create(p) ==
    /\ pc[p] = "mutate" /\ Head(plan[p]) \in Objects
    /\ LET o == Head(plan[p]) IN
         /\ Before(o, accepted[p].sha)
         /\ host[o] = Absent
         /\ Put(o, Partial)
    /\ GoTo(p, "finish")
    /\ UNCHANGED <<github, store, issue, accepted, candidate, checks, plan, inserted>>

\* What is written: the operator is a copy of the checkout's.
Written(o, s) == IF o = "operator" THEN host["checkout"] ELSE s

\* Contents, owner, mode and fsync, and the call's own postcondition.
Finish(p) ==
    /\ pc[p] = "finish"
    /\ Put(Head(plan[p]), Written(Head(plan[p]), accepted[p].sha))
    /\ plan' = [plan EXCEPT ![p] = Tail(@)]
    /\ GoTo(p, IF Tail(plan[p]) = <<>> THEN "verify" ELSE "mutate")
    /\ UNCHANGED <<github, store, issue, accepted, candidate, checks, inserted>>

VerifyExact(p) ==
    /\ pc[p] = "verify"
    /\ \A o \in Objects : Exact(o, accepted[p].sha)
    /\ GoTo(p, "verifying")
    /\ UNCHANGED <<github, store, host, issue, accepted, candidate, checks, plan, inserted>>

\* mark_succeeded is two transactions on a store opened again.
MarkVerifying(p) ==
    /\ pc[p] = "verifying"
    /\ Intact(db)
    /\ Transition(p, "CONSUMED", "VERIFYING", FALSE)
    /\ GoTo(p, "succeed")
    /\ UNCHANGED <<github, file, host, issue, accepted, candidate, checks, plan, inserted>>

MarkSucceeded(p) ==
    /\ pc[p] = "succeed"
    /\ Transition(p, "VERIFYING", "SUCCEEDED", FALSE)
    /\ CloseStore(p, db')
    /\ Exit(p)
    /\ UNCHANGED <<github, host>>

-----------------------------------------------------------------------------
(* The P9 canary *)

\* After the preflight the canary reads the issue again and accepts any
\* well-formed authorization: the operation is only checked after discover.
CanaryRead(p) ==
    /\ pc[p] = "c_read"
    /\ issues[issue[p]].open
    /\ accepted' = [accepted EXCEPT ![p] = issues[issue[p]].body]
    /\ GoTo(p, "c_discover")
    /\ UNCHANGED <<github, store, host, issue, candidate, checks, plan, inserted>>

CanaryDiscover(p) ==
    /\ pc[p] = "c_discover"
    /\ Insert(p)
    /\ GoTo(p, "c_validate")
    /\ UNCHANGED <<github, file, host, issue, accepted, candidate, checks, plan>>

CanaryValidate(p) ==
    /\ pc[p] = "c_validate"
    /\ Transition(p, "DISCOVERED", "VALIDATING", FALSE)
    /\ GoTo(p, "c_checks")
    /\ UNCHANGED <<github, file, host, issue, accepted, candidate, checks, plan, inserted>>

\* Queue, registry, source, baseline and the adapter's preflight.
CanaryChecks(p) ==
    /\ pc[p] = "c_checks"
    /\ accepted[p].op = "canary"
    /\ GoTo(p, "c_final")
    /\ UNCHANGED <<github, store, host, issue, accepted, candidate, checks, plan, inserted>>

CanaryUnchanged(p) ==
    /\ pc[p] = "c_final"
    /\ Unchanged(p)
    /\ GoTo(p, "c_accept")
    /\ UNCHANGED <<github, store, host, issue, accepted, candidate, checks, plan, inserted>>

CanaryAccept(p) ==
    /\ pc[p] = "c_accept"
    /\ Transition(p, "VALIDATING", "ACCEPTED", FALSE)
    /\ CloseStore(p, db')
    /\ Exit(p)
    /\ UNCHANGED <<github, host>>

-----------------------------------------------------------------------------
Step(p) ==
    \/ \E i \in Issues : RouteOperation(p, i) \/ CanaryPreflight(p, i)
    \/ AcceptIssue(p) \/ VerifySource(p) \/ IsAvailable(p) \/ VerifyUnchanged(p)
    \/ Observe(p)
    \/ Discover(p) \/ Validate(p) \/ Accept(p) \/ Consume(p)
    \/ Fetch(p) \/ Create(p) \/ Finish(p) \/ VerifyExact(p)
    \/ MarkVerifying(p) \/ MarkSucceeded(p)
    \/ CanaryRead(p) \/ CanaryDiscover(p) \/ CanaryValidate(p)
    \/ CanaryChecks(p) \/ CanaryUnchanged(p) \/ CanaryAccept(p)
    \/ Stop(p) \/ Kill(p)

Next ==
    \/ \E i \in Issues : Edit(i)
    \/ Push
    \/ \E p \in Procs : Step(p)

Spec == Init /\ [][Next]_vars

-----------------------------------------------------------------------------
(* Properties *)

\* A process that may change the host holds a consumed row with exactly the
\* body it accepted, and no other such process acts under the same issue or the
\* same request_id (replay protection of state.py: consume, 325-349).
SingleUse ==
    \A p \in Procs : pc[p] \in Mutating =>
      /\ \E r \in db : r.issue = issue[p] /\ r.body = accepted[p] /\ r.consumed
      /\ \A q \in Procs \ {p} : pc[q] \in Mutating =>
           /\ issue[q] # issue[p]
           /\ accepted[q].request # accepted[p].request

\* No crash and no order of commits leaves rows that _verify_integrity refuses:
\* a database that refused to open would stop every later request.
StoreAlwaysOpens == Intact(db)

\* SUCCEEDED is only on record for a host that holds that commit, whole.
SucceededIsInstalled ==
    \A r \in db : r.state = "SUCCEEDED" => \A o \in Objects : Exact(o, r.body.sha)

\* The activation marker, which switches the capability on, names the commit of
\* the checkout and of the operator beneath it, also when processes with
\* authorizations for different commits run at once.
MarkerNamesInstall ==
    host["marker"] # Absent =>
      /\ host["checkout"] \in Shas
      /\ host["operator"] = host["checkout"]
      /\ host["marker"] \in {Partial, host["checkout"]}

\* A row only changes in a step of the very process that inserted it.  So one
\* whose process is gone never changes again, whatever process comes later, one
\* of the same authorization included: "A crash after `CONSUMED` never
\* auto-replays" (docs/OWNER_AUTHORIZED_PULL_DEPLOY_EXECUTOR_V1.md:214), nor
\* does one before it.
NeverResumed ==
    [][\A r \in db \ db' : \E p \in Procs : inserted[p] = r.issue /\ pc'[p] # pc[p]]_vars

\* A replay check that passes says that the request is new (the installer
\* "revalidates durable one-shot replay availability").
AvailableIsNew ==
    [][\A p \in Procs : checks'[p] > checks[p] => ~Observed(db, issue[p], accepted[p])]_vars

-----------------------------------------------------------------------------
(* The inductive invariant *)

\* How many replay checks lie behind each place of revalidate().
ChecksCounted ==
    \A p \in Procs :
      /\ pc[p] = "idle" => checks[p] = 0
      /\ pc[p] \in {"read", "source"} => checks[p] \in {0, 2}
      /\ pc[p] = "available" => checks[p] \in 0 .. 3
      /\ pc[p] = "unchanged" => checks[p] \in {1, 3}

\* What a process has read by now, and that it is for the installer.
HasAccepted ==
    \A p \in Procs :
      /\ pc[p] # "idle" => issue[p] \in Issues
      /\ pc[p] \notin {"idle", "read", "c_read"} => accepted[p] \in Bodies
      /\ pc[p] \in (Validating \ {"read"}) \cup {"discover"} \cup Consuming \cup Mutating =>
           accepted[p].op = "install"

\* There is something left to do, and a fetch is never the last of it.
PlanLeft ==
    \A p \in Procs : pc[p] \in {"discover", "mutate", "finish"} \cup Consuming =>
      /\ plan[p] # <<>>
      /\ pc[p] = "finish" => Head(plan[p]) \in Objects
      /\ \A i \in 1 .. Len(plan[p]) : plan[p][i] = "fetch" => i < Len(plan[p])

\* Who works on a row has inserted it itself.
OwnsRow ==
    \A p \in Procs : pc[p] \in Holding => inserted[p] = issue[p]

\* PRIMARY KEY and UNIQUE.
KeysUnique ==
    \A r, s \in db : r.issue = s.issue \/ r.body.request = s.body.request => r = s

\* The row a process works on is that of what it accepted.
HoldsRow ==
    \A p \in Procs : pc[p] \in Holding =>
      \E r \in db : /\ r.issue = issue[p] /\ r.body = accepted[p]
                    /\ pc[p] \in Mutating => r.consumed

\* No two processes work on one row.
HoldsAlone ==
    \A p, q \in Procs : p # q /\ pc[p] \in Holding /\ pc[q] \in Holding =>
      issue[p] # issue[q] /\ accepted[p].request # accepted[q].request

\* An object that is being written is nobody else's, and rests on exact ones.
MakesAlone ==
    \A p \in Procs : pc[p] = "finish" =>
      /\ host[Head(plan[p])] = Partial
      /\ Before(Head(plan[p]), accepted[p].sha)
      /\ \A q \in Procs \ {p} : pc[q] = "finish" => Head(plan[q]) # Head(plan[p])

\* verify_exact has been passed, and nothing undoes it.
VerifiedExact ==
    \A p \in Procs : pc[p] \in {"verifying", "succeed"} =>
      \A o \in Objects : Exact(o, accepted[p].sha)

\* Together with what they support, inductive.
IInv ==
    /\ TypeOK /\ ChecksCounted /\ HasAccepted /\ PlanLeft /\ OwnsRow
    /\ KeysUnique /\ HoldsRow /\ HoldsAlone /\ StoreAlwaysOpens
    /\ MakesAlone /\ VerifiedExact /\ MarkerNamesInstall /\ SucceededIsInstalled

=============================================================================
