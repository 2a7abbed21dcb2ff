------------------------------- MODULE PayAll -------------------------------
(***************************************************************************)
(* Free trades over all rosters of one account (fantasy/services.py,       *)
(* views.py).  Pages that list the rosters pay what has fallen due to each *)
(* of them, one lock after the other; a player signed from his own page    *)
(* has his roster locked before that.  A lock stays until the request ends *)
(* (ATOMIC_REQUESTS), so requests can wait in a circle.  What happens in   *)
(* one roster is Roster's; here a roster is the number of grants it was    *)
(* paid.                                                                   *)
(***************************************************************************)
EXTENDS Integers, FiniteSets, FiniteSetsExt

CONSTANTS
  Workers,
  Rosters,      \* 1..n, by name
  None,
  MaxGrants     \* bound: grants that fall due

PayAllConstants == Rosters \subseteq Nat /\ None \notin Rosters /\ MaxGrants \in Nat

VARIABLES
  due,          \* grants of the season due by now
  received,     \* [Rosters -> grants paid and committed]
  job

vars == <<due, received, job>>

Idle == [pc |-> "idle", own |-> None, now |-> 0, todo |-> {},
         pays |-> [r \in Rosters |-> 0], held |-> {}]

At(w, pc) == job[w].pc = pc

\* A slip: no select_for_update.
HeldByNobody(w) == {}

HeldByOthers(w) == UNION {job[v].held : v \in Workers \ {w}}

\* What the request's own transaction sees.
Seen(w, r) == received[r] + job[w].pays[r]

\* _unpaid_grants: due by the request's `now`, and their keys not there.
Unpaid(w, r, until) == IF until > Seen(w, r) THEN until - Seen(w, r) ELSE 0

\* select_for_update and _pay_due_grants, which reads the keys again; the row is
\* locked until the request ends.
LockAndPay(w, r, until, rest) ==
  /\ r \notin HeldByOthers(w)
  /\ job' = [job EXCEPT ![w] = [rest EXCEPT !.pays[r] = @ + Unpaid(w, r, until),
                                           !.held = @ \union {r}]]
  /\ UNCHANGED <<due, received>>

-----------------------------------------------------------------------------
\* A page that lists the rosters, or PlayerSignView into one of them.
Begin(w) ==
  /\ At(w, "idle")
  /\ \E own \in Rosters \union {None} :
       job' = [job EXCEPT ![w].pc = IF own = None THEN "list" ELSE "fetch", ![w].own = own]
  /\ UNCHANGED <<due, received>>

\* pay_due_trade_grants, of the own roster or of all: which miss a grant by now.
Look(w) ==
  LET rosters == IF At(w, "fetch") THEN {job[w].own} ELSE Rosters
  IN /\ At(w, "fetch") \/ At(w, "list")
     /\ job' = [job EXCEPT ![w].pc = IF At(w, "fetch") THEN "own" ELSE "all", ![w].now = due,
                           ![w].todo = {r \in rosters : Unpaid(w, r, due) > 0}]
     /\ UNCHANGED <<due, received>>

NextRoster(w) == Min(job[w].todo)

PayNext(w) ==
  /\ job[w].todo # {}
  /\ LockAndPay(w, NextRoster(w), job[w].now, [job[w] EXCEPT !.todo = @ \ {NextRoster(w)}])

\* RosterBuyView.apply; a refusal rolls back to before the lock.
Sign(w) ==
  LET j == job[w]
  IN /\ At(w, "own") /\ j.todo = {} /\ j.own \notin HeldByOthers(w)
     /\ \/ LockAndPay(w, j.own, due, [j EXCEPT !.pc = "list"])
        \/ job' = [job EXCEPT ![w].pc = "list"] /\ UNCHANGED <<due, received>>

\* The answer: what was paid is seen by everybody, the locks are free.
Answer(w) ==
  /\ At(w, "all") /\ job[w].todo = {}
  /\ received' = [r \in Rosters |-> Seen(w, r)]
  /\ job' = [job EXCEPT ![w] = Idle]
  /\ UNCHANGED due

-----------------------------------------------------------------------------
\* Whose locks a request waits for.
WaitsFor(w) ==
  LET wanted == IF job[w].todo # {} THEN {NextRoster(w)} ELSE IF At(w, "own") THEN {job[w].own} ELSE {}
  IN {v \in Workers \ {w} : job[v].held \intersect wanted # {}}

\* A slip: nobody looks for deadlocks.
NeverInDeadlock(w) == FALSE

\* Who is waited for waits in the end for w.
InDeadlock(w) ==
  LET reached[n \in 1..Cardinality(Workers)] ==
        IF n = 1 THEN WaitsFor(w) ELSE reached[n - 1] \union UNION {WaitsFor(v) : v \in reached[n - 1]}
  IN w \in reached[Cardinality(Workers)]

\* The database ends one of them, or a worker is killed: all of it is rolled back.
Abort(w) == job' = [job EXCEPT ![w] = Idle] /\ UNCHANGED <<due, received>>

Deadlocked(w) == InDeadlock(w) /\ Abort(w)
Crash(w) == ~At(w, "idle") /\ Abort(w)

\* A grant falls due.
FallsDue == due < MaxGrants /\ due' = due + 1 /\ UNCHANGED <<received, job>>

-----------------------------------------------------------------------------
Init ==
  /\ due = 0
  /\ received = [r \in Rosters |-> 0]
  /\ job = [w \in Workers |-> Idle]

GoOn(w) ==
  \/ Look(w) \/ PayNext(w) \/ Sign(w) \/ Answer(w) \/ Deadlocked(w)

Next == (\E w \in Workers : Begin(w) \/ GoOn(w) \/ Crash(w)) \/ FallsDue

\* The server goes on with every request, and a row lock that becomes free again
\* and again is given to everybody who waits for it.
Fairness == \A w \in Workers : SF_vars(GoOn(w))

Spec == Init /\ [][Next]_vars /\ Fairness

-----------------------------------------------------------------------------
TypeOK ==
  /\ due \in 0..MaxGrants /\ received \in [Rosters -> 0..MaxGrants]
  /\ \A w \in Workers :
       /\ job[w].pc \in {"idle", "fetch", "own", "list", "all"}
       /\ job[w].own \in Rosters \union {None} /\ job[w].todo \subseteq Rosters
       /\ job[w].now \in 0..MaxGrants
       /\ job[w].pays \in [Rosters -> 0..MaxGrants] /\ job[w].held \subseteq Rosters

\* What is paid and not yet committed is paid under the roster's lock by one request
\* only, and no roster is ever paid more than has fallen due.
PaidUnderLock ==
  \A r \in Rosters :
    /\ \A w \in Workers : Seen(w, r) <= due /\ (job[w].pays[r] > 0 => r \in job[w].held)
    /\ Cardinality({w \in Workers : r \in job[w].held}) <= 1
=============================================================================
