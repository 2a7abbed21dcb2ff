---------------------------- MODULE PlayerImport ----------------------------
(***************************************************************************)
(* The basketball.de import (nba/importer.py) and the players it keeps up  *)
(* to date.  A run looks for another one still running, records itself,    *)
(* reads the whole list and then writes it in one transaction: a snapshot  *)
(* for each player it can place, and the player's cached salary taken from *)
(* his newest snapshot.  Those it does not find any more become inactive.  *)
(*                                                                         *)
(* Importers are web workers, queue workers and shells.  The run's own row *)
(* is written outside the transaction, so others see it at once.  Within   *)
(* the transaction everything is read as committed, with the writes of the *)
(* transaction itself, and each player row written stays locked to its end.*)
(*                                                                         *)
(* Players are numbered in the order of the list.  Team, position and      *)
(* points are cached exactly as the salary is; they and the rookie mark    *)
(* are left out.  Writing one of them alone would only lock the row.       *)
(***************************************************************************)
EXTENDS Integers, Sequences, FiniteSets

CONSTANTS
  Importers,
  Players,
  Salaries,
  NoSalary,            \* an empty current_salary
  Absent,              \* not on the list
  Unplaced,            \* on the list, but of an unknown team, or ambiguous
  Nobody,              \* nobody holds the player's row lock
  RunningTimeout,      \* RUNNING_TIMEOUT
  MaxRuns, LastInstant \* bounds: runs recorded, and time passing on its own

ASSUME ImportConstants ==
  /\ Players \subseteq Nat
  /\ IsFiniteSet(Players)
  /\ NoSalary \notin Salaries
  /\ Absent \notin Salaries
  /\ Unplaced \notin Salaries
  /\ Nobody \notin Importers
  /\ RunningTimeout \in Nat
  /\ MaxRuns \in Nat
  /\ LastInstant \in Nat

VARIABLES
  now,
  runs,                \* ImportRun rows, in the order they were created
  players,             \* Player rows, committed
  snapshots,           \* PlayerSnapshot rows, committed
  rowlock,             \* who has written a player's row and not committed
  job                  \* what each importer is doing

vars == <<now, runs, players, snapshots, rowlock, job>>

-----------------------------------------------------------------------------
(* Rows, and what an importer keeps in memory *)

OptionalSalary == Salaries \union {NoSalary}

PlayerRow == [stored : BOOLEAN,       \* the row exists
              linked : BOOLEAN,       \* it has its bbde_id
              active : BOOLEAN, salary : OptionalSalary]

Run == [status : {"running", "succeeded", "failed"}, started_at : Nat,
        dry_run : BOOLEAN, rows : Nat, placed : Nat]

Snapshot == [player : Players, as_of : Nat, salary : Salaries]

Lists == [Players -> Salaries \union {Absent, Unplaced}]

Stages == {"idle", "cleared", "fetching", "writing", "saving", "applied"}

Job == [stage : Stages, run : Nat, list : Lists,
        loaded : [Players -> PlayerRow],  \* the players as read at the start
        left : SUBSET Players,            \* rows still to write
        want : OptionalSalary,            \* the newest salary, about to be saved
        own : SUBSET Snapshot,            \* snapshots not committed
        draft : [Players -> PlayerRow]]   \* the rows under its locks

Unknown == [stored |-> FALSE, linked |-> FALSE, active |-> FALSE, salary |-> NoSalary]
ByHand == [stored |-> TRUE, linked |-> FALSE, active |-> TRUE, salary |-> NoSalary]

NoJob == [stage |-> "idle", run |-> 0, list |-> [p \in Players |-> Absent],
          loaded |-> [p \in Players |-> Unknown], left |-> {}, want |-> NoSalary,
          own |-> {}, draft |-> [p \in Players |-> Unknown]]

\* A slip: rows that were skipped count as placed.
PlacedOrSkipped(list) == {p \in Players : list[p] # Absent}

Placed(list) == {p \in Players : list[p] \in Salaries}

Listed(list) == {p \in Players : list[p] # Absent}

View(i, p) == IF rowlock[p] = i THEN job[i].draft[p] ELSE players[p]

Unlocked(i) == [p \in Players |-> IF rowlock[p] = i THEN Nobody ELSE rowlock[p]]

\* A slip: the snapshots ordered the other way.
OldestSalary(rows, p) ==
  LET of_p == {s \in rows : s.player = p}
  IN (CHOOSE s \in of_p : \A t \in of_p : s.as_of <= t.as_of).salary

NewestSalary(rows, p) ==
  LET of_p == {s \in rows : s.player = p}
  IN (CHOOSE s \in of_p : \A t \in of_p : t.as_of <= s.as_of).salary

-----------------------------------------------------------------------------
(* Before the transaction *)

\* A slip: a run that is recorded as running blocks whatever its age.
FreshForEver(run) == TRUE

Fresh(run) == run.started_at >= now - RunningTimeout

(***************************************************************************)
(* The guard reads; the run is recorded by a later statement.              *)
(***************************************************************************)
Start(i) ==
  /\ job[i].stage = "idle"
  /\ \A r \in 1..Len(runs) : runs[r].status = "running" => ~Fresh(runs[r])
  /\ job' = [job EXCEPT ![i].stage = "cleared"]
  /\ UNCHANGED <<now, runs, players, snapshots, rowlock>>

CreateRun(i, dry_run) ==
  /\ job[i].stage = "cleared"
  /\ Len(runs) < MaxRuns
  /\ runs' = Append(runs, [status |-> "running", started_at |-> now,
                           dry_run |-> dry_run, rows |-> 0, placed |-> 0])
  /\ now' = now + 1
  /\ job' = [job EXCEPT ![i].stage = "fetching", ![i].run = Len(runs) + 1]
  /\ UNCHANGED <<players, snapshots, rowlock>>

Fail(i) ==
  /\ runs' = [runs EXCEPT ![job[i].run].status = "failed"]
  /\ job' = [job EXCEPT ![i] = NoJob]

(***************************************************************************)
(* No teams, a refused login, a page that cannot be read: the run is       *)
(* marked failed.                                                          *)
(***************************************************************************)
FetchFails(i) ==
  /\ job[i].stage = "fetching"
  /\ Fail(i)
  /\ UNCHANGED <<now, players, snapshots, rowlock>>

(***************************************************************************)
(* The list has been read; the transaction opens and reads every player.   *)
(***************************************************************************)
Load(i, list) ==
  /\ job[i].stage = "fetching"
  /\ job' = [job EXCEPT ![i].stage = "writing", ![i].list = list,
                        ![i].loaded = players, ![i].left = Placed(list)]
  /\ UNCHANGED <<now, runs, players, snapshots, rowlock>>

-----------------------------------------------------------------------------
(* Writing one row of the list *)

IsNext(i, p) == p \in job[i].left /\ \A q \in job[i].left : p <= q

SnapshotOf(i, p) ==
  [player |-> p, as_of |-> runs[job[i].run].started_at, salary |-> job[i].list[p]]

\* A slip: the cache is refreshed before the snapshot is stored.
SeenBefore(i, p) == snapshots \union job[i].own

Seen(i, p) == snapshots \union job[i].own \union {SnapshotOf(i, p)}

(***************************************************************************)
(* What the import changes of a player it found: only fields that differ   *)
(* from the row as it was loaded are saved, into the row as it is now.     *)
(***************************************************************************)
Matched(old, row) ==
  IF old.stored
  THEN [row EXCEPT !.linked = ~old.linked \/ row.linked, !.active = ~old.active \/ row.active]
  ELSE [stored |-> TRUE, linked |-> TRUE, active |-> TRUE, salary |-> NoSalary]

Touches(old) == ~(old.stored /\ old.linked /\ old.active)

(***************************************************************************)
(* A new player is inserted and a known one linked and reactivated if need *)
(* be, both under his row's lock (bbde_id is unique: a player inserted by  *)
(* someone else meanwhile is an error, see Abort).  The snapshot is stored *)
(* and the newest one visible read, if there is any; his salary is saved   *)
(* only if the row as loaded shows another one.                            *)
(***************************************************************************)
Record(i, p) ==
  LET old == job[i].loaded[p]
      newest == IF \E s \in Seen(i, p) : s.player = p
                THEN NewestSalary(Seen(i, p), p) ELSE old.salary
      same == newest = old.salary
  IN
  /\ job[i].stage = "writing"
  /\ IsNext(i, p)
  /\ Touches(old) => rowlock[p] = Nobody
  /\ ~old.stored => ~players[p].stored
  /\ rowlock' = IF Touches(old) THEN [rowlock EXCEPT ![p] = i] ELSE rowlock
  /\ job' = [job EXCEPT
               ![i].draft[p] = IF Touches(old) THEN Matched(old, players[p]) ELSE @,
               ![i].own = @ \union {SnapshotOf(i, p)},
               ![i].left = IF same THEN @ \ {p} ELSE @,
               ![i].stage = IF same THEN "writing" ELSE "saving",
               ![i].want = newest]
  /\ UNCHANGED <<now, runs, players, snapshots>>

Save(i, p) ==
  /\ job[i].stage = "saving"
  /\ IsNext(i, p)
  /\ rowlock[p] \in {Nobody, i}
  /\ rowlock' = [rowlock EXCEPT ![p] = i]
  /\ job' = [job EXCEPT ![i].draft[p] = [View(i, p) EXCEPT !.salary = job[i].want],
                        ![i].left = @ \ {p},
                        ![i].stage = "writing"]
  /\ UNCHANGED <<now, runs, players, snapshots>>

-----------------------------------------------------------------------------
(* The end of the transaction, and of the run *)

Real(r) == runs[r].status = "succeeded" /\ ~runs[r].dry_run

(***************************************************************************)
(* Far fewer rows than the newest successful run read: a list that was     *)
(* half read retires nobody.                                               *)
(***************************************************************************)
FarFewerRows(i) ==
  \E r \in 1..Len(runs) :
    /\ Real(r)
    /\ \A q \in 1..Len(runs) : Real(q) => runs[q].started_at <= runs[r].started_at
    /\ 10 * Cardinality(Listed(job[i].list)) < 8 * runs[r].rows

Missing(i) ==
  IF FarFewerRows(i) THEN {}
  ELSE {p \in Players \ Placed(job[i].list) :
          View(i, p).stored /\ View(i, p).linked /\ View(i, p).active}

\* A slip: a dry run is kept.
KeepsDryRun(i) == TRUE

Keeps(i) == ~runs[job[i].run].dry_run

Apply(i) ==
  /\ job[i].stage = "writing"
  /\ job[i].left = {}
  /\ \A p \in Missing(i) : rowlock[p] = Nobody
  /\ players' = IF Keeps(i)
                THEN [p \in Players |-> [View(i, p) EXCEPT !.active = @ /\ p \notin Missing(i)]]
                ELSE players
  /\ snapshots' = IF Keeps(i) THEN snapshots \union job[i].own ELSE snapshots
  /\ rowlock' = Unlocked(i)
  /\ job' = [job EXCEPT ![i].stage = "applied"]
  /\ UNCHANGED <<now, runs>>

(***************************************************************************)
(* The Dream Team is worked out in between, and never at the run's expense.*)
(***************************************************************************)
Finish(i) ==
  /\ job[i].stage = "applied"
  /\ runs' = [runs EXCEPT ![job[i].run].status = "succeeded",
                          ![job[i].run].rows = Cardinality(Listed(job[i].list)),
                          ![job[i].run].placed = Cardinality(Placed(job[i].list))]
  /\ job' = [job EXCEPT ![i] = NoJob]
  /\ UNCHANGED <<now, players, snapshots, rowlock>>

(***************************************************************************)
(* Any error while writing (a duplicate key, a deadlock the database       *)
(* breaks): the transaction is rolled back and the run marked failed.      *)
(***************************************************************************)
Abort(i) ==
  /\ job[i].stage \in {"writing", "saving"}
  /\ rowlock' = Unlocked(i)
  /\ Fail(i)
  /\ UNCHANGED <<now, players, snapshots>>

(***************************************************************************)
(* A worker that is killed, as the queue does after its timeout, leaves    *)
(* its run running.                                                        *)
(***************************************************************************)
Crash(i) ==
  /\ job[i].stage # "idle"
  /\ rowlock' = Unlocked(i)
  /\ job' = [job EXCEPT ![i] = NoJob]
  /\ UNCHANGED <<now, runs, players, snapshots>>

(***************************************************************************)
(* Time passes until LastInstant, and in any case until every run has      *)
(* outlived the timeout.                                                   *)
(***************************************************************************)
Tick ==
  /\ \/ now < LastInstant
     \/ \E r \in 1..Len(runs) : now <= runs[r].started_at + RunningTimeout
  /\ now' = now + 1
  /\ UNCHANGED <<runs, players, snapshots, rowlock, job>>

-----------------------------------------------------------------------------
Init ==
  /\ now = 0
  /\ runs = <<>>
  /\ players \in [Players -> {Unknown, ByHand}]
  /\ snapshots = {}
  /\ rowlock = [p \in Players |-> Nobody]
  /\ job = [i \in Importers |-> NoJob]

Import(i) ==
  \/ Start(i)
  \/ \E dry_run \in BOOLEAN : CreateRun(i, dry_run)
  \/ FetchFails(i)
  \/ \E list \in Lists : Load(i, list)
  \/ \E p \in Players : Record(i, p) \/ Save(i, p)
  \/ Apply(i) \/ Finish(i) \/ Abort(i) \/ Crash(i)

Next == Tick \/ \E i \in Importers : Import(i)

Spec == Init /\ [][Next]_vars

(***************************************************************************)
(* Time does not stand still, and whoever may start an import starts one   *)
(* in the end (the schedule asks every day, a person tries again).         *)
(***************************************************************************)
Fairness == WF_vars(Tick) /\ \A i \in Importers : WF_vars(Start(i))

-----------------------------------------------------------------------------
(* Properties *)

TypeOK ==
  /\ now \in Nat
  /\ runs \in Seq(Run)
  /\ players \in [Players -> PlayerRow]
  /\ snapshots \in SUBSET Snapshot
  /\ rowlock \in [Players -> Importers \union {Nobody}]
  /\ job \in [Importers -> Job]

(***************************************************************************)
(* A run applies completely or not at all, and its record says which: a    *)
(* failed run and a dry run have left no snapshot, a successful one has    *)
(* left one for each player it placed.                                     *)
(***************************************************************************)
Applied(r) == {s \in snapshots : s.as_of = runs[r].started_at}

RecordsTellTheTruth ==
  \A r \in 1..Len(runs) :
    /\ runs[r].status = "failed" \/ runs[r].dry_run => Applied(r) = {}
    /\ Real(r) => Cardinality(Applied(r)) = runs[r].placed

(***************************************************************************)
(* However imports overlap, the salary a player shows is one some snapshot *)
(* reported, and it is empty exactly until he has a snapshot.              *)
(***************************************************************************)
MirrorReported ==
  \A p \in Players :
    IF \E s \in snapshots : s.player = p
    THEN \E s \in snapshots : s.player = p /\ s.salary = players[p].salary
    ELSE players[p].salary = NoSalary

(***************************************************************************)
(* The salary a player shows is that of his newest snapshot (the cache     *)
(* record_snapshot keeps).                                                 *)
(***************************************************************************)
MirrorNewest ==
  \A s \in snapshots :
    (\A t \in snapshots : t.player = s.player => t.as_of <= s.as_of) =>
      players[s.player].salary = s.salary

Overlap == \E i, j \in Importers : job[i].stage # "idle" /\ job[j].stage # "idle" /\ i # j

(***************************************************************************)
(* Unless imports overlap, every player shows the salary of his newest     *)
(* snapshot, whatever fails, is killed or is a dry run on the way.         *)
(***************************************************************************)
NewestUnlessOverlapping == []~Overlap => []MirrorNewest
=============================================================================
