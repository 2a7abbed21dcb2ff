------------------------- MODULE PlayerImportProofs -------------------------
(***************************************************************************)
(* What holds of the import for any number of importers, players and runs, *)
(* however many of them overlap.                                           *)
(***************************************************************************)
EXTENDS PlayerImport, WellFoundedInduction, FiniteSetTheorems, TLAPS

-----------------------------------------------------------------------------
(* The inductive invariant *)

Busy(i) == job[i].stage \in {"fetching", "writing", "saving", "applied"}

Writing(i) == job[i].stage \in {"writing", "saving"}

Done(i) == Placed(job[i].list) \ job[i].left

\* Rows whose snapshot this importer has stored.
Stored(i) ==
  {p \in Placed(job[i].list) :
     p \in job[i].left => job[i].stage = "saving" /\ IsNext(i, p)}

Snapshots(i, S) == {SnapshotOf(i, p) : p \in S}

Reported(i, p, salary) ==
  \E s \in snapshots \union job[i].own : s.player = p /\ s.salary = salary

HasSnapshot(p) == \E s \in snapshots : s.player = p

(***************************************************************************)
(* A run's instant is its own, and no snapshot is of the future.           *)
(***************************************************************************)
Stamps ==
  /\ \A r \in 1..Len(runs) : runs[r].started_at < now
  /\ \A r, q \in 1..Len(runs) : runs[r].started_at = runs[q].started_at => r = q
  /\ \A s \in snapshots : s.as_of < now

(***************************************************************************)
(* Whoever works on a run works on it alone, and it is still running.      *)
(***************************************************************************)
Owners ==
  /\ \A i \in Importers :
       Busy(i) => job[i].run \in 1..Len(runs) /\ runs[job[i].run].status = "running"
  /\ \A i, j \in Importers : Busy(i) /\ Busy(j) /\ job[i].run = job[j].run => i = j

(***************************************************************************)
(* A transaction starts with nothing stored, has stored the snapshots of   *)
(* the rows it has been through, and locks such players only.              *)
(***************************************************************************)
WorkInOrder ==
  \A i \in Importers :
    /\ Writing(i) => /\ job[i].left \subseteq Placed(job[i].list)
                     /\ job[i].own = Snapshots(i, Stored(i))
    /\ job[i].stage \in {"idle", "cleared", "fetching"} => job[i].own = {}
    /\ \A p \in Players : rowlock[p] = i => Writing(i) /\ p \in Stored(i)

(***************************************************************************)
(* Nothing of a run can be seen before its transaction commits, and then   *)
(* everything.                                                             *)
(***************************************************************************)
Effects ==
  /\ RecordsTellTheTruth
  /\ \A i \in Importers :
       /\ job[i].stage \in {"fetching", "writing", "saving"} => Applied(job[i].run) = {}
       /\ job[i].stage = "applied" /\ Keeps(i) =>
            Applied(job[i].run) = Snapshots(i, Placed(job[i].list))

(***************************************************************************)
(* A player once stored stays, and one not yet stored has no salary.       *)
(***************************************************************************)
RowsStay ==
  /\ \A p \in Players : ~players[p].stored => players[p].salary = NoSalary
  /\ \A i \in Importers, p \in Players :
       /\ Writing(i) =>
            IF job[i].loaded[p].stored
            THEN players[p].stored ELSE job[i].loaded[p].salary = NoSalary
       /\ rowlock[p] = i => job[i].draft[p].stored
       /\ job[i].stage = "saving" /\ IsNext(i, p) =>
            job[i].loaded[p].stored \/ rowlock[p] = i

(***************************************************************************)
(* What a transaction has made of a row it is done with, or is about to    *)
(* save, is a salary some snapshot reported.                               *)
(***************************************************************************)
Mirrors ==
  /\ MirrorReported
  /\ \A i \in Importers, p \in Players :
       /\ Writing(i) /\ job[i].loaded[p].salary # NoSalary => HasSnapshot(p)
       /\ Writing(i) /\ p \in Done(i) => Reported(i, p, View(i, p).salary)
       /\ job[i].stage = "saving" /\ IsNext(i, p) => Reported(i, p, job[i].want)

ImportInv == TypeOK /\ Stamps /\ Owners /\ WorkInOrder /\ Effects /\ RowsStay /\ Mirrors

-----------------------------------------------------------------------------
(* The newest snapshot *)

(***************************************************************************)
(* A player with a snapshot has a newest one, and NewestSalary is its      *)
(* salary.                                                                 *)
(***************************************************************************)
LEMMA NewestIsReported ==
  ASSUME NEW rows \in SUBSET Snapshot, NEW p \in Players, NEW n \in Nat,
         \A s \in rows : s.as_of <= n,
         \E s \in rows : s.player = p
  PROVE  /\ NewestSalary(rows, p) \in Salaries
         /\ \E s \in rows : s.player = p /\ s.salary = NewestSalary(rows, p)
<1> DEFINE of_p == {s \in rows : s.player = p}
           ages == {n - s.as_of : s \in of_p}
           R == OpToRel(<, Nat)
<1>1. of_p # {} /\ \A s \in of_p : s.as_of \in Nat /\ s.as_of <= n
  BY DEF Snapshot
<1>2. \E m \in ages : \A k \in ages : m <= k
  <2>1. ages \in SUBSET Nat /\ ages # {}
    BY <1>1
  <2>2. IsWellFoundedOn(R, Nat)
    BY NatLessThanWellFounded
  <2>3. \A x, y \in Nat : y < x => <<y, x>> \in R
    BY DEF OpToRel
  <2> HIDE DEF R, ages
  <2>4. PICK m \in ages : \A k \in ages : ~(<<k, m>> \in R)
    BY <2>1, <2>2, WFMin
  <2>5. ASSUME NEW k \in ages PROVE m <= k
    <3>1. m \in Nat /\ k \in Nat /\ ~(k < m)
      BY <2>1, <2>3, <2>4
    <3> QED BY <3>1
  <2> QED BY <2>5
<1>3. \E s \in of_p : \A t \in of_p : t.as_of <= s.as_of
  <2>1. PICK s \in of_p : \A k \in ages : n - s.as_of <= k
    BY <1>2
  <2>2. ASSUME NEW t \in of_p PROVE t.as_of <= s.as_of
    <3>1. n - t.as_of \in ages
      OBVIOUS
    <3>2. n - s.as_of <= n - t.as_of
      BY <2>1, <3>1
    <3> HIDE DEF of_p
    <3> QED BY <1>1, <3>2
  <2> QED BY <2>2
<1> DEFINE newest == CHOOSE s \in of_p : \A t \in of_p : t.as_of <= s.as_of
<1>4. newest \in of_p
  <2> HIDE DEF of_p
  <2> QED BY <1>3
<1>5. NewestSalary(rows, p) = newest.salary
  BY DEF NewestSalary
<1> HIDE DEF newest
<1> QED BY <1>4, <1>5 DEF Snapshot

(***************************************************************************)
(* An importer's snapshots are told apart by their players, so there are   *)
(* as many as players.                                                     *)
(***************************************************************************)
LEMMA OneSnapshotEach ==
  ASSUME NEW i \in Importers, NEW S \in SUBSET Players
  PROVE  Cardinality(Snapshots(i, S)) = Cardinality(S)
<1> DEFINE f == [p \in S |-> SnapshotOf(i, p)]
           T == Snapshots(i, S)
<1>1. IsFiniteSet(S)
  BY ImportConstants, FS_Subset
<1>2. f \in Surjection(S, T)
  BY DEF Snapshots, Surjection
<1>3. \A p, q \in S : f[p] = f[q] => p = q
  BY DEF SnapshotOf
<1>4. f \in Injection(S, T)
  BY <1>2, <1>3 DEF Injection, IsInjective, Surjection
<1> HIDE DEF f, T
<1>5. Cardinality(T) = Cardinality(S)
  BY <1>1, <1>2, <1>4, FS_Surjection
<1> QED BY <1>5 DEF T

(***************************************************************************)
(* What an importer stores is a snapshot of its run's instant, and all it  *)
(* can see is of the past.                                                 *)
(***************************************************************************)
LEMMA SeenFacts ==
  ASSUME ImportInv, NEW i \in Importers, Busy(i)
  PROVE  /\ \A p \in Placed(job[i].list) :
              /\ SnapshotOf(i, p) \in Snapshot
              /\ SnapshotOf(i, p).player = p
              /\ SnapshotOf(i, p).salary \in Salaries
              /\ SnapshotOf(i, p).as_of = runs[job[i].run].started_at
         /\ runs[job[i].run] \in Run
         /\ runs[job[i].run].started_at < now
<1>1. job[i].run \in 1..Len(runs) /\ job[i] \in Job
  BY DEF ImportInv, Owners, TypeOK
<1>2. runs[job[i].run] \in Run /\ runs[job[i].run].started_at < now
  BY <1>1 DEF ImportInv, TypeOK, Stamps
<1>3. ASSUME NEW p \in Placed(job[i].list)
      PROVE  /\ SnapshotOf(i, p) \in Snapshot
             /\ SnapshotOf(i, p).player = p
             /\ SnapshotOf(i, p).salary \in Salaries
             /\ SnapshotOf(i, p).as_of = runs[job[i].run].started_at
  <2>1. p \in Players /\ job[i].list[p] \in Salaries
    BY DEF Placed
  <2>2. runs[job[i].run].started_at \in Nat
    BY <1>2 DEF Run
  <2> QED BY <2>1, <2>2 DEF SnapshotOf, Snapshot
<1> QED BY <1>2, <1>3

LEMMA InitInv == Init => ImportInv
<1> SUFFICES ASSUME Init PROVE ImportInv
  OBVIOUS
<1>1. NoJob \in Job /\ Unknown \in PlayerRow /\ ByHand \in PlayerRow
  BY DEF NoJob, Job, Stages, Lists, PlayerRow, Unknown, ByHand, OptionalSalary
<1>2. TypeOK
  BY <1>1 DEF Init, TypeOK
<1>3. Stamps /\ Owners
  BY DEF Init, Stamps, Owners, Busy, NoJob
<1>4. WorkInOrder
  BY ImportConstants DEF Init, WorkInOrder, Writing, NoJob
<1>5. Effects
  BY DEF Init, Effects, RecordsTellTheTruth, NoJob
<1>6. RowsStay
  BY ImportConstants DEF Init, RowsStay, Writing, NoJob, Unknown, ByHand
<1>7. Mirrors
  BY DEF Init, Mirrors, MirrorReported, Writing, NoJob, Unknown, ByHand
<1> QED BY <1>2, <1>3, <1>4, <1>5, <1>6, <1>7 DEF ImportInv

-----------------------------------------------------------------------------
(* Steps outside the transaction *)

(***************************************************************************)
(* The invariant on recorded effects speaks of snapshots, runs, and the    *)
(* importers in and after the transaction only.                            *)
(***************************************************************************)
LEMMA EffectsFrame ==
  ASSUME Effects, runs' = runs, snapshots' = snapshots,
         \A j \in Importers : \/ job'[j] = job[j]
                              \/ job'[j].stage \in {"idle", "cleared"}
                              \/ /\ job'[j].stage \in {"writing", "saving"}
                                 /\ job[j].stage \in {"fetching", "writing", "saving"}
                                 /\ job'[j].run = job[j].run
  PROVE  Effects'
<1>1. \A r : Applied(r)' = Applied(r) /\ (Real(r)' <=> Real(r))
  BY DEF Applied, Real
<1>2. RecordsTellTheTruth'
  BY <1>1 DEF Effects, RecordsTellTheTruth
<1>3. ASSUME NEW j \in Importers, job'[j].stage \in {"fetching", "writing", "saving"}
      PROVE  Applied(job[j].run)' = {} /\ job'[j].run = job[j].run
  BY <1>1, <1>3 DEF Effects
<1>4. ASSUME NEW j \in Importers, job'[j].stage = "applied"
      PROVE  job'[j] = job[j]
  BY <1>4
<1>5. ASSUME NEW j \in Importers, job'[j].stage \in {"fetching", "writing", "saving"}
      PROVE  (Applied(job[j].run) = {})'
  <2>1. {s \in snapshots : s.as_of = runs[job[j].run].started_at} = {}
    BY <1>1, <1>3, <1>5 DEF Applied
  <2> QED BY <2>1, <1>3, <1>5 DEF Applied
<1>6. ASSUME NEW j \in Importers, job'[j].stage = "applied", Keeps(j)'
      PROVE  (Applied(job[j].run) = Snapshots(j, Placed(job[j].list)))'
  <2>1. job'[j] = job[j]
    BY <1>4, <1>6
  <2>2. Applied(job[j].run) = Snapshots(j, Placed(job[j].list))
    BY <1>6, <2>1 DEF Effects, Keeps
  <2> QED BY <2>1, <2>2 DEF Applied, Snapshots, SnapshotOf
<1> QED BY <1>2, <1>5, <1>6 DEF Effects

LEMMA TickInv ==
  ASSUME ImportInv, Tick
  PROVE  ImportInv'
<1>1. TypeOK'
  BY DEF ImportInv, TypeOK, Tick
<1>2. Stamps'
  <2>1. \A r \in 1..Len(runs) : runs[r].started_at \in Nat
    <3>1. \A r \in 1..Len(runs) : runs[r] \in Run
      BY DEF ImportInv, TypeOK
    <3> QED BY <3>1 DEF Run
  <2>2. \A s \in snapshots : s.as_of \in Nat
    BY DEF ImportInv, TypeOK, Snapshot
  <2> QED BY <2>1, <2>2 DEF ImportInv, TypeOK, Stamps, Tick
<1>3. Owners' /\ WorkInOrder'
  BY DEF ImportInv, Owners, WorkInOrder, Tick, Busy, Writing, Stored, Snapshots, SnapshotOf, IsNext
<1>4. Effects'
  BY EffectsFrame DEF ImportInv, Tick
<1>5. RowsStay' /\ Mirrors'
  BY DEF ImportInv, RowsStay, Mirrors, MirrorReported, Tick, Writing, IsNext, HasSnapshot,
         Reported, Done, View
<1> QED BY <1>1, <1>2, <1>3, <1>4, <1>5 DEF ImportInv

LEMMA StartInv ==
  ASSUME ImportInv, NEW i \in Importers, Start(i)
  PROVE  ImportInv'
<1>1. /\ job \in [Importers -> Job]
      /\ job' = [job EXCEPT ![i].stage = "cleared"]
      /\ job[i].stage = "idle"
  BY DEF ImportInv, TypeOK, Start
<1>2. /\ job' \in [Importers -> Job]
      /\ job'[i].stage = "cleared" /\ job'[i].own = job[i].own
      /\ \A j \in Importers \ {i} : job'[j] = job[j]
  <2> DEFINE cleared == [job[i] EXCEPT !.stage = "cleared"]
  <2>1. cleared \in Job /\ cleared.stage = "cleared" /\ cleared.own = job[i].own
    BY <1>1 DEF Job, Stages
  <2>2. job' = [job EXCEPT ![i] = cleared]
    BY <1>1
  <2> HIDE DEF cleared
  <2> QED BY <1>1, <2>1, <2>2
<1>3. TypeOK'
  BY <1>2 DEF ImportInv, TypeOK, Start
<1>4. Stamps' /\ Owners'
  BY <1>1, <1>2 DEF ImportInv, Start, Stamps, Owners, Busy
<1>5. WorkInOrder'
  BY <1>1, <1>2 DEF ImportInv, Start, WorkInOrder, Writing, Stored, Snapshots, SnapshotOf, IsNext
<1>6. Effects'
  BY <1>2, EffectsFrame DEF ImportInv, Start
<1>7. RowsStay' /\ Mirrors'
  BY <1>1, <1>2 DEF ImportInv, Start, RowsStay, Mirrors, MirrorReported, WorkInOrder, Writing,
                    IsNext, HasSnapshot, Reported, Done, View
<1> QED BY <1>3, <1>4, <1>5, <1>6, <1>7 DEF ImportInv

(***************************************************************************)
(* A new run is the newest, and nobody else's.                             *)
(***************************************************************************)
LEMMA CreateRunInv ==
  ASSUME ImportInv, NEW i \in Importers, NEW dry_run \in BOOLEAN, CreateRun(i, dry_run)
  PROVE  ImportInv'
<1>0. PICK n : n = Len(runs) + 1
  OBVIOUS
<1> DEFINE new == [status |-> "running", started_at |-> now, dry_run |-> dry_run,
                   rows |-> 0, placed |-> 0]
<1>1. /\ job[i] \in Job
      /\ job[i].stage = "cleared"
      /\ runs \in Seq(Run) /\ new \in Run /\ now \in Nat
  BY DEF ImportInv, TypeOK, CreateRun, Run
<1>2. n \in Nat /\ n \notin 1..Len(runs) /\ 1..n = 1..Len(runs) \union {n}
  BY <1>0, <1>1
<1>3. /\ runs' = Append(runs, new)
      /\ now' = now + 1
      /\ job' = [job EXCEPT ![i] = [job[i] EXCEPT !.stage = "fetching", !.run = n]]
      /\ UNCHANGED <<players, snapshots, rowlock>>
  BY <1>0 DEF CreateRun
<1>4. /\ new.started_at = now /\ new.status = "running"
      /\ \A r \in 1..Len(runs) : runs[r] \in Run
  BY <1>1
<1> HIDE DEF new
<1>5. /\ job' \in [Importers -> Job]
      /\ job'[i].stage = "fetching" /\ job'[i].run = n /\ job'[i].own = job[i].own
      /\ \A j \in Importers \ {i} : job'[j] = job[j]
  <2>1. job \in [Importers -> Job]
    BY DEF ImportInv, TypeOK
  <2>2. [job[i] EXCEPT !.stage = "fetching", !.run = n] \in Job
    BY <1>1, <1>2 DEF Job, Stages
  <2>3. job[i] \in Job => /\ [job[i] EXCEPT !.stage = "fetching", !.run = n].stage = "fetching"
                          /\ [job[i] EXCEPT !.stage = "fetching", !.run = n].run = n
                          /\ [job[i] EXCEPT !.stage = "fetching", !.run = n].own = job[i].own
    BY DEF Job
  <2> QED BY <1>1, <1>3, <2>1, <2>2, <2>3
<1>6. /\ runs' \in Seq(Run)
      /\ Len(runs') = n
      /\ runs'[n] = new
      /\ \A r \in 1..Len(runs) : runs'[r] = runs[r]
      /\ 1..Len(runs') = 1..Len(runs) \union {n}
  BY <1>0, <1>1, <1>2, <1>3
<1>7. TypeOK'
  BY <1>1, <1>3, <1>5, <1>6 DEF ImportInv, TypeOK
<1>8. Stamps'
  <2>1. \A r \in 1..Len(runs) : runs[r].started_at \in Nat /\ runs[r].started_at < now
    BY <1>4 DEF ImportInv, Stamps, Run
  <2>2. \A s \in snapshots : s.as_of \in Nat
    BY DEF ImportInv, TypeOK, Snapshot
  <2> QED BY <1>1, <1>3, <1>4, <1>6, <2>1, <2>2 DEF ImportInv, Stamps
<1>9. Owners'
  BY <1>1, <1>2, <1>4, <1>5, <1>6 DEF ImportInv, Owners, Busy
<1>10. \A j \in Importers \ {i} :
         Busy(j) => job[j].run \in 1..Len(runs) /\ runs'[job[j].run] = runs[job[j].run]
  BY <1>6 DEF ImportInv, Owners
<1>11. WorkInOrder'
  BY <1>1, <1>3, <1>5, <1>10 DEF ImportInv, WorkInOrder, Writing, Busy, Stored, Snapshots,
                                 SnapshotOf, IsNext
<1>12. Effects'
  <2>1. \A r \in 1..Len(runs) : Applied(r)' = Applied(r)
    BY <1>3, <1>6 DEF Applied
  <2>2. \A r \in 1..Len(runs) : Real(r)' <=> Real(r)
    BY <1>6 DEF Real
  <2>3. Applied(n)' = {} /\ ~Real(n)'
    <3>1. \A s \in snapshots : s.as_of # now
      BY <1>1 DEF ImportInv, TypeOK, Stamps, Snapshot
    <3> QED BY <1>3, <1>4, <1>6, <3>1 DEF Applied, Real
  <2>4. RecordsTellTheTruth'
    BY <1>6, <2>1, <2>2, <2>3 DEF ImportInv, Effects, RecordsTellTheTruth
  <2>5. ASSUME NEW j \in Importers,
               job'[j].stage \in {"fetching", "writing", "saving"}
        PROVE  (Applied(job[j].run) = {})'
    <3>1. CASE j = i
      BY <1>5, <2>3, <3>1 DEF Applied
    <3>2. CASE j # i
      BY <1>5, <1>3, <1>10, <2>5, <3>2 DEF ImportInv, Effects, Busy, Applied
    <3> QED BY <3>1, <3>2
  <2>6. ASSUME NEW j \in Importers, job'[j].stage = "applied", Keeps(j)'
        PROVE  (Applied(job[j].run) = Snapshots(j, Placed(job[j].list)))'
    BY <1>3, <1>5, <1>10, <2>6
       DEF ImportInv, Effects, Busy, Keeps, Applied, Snapshots, SnapshotOf
  <2> QED BY <2>4, <2>5, <2>6 DEF Effects
<1>13. RowsStay' /\ Mirrors'
  BY SMTT(30), <1>1, <1>3, <1>5 DEF ImportInv, RowsStay, Mirrors, MirrorReported, WorkInOrder,
                          Writing, IsNext, HasSnapshot, Reported, Done, View
<1> QED BY <1>7, <1>8, <1>9, <1>11, <1>12, <1>13 DEF ImportInv

-----------------------------------------------------------------------------
(* An importer that stops *)

(***************************************************************************)
(* Writing one run's row leaves the other rows alone.                      *)
(***************************************************************************)
LEMMA RunWritten ==
  ASSUME runs \in Seq(Run), NEW r \in 1..Len(runs), NEW new \in Run,
         runs' = [runs EXCEPT ![r] = new]
  PROVE  /\ runs' \in Seq(Run)
         /\ Len(runs') = Len(runs)
         /\ runs'[r] = new
         /\ \A q \in 1..Len(runs) : q # r => runs'[q] = runs[q]
OBVIOUS

(***************************************************************************)
(* Once an importer has stopped and its locks are gone, only the run's own *)
(* record remains to be looked at.                                         *)
(***************************************************************************)
LEMMA StopKeepsRest ==
  ASSUME ImportInv, NEW i \in Importers,
         job' = [job EXCEPT ![i] = NoJob],
         rowlock' = Unlocked(i),
         UNCHANGED <<now, players, snapshots>>,
         runs' \in Seq(Run), Len(runs') = Len(runs),
         \A r \in 1..Len(runs) : runs'[r].started_at = runs[r].started_at,
         \A j \in Importers \ {i} : Busy(j) => runs'[job[j].run] = runs[job[j].run],
         RecordsTellTheTruth'
  PROVE  ImportInv'
<1>1. job \in [Importers -> Job] /\ NoJob \in Job /\ NoJob.stage = "idle" /\ NoJob.own = {}
  BY DEF ImportInv, TypeOK, NoJob, Job, Stages, Lists, PlayerRow, Unknown, OptionalSalary
<1>2. /\ job' \in [Importers -> Job]
      /\ job'[i].stage = "idle" /\ job'[i].own = {}
      /\ \A j \in Importers \ {i} : job'[j] = job[j]
  BY <1>1
<1>3. /\ rowlock \in [Players -> Importers \union {Nobody}]
      /\ rowlock' \in [Players -> Importers \union {Nobody}]
      /\ \A p \in Players : rowlock'[p] # i
      /\ \A j \in Importers \ {i}, p \in Players : rowlock'[p] = j <=> rowlock[p] = j
  BY ImportConstants DEF ImportInv, TypeOK, Unlocked
<1>4. TypeOK'
  BY <1>2, <1>3 DEF ImportInv, TypeOK
<1>5. Stamps'
  BY DEF ImportInv, Stamps
<1>6. Owners'
  BY <1>2 DEF ImportInv, Owners, Busy
<1>7. WorkInOrder'
  BY <1>2, <1>3 DEF ImportInv, WorkInOrder, Busy, Writing, Stored, Snapshots, SnapshotOf, IsNext
<1>8. Effects'
  <2>1. \A j \in Importers \ {i} : Busy(j) => job[j].run \in 1..Len(runs)
    BY DEF ImportInv, Owners
  <2>2. \A r \in 1..Len(runs) : Applied(r)' = Applied(r)
    BY DEF Applied
  <2>3. ASSUME NEW j \in Importers,
               job'[j].stage \in {"fetching", "writing", "saving"}
        PROVE  (Applied(job[j].run) = {})'
    BY <1>2, <2>1, <2>3 DEF ImportInv, Effects, Busy, Applied
  <2>4. ASSUME NEW j \in Importers, job'[j].stage = "applied", Keeps(j)'
        PROVE  (Applied(job[j].run) = Snapshots(j, Placed(job[j].list)))'
    BY <1>2, <2>1, <2>4
       DEF ImportInv, Effects, Busy, Keeps, Applied, Snapshots, SnapshotOf
  <2> QED BY <2>3, <2>4 DEF Effects
<1>9. RowsStay'
  BY <1>2, <1>3 DEF ImportInv, RowsStay, Writing, IsNext
<1>10. Mirrors'
  BY <1>2, <1>3 DEF ImportInv, Mirrors, MirrorReported, Writing, IsNext, HasSnapshot, Reported,
                    Done, View
<1> QED BY <1>4, <1>5, <1>6, <1>7, <1>8, <1>9, <1>10 DEF ImportInv

(***************************************************************************)
(* An importer outside the transaction holds no lock.                      *)
(***************************************************************************)
LEMMA NothingToUnlock ==
  ASSUME ImportInv, NEW i \in Importers, ~Writing(i)
  PROVE  rowlock = Unlocked(i)
BY DEF ImportInv, TypeOK, WorkInOrder, Unlocked

(***************************************************************************)
(* A run that fails before it has committed has left nothing.              *)
(***************************************************************************)
LEMMA FailInv ==
  ASSUME ImportInv, NEW i \in Importers, Fail(i),
         job[i].stage \in {"fetching", "writing", "saving"},
         rowlock' = Unlocked(i),
         UNCHANGED <<now, players, snapshots>>
  PROVE  ImportInv'
<1>1. /\ runs \in Seq(Run)
      /\ job[i].run \in 1..Len(runs)
      /\ runs[job[i].run] \in Run
  BY DEF ImportInv, TypeOK, Owners, Busy
<1>2. PICK r \in 1..Len(runs) : r = job[i].run
  BY <1>1
<1>3. PICK new \in Run : /\ new = [runs[r] EXCEPT !.status = "failed"]
                         /\ new.status = "failed"
                         /\ new.started_at = runs[r].started_at
  <2> DEFINE w == [runs[r] EXCEPT !.status = "failed"]
  <2>1. w \in Run /\ w.status = "failed" /\ w.started_at = runs[r].started_at
    BY <1>1, <1>2 DEF Run
  <2> HIDE DEF w
  <2>2. w = [runs[r] EXCEPT !.status = "failed"]
    BY DEF w
  <2> QED BY <2>1, <2>2
<1>4. runs' = [runs EXCEPT ![r] = new]
  BY <1>2, <1>3 DEF Fail
<1>5. /\ runs' \in Seq(Run)
      /\ Len(runs') = Len(runs)
      /\ runs'[r] = new
      /\ \A q \in 1..Len(runs) : q # r => runs'[q] = runs[q]
  BY <1>1, <1>4, RunWritten
<1>6. \A j \in Importers \ {i} : Busy(j) => runs'[job[j].run] = runs[job[j].run]
  BY <1>2, <1>5 DEF ImportInv, Owners, Busy
<1>7. \A q \in 1..Len(runs) : runs'[q].started_at = runs[q].started_at
  BY <1>3, <1>5
<1>8. \A q \in 1..Len(runs) : Applied(q)' = Applied(q)
  BY <1>7 DEF Applied
<1>9. Applied(r) = {}
  BY <1>2 DEF ImportInv, Effects
<1>10. RecordsTellTheTruth'
  <2>1. Applied(r)' = {} /\ ~Real(r)'
    BY <1>3, <1>5, <1>8, <1>9 DEF Real
  <2>2. \A q \in 1..Len(runs) : q # r =>
          /\ runs'[q].status = "failed" \/ runs'[q].dry_run => Applied(q)' = {}
          /\ Real(q)' => Cardinality(Applied(q)') = runs'[q].placed
    BY <1>5, <1>8 DEF ImportInv, Effects, RecordsTellTheTruth, Real
  <2> QED BY <1>5, <2>1, <2>2 DEF RecordsTellTheTruth
<1> QED BY <1>5, <1>6, <1>7, <1>10, StopKeepsRest DEF Fail

LEMMA FetchFailsInv ==
  ASSUME ImportInv, NEW i \in Importers, FetchFails(i)
  PROVE  ImportInv'
<1>1. job[i].stage = "fetching" /\ ~Writing(i)
  BY DEF FetchFails, Writing
<1> QED BY <1>1, NothingToUnlock, FailInv DEF FetchFails

LEMMA AbortInv ==
  ASSUME ImportInv, NEW i \in Importers, Abort(i)
  PROVE  ImportInv'
BY FailInv DEF Abort

LEMMA CrashInv ==
  ASSUME ImportInv, NEW i \in Importers, Crash(i)
  PROVE  ImportInv'
<1>1. /\ runs' = runs /\ snapshots' = snapshots /\ runs \in Seq(Run)
  BY DEF Crash, ImportInv, TypeOK
<1>2. \A r : Applied(r)' = Applied(r) /\ (Real(r)' <=> Real(r))
  BY <1>1 DEF Applied, Real
<1>3. RecordsTellTheTruth'
  BY <1>1, <1>2 DEF ImportInv, Effects, RecordsTellTheTruth
<1> QED BY <1>1, <1>3, StopKeepsRest DEF Crash

(***************************************************************************)
(* A successful run counts the players it placed, and left one snapshot of *)
(* each.                                                                   *)
(***************************************************************************)
LEMMA FinishInv ==
  ASSUME ImportInv, NEW i \in Importers, Finish(i)
  PROVE  ImportInv'
<1> DEFINE listed == Cardinality(Listed(job[i].list))
           placed == Cardinality(Placed(job[i].list))
<1>1. /\ runs \in Seq(Run)
      /\ job[i].run \in 1..Len(runs)
      /\ runs[job[i].run] \in Run
      /\ job[i].stage = "applied"
      /\ runs[job[i].run].status = "running"
  BY DEF ImportInv, TypeOK, Owners, Busy, Finish
<1>2. PICK r \in 1..Len(runs) : r = job[i].run
  BY <1>1
<1>3. listed \in Nat /\ placed \in Nat
  <2>1. Listed(job[i].list) \in SUBSET Players /\ Placed(job[i].list) \in SUBSET Players
    BY DEF Listed, Placed
  <2> QED BY <2>1, ImportConstants, FS_Subset, FS_CardinalityType
<1>4. runs' = [runs EXCEPT ![r].status = "succeeded", ![r].rows = listed, ![r].placed = placed]
  BY <1>2 DEF Finish
<1> HIDE DEF listed
<1>5. PICK new \in Run :
        /\ new = [runs[r] EXCEPT !.status = "succeeded", !.rows = listed, !.placed = placed]
        /\ new.status = "succeeded"
        /\ new.started_at = runs[r].started_at
        /\ new.dry_run = runs[r].dry_run
        /\ new.placed = placed
  <2> DEFINE w == [runs[r] EXCEPT !.status = "succeeded", !.rows = listed, !.placed = placed]
  <2> HIDE DEF placed
  <2>1. /\ w \in Run
        /\ w.status = "succeeded"
        /\ w.started_at = runs[r].started_at
        /\ w.dry_run = runs[r].dry_run
        /\ w.placed = placed
    BY <1>1, <1>2, <1>3 DEF Run
  <2>2. w = [runs[r] EXCEPT !.status = "succeeded", !.rows = listed, !.placed = placed]
    OBVIOUS
  <2> HIDE DEF w
  <2> QED BY <2>1, <2>2
<1>6. runs' = [runs EXCEPT ![r] = new]
  <2> HIDE DEF placed
  <2> QED BY <1>1, <1>2, <1>4, <1>5
<1>7. /\ runs' \in Seq(Run)
      /\ Len(runs') = Len(runs)
      /\ runs'[r] = new
      /\ \A q \in 1..Len(runs) : q # r => runs'[q] = runs[q]
  BY <1>1, <1>6, RunWritten
<1>8. \A j \in Importers \ {i} : Busy(j) => runs'[job[j].run] = runs[job[j].run]
  BY <1>2, <1>1, <1>7 DEF ImportInv, Owners, Busy
<1>9. \A q \in 1..Len(runs) : runs'[q].started_at = runs[q].started_at
  BY <1>5, <1>7
<1>10. \A q \in 1..Len(runs) : Applied(q)' = Applied(q)
  BY <1>9 DEF Applied, Finish
<1>11. ~new.dry_run => Cardinality(Applied(r)) = new.placed
  <2>1. SUFFICES ASSUME ~new.dry_run PROVE Cardinality(Applied(r)) = new.placed
    OBVIOUS
  <2>2. Applied(r) = Snapshots(i, Placed(job[i].list))
    BY <1>1, <1>2, <1>5, <2>1 DEF ImportInv, Effects, Keeps
  <2>3. Placed(job[i].list) \in SUBSET Players
    BY DEF Placed
  <2> QED BY <1>5, <2>2, <2>3, OneSnapshotEach
<1>12. new.dry_run => Applied(r) = {}
  BY <1>1, <1>2, <1>5 DEF ImportInv, Effects, RecordsTellTheTruth
<1>13. RecordsTellTheTruth'
  <2> HIDE DEF placed
  <2>1. /\ runs'[r].status # "failed"
        /\ runs'[r].dry_run => Applied(r)' = {}
        /\ Real(r)' => Cardinality(Applied(r)') = runs'[r].placed
    BY <1>5, <1>7, <1>10, <1>11, <1>12 DEF Real
  <2>2. \A q \in 1..Len(runs) : q # r =>
          /\ runs'[q].status = "failed" \/ runs'[q].dry_run => Applied(q)' = {}
          /\ Real(q)' => Cardinality(Applied(q)') = runs'[q].placed
    BY <1>7, <1>10 DEF ImportInv, Effects, RecordsTellTheTruth, Real
  <2> QED BY <1>7, <2>1, <2>2 DEF RecordsTellTheTruth
<1>14. ~Writing(i)
  BY <1>1 DEF Writing
<1> QED BY <1>7, <1>8, <1>9, <1>13, <1>14, NothingToUnlock, StopKeepsRest DEF Finish

-----------------------------------------------------------------------------
(* Steps of the transaction *)

(***************************************************************************)
(* The transaction opens with the players as they are committed.           *)
(***************************************************************************)
LEMMA LoadInv ==
  ASSUME ImportInv, NEW i \in Importers, NEW list \in Lists, Load(i, list)
  PROVE  ImportInv'
<1>1. /\ job \in [Importers -> Job] /\ job[i] \in Job
      /\ job[i].stage = "fetching"
      /\ job[i].own = {}
      /\ players \in [Players -> PlayerRow]
  BY DEF ImportInv, TypeOK, WorkInOrder, Load
<1>2. job' = [job EXCEPT ![i] = [job[i] EXCEPT !.stage = "writing", !.list = list,
                                               !.loaded = players, !.left = Placed(list)]]
  BY DEF Load
<1>3. PICK new \in Job :
        /\ job' = [job EXCEPT ![i] = new]
        /\ new.stage = "writing" /\ new.run = job[i].run /\ new.list = list
        /\ new.loaded = players /\ new.left = Placed(list) /\ new.own = {}
        /\ new.draft = job[i].draft
  <2> DEFINE w == [job[i] EXCEPT !.stage = "writing", !.list = list,
                                 !.loaded = players, !.left = Placed(list)]
  <2>1. Placed(list) \in SUBSET Players
    BY DEF Placed
  <2>2. /\ w \in Job
        /\ w.stage = "writing" /\ w.run = job[i].run /\ w.list = list
        /\ w.loaded = players /\ w.left = Placed(list) /\ w.own = {}
        /\ w.draft = job[i].draft
    BY <1>1, <2>1 DEF Job, Stages
  <2>3. job' = [job EXCEPT ![i] = w]
    BY <1>2
  <2> HIDE DEF w
  <2> QED BY <2>2, <2>3
<1>4. /\ job' \in [Importers -> Job] /\ job'[i] = new
      /\ \A j \in Importers \ {i} : job'[j] = job[j]
  BY <1>1, <1>3
<1>5. UNCHANGED <<now, runs, players, snapshots, rowlock>>
  BY DEF Load
<1>6. TypeOK'
  BY <1>4, <1>5 DEF ImportInv, TypeOK
<1>7. Stamps'
  BY <1>5 DEF ImportInv, Stamps
<1>8. Owners'
  BY <1>1, <1>3, <1>4, <1>5 DEF ImportInv, Owners, Busy
<1>9. \A p \in Players : rowlock[p] # i
  BY <1>1 DEF ImportInv, WorkInOrder, Writing
<1>10. Stored(i)' = {} /\ Snapshots(i, {})' = {}
  BY <1>3, <1>4 DEF Stored, Snapshots
<1>11. WorkInOrder'
  <2>1. \A j \in Importers \ {i} :
          /\ Writing(j)' => /\ (job[j].left \subseteq Placed(job[j].list))'
                            /\ (job[j].own = Snapshots(j, Stored(j)))'
          /\ (job[j].stage \in {"idle", "cleared", "fetching"} => job[j].own = {})'
          /\ \A p \in Players : rowlock'[p] = j => Writing(j)' /\ p \in Stored(j)'
    BY <1>4, <1>5 DEF ImportInv, WorkInOrder, Writing, Stored, Snapshots, SnapshotOf, IsNext
  <2>2. /\ Writing(i)' => /\ (job[i].left \subseteq Placed(job[i].list))'
                          /\ (job[i].own = Snapshots(i, Stored(i)))'
        /\ (job[i].stage \in {"idle", "cleared", "fetching"} => job[i].own = {})'
    <3>1. (job[i].own = Snapshots(i, Stored(i)))'
      BY <1>3, <1>4, <1>10 DEF Snapshots
    <3> QED BY <1>3, <1>4, <3>1
  <2> QED BY <1>5, <1>9, <2>1, <2>2 DEF WorkInOrder
<1>12. Effects'
  BY <1>1, <1>3, <1>4, <1>5, EffectsFrame DEF ImportInv
<1>13. RowsStay'
  BY <1>3, <1>4, <1>5, <1>9 DEF ImportInv, RowsStay, Writing, IsNext
<1>14. Mirrors'
  BY <1>3, <1>4, <1>5 DEF ImportInv, Mirrors, MirrorReported, Writing, IsNext, HasSnapshot,
                          Reported, Done, View
<1> QED BY <1>6, <1>7, <1>8, <1>11, <1>12, <1>13, <1>14 DEF ImportInv

(***************************************************************************)
(* Rows are written in order, so there is one next row.                    *)
(***************************************************************************)
LEMMA OneNext ==
  ASSUME TypeOK, NEW i \in Importers, NEW p \in Players, NEW q \in Players,
         IsNext(i, p), IsNext(i, q)
  PROVE  p = q
<1>1. p \in Nat /\ q \in Nat /\ p <= q /\ q <= p
  BY ImportConstants DEF IsNext
<1> QED BY <1>1

(***************************************************************************)
(* With its own snapshot stored, an importer always sees a newest one.     *)
(***************************************************************************)
LEMMA SeenReports ==
  ASSUME ImportInv, NEW i \in Importers, Writing(i), NEW p \in Placed(job[i].list)
  PROVE  /\ \E s \in Seen(i, p) : s.player = p
         /\ NewestSalary(Seen(i, p), p) \in Salaries
         /\ \E s \in Seen(i, p) : s.player = p /\ s.salary = NewestSalary(Seen(i, p), p)
<1>1. Busy(i) /\ p \in Players
  BY DEF Busy, Writing, Placed
<1>2. /\ SnapshotOf(i, p) \in Snapshot
      /\ SnapshotOf(i, p).player = p
      /\ SnapshotOf(i, p).as_of < now
  BY <1>1, SeenFacts
<1>3. /\ job[i].own \in SUBSET Snapshot
      /\ \A s \in job[i].own : s.as_of < now
  <2>1. job[i].own = Snapshots(i, Stored(i)) /\ Stored(i) \subseteq Placed(job[i].list)
    BY DEF ImportInv, WorkInOrder, Stored
  <2>2. \A q \in Stored(i) : SnapshotOf(i, q) \in Snapshot /\ SnapshotOf(i, q).as_of < now
    BY <1>1, <2>1, SeenFacts
  <2> QED BY <2>1, <2>2 DEF Snapshots
<1>4. snapshots \in SUBSET Snapshot /\ (\A s \in snapshots : s.as_of < now) /\ now \in Nat
  BY DEF ImportInv, TypeOK, Stamps
<1>5. Seen(i, p) \in SUBSET Snapshot /\ \A s \in Seen(i, p) : s.as_of <= now
  <2>1. \A s \in Snapshot : s.as_of \in Nat
    BY DEF Snapshot
  <2> QED BY <1>2, <1>3, <1>4, <2>1 DEF Seen
<1>6. SnapshotOf(i, p) \in Seen(i, p)
  BY DEF Seen
<1> DEFINE S == Seen(i, p)
<1>7. \E s \in S : s.player = p
  BY <1>2, <1>6
<1> HIDE DEF S
<1>8. /\ NewestSalary(S, p) \in Salaries
      /\ \E s \in S : s.player = p /\ s.salary = NewestSalary(S, p)
  BY <1>1, <1>4, <1>5, <1>7, NewestIsReported DEF S
<1> QED BY <1>7, <1>8 DEF S

(***************************************************************************)
(* What recording a row makes of it: the newest salary the importer sees,  *)
(* and the row under its lock if it has to be inserted or brought back.    *)
(***************************************************************************)
LEMMA RecordStep ==
  ASSUME ImportInv, NEW i \in Importers, NEW p \in Players, Record(i, p)
  PROVE  \E newest \in Salaries, same \in BOOLEAN, touches \in BOOLEAN, new \in Job :
           /\ newest = NewestSalary(Seen(i, p), p)
           /\ \E s \in Seen(i, p) : s.player = p /\ s.salary = newest
           /\ same <=> newest = job[i].loaded[p].salary
           /\ touches <=> Touches(job[i].loaded[p])
           /\ touches => rowlock[p] = Nobody
           /\ ~job[i].loaded[p].stored => ~players[p].stored
           /\ new.stage = (IF same THEN "writing" ELSE "saving")
           /\ new.left = (IF same THEN job[i].left \ {p} ELSE job[i].left)
           /\ new.own = job[i].own \union {SnapshotOf(i, p)}
           /\ new.run = job[i].run /\ new.list = job[i].list /\ new.loaded = job[i].loaded
           /\ new.want = newest
           /\ \A q \in Players :
                new.draft[q] = IF q = p /\ touches THEN Matched(job[i].loaded[p], players[p])
                               ELSE job[i].draft[q]
           /\ job' \in [Importers -> Job] /\ job'[i] = new
           /\ \A j \in Importers \ {i} : job'[j] = job[j]
           /\ \A q \in Players : rowlock'[q] = IF q = p /\ touches THEN i ELSE rowlock[q]
           /\ rowlock' \in [Players -> Importers \union {Nobody}]
           /\ \A j \in Importers \ {i}, q \in Players : rowlock'[q] = j <=> rowlock[q] = j
<1> DEFINE old == job[i].loaded[p]
<1>1. PICK newest :
        newest = IF \E s \in Seen(i, p) : s.player = p
                 THEN NewestSalary(Seen(i, p), p) ELSE old.salary
  OBVIOUS
<1>2. PICK same \in BOOLEAN : same <=> newest = old.salary
  OBVIOUS
<1>3. PICK touches \in BOOLEAN : touches <=> Touches(old)
  OBVIOUS
<1>4. /\ job \in [Importers -> Job] /\ job[i] \in Job
      /\ job[i].stage = "writing" /\ Writing(i) /\ Busy(i)
      /\ job[i].left \subseteq Placed(job[i].list)
      /\ p \in job[i].left /\ p \in Placed(job[i].list) /\ IsNext(i, p)
      /\ players[p] \in PlayerRow /\ old \in PlayerRow
  BY DEF ImportInv, TypeOK, WorkInOrder, Writing, Busy, Record, IsNext, Job
<1>5. /\ newest \in Salaries /\ newest = NewestSalary(Seen(i, p), p)
      /\ \E s \in Seen(i, p) : s.player = p /\ s.salary = newest
  BY <1>1, <1>4, SeenReports
<1>6. /\ touches => rowlock[p] = Nobody
      /\ ~old.stored => ~players[p].stored
      /\ rowlock' = IF touches THEN [rowlock EXCEPT ![p] = i] ELSE rowlock
      /\ UNCHANGED <<now, runs, players, snapshots>>
  BY <1>3 DEF Record
<1> DEFINE row == Matched(old, players[p])
           draft == [job[i].draft EXCEPT ![p] = IF touches THEN row ELSE @]
           own == job[i].own \union {SnapshotOf(i, p)}
           left == IF same THEN job[i].left \ {p} ELSE job[i].left
           stage == IF same THEN "writing" ELSE "saving"
           w == [job[i] EXCEPT !.draft = draft, !.own = own, !.left = left,
                               !.stage = stage, !.want = newest]
<1>7. job' = [job EXCEPT ![i] = w]
  <2>1. job' = [job EXCEPT ![i].draft[p] = IF touches THEN row ELSE @,
                           ![i].own = @ \union {SnapshotOf(i, p)},
                           ![i].left = IF same THEN @ \ {p} ELSE @,
                           ![i].stage = IF same THEN "writing" ELSE "saving",
                           ![i].want = newest]
    BY <1>1, <1>2, <1>3 DEF Record
  <2> HIDE DEF row, old
  <2> QED BY <1>4, <2>1 DEF Job
<1>8. row \in PlayerRow /\ row.stored = (~old.stored \/ players[p].stored)
  BY <1>4 DEF Matched, PlayerRow, OptionalSalary
<1>9. SnapshotOf(i, p) \in Snapshot
  BY <1>4, SeenFacts
<1> HIDE DEF row, old
<1>10. /\ w \in Job
       /\ w.stage = (IF same THEN "writing" ELSE "saving")
       /\ w.left = (IF same THEN job[i].left \ {p} ELSE job[i].left)
       /\ w.own = job[i].own \union {SnapshotOf(i, p)}
       /\ w.run = job[i].run /\ w.list = job[i].list /\ w.loaded = job[i].loaded
       /\ w.want = newest
       /\ \A q \in Players : w.draft[q] = IF q = p /\ touches THEN row ELSE job[i].draft[q]
  <2>1. job[i].draft \in [Players -> PlayerRow]
    BY <1>4 DEF Job
  <2>2. /\ draft \in [Players -> PlayerRow]
        /\ \A q \in Players : draft[q] = IF q = p /\ touches THEN row ELSE job[i].draft[q]
    BY <1>8, <2>1
  <2>3. own \in SUBSET Snapshot /\ left \in SUBSET Players /\ stage \in Stages
    BY <1>4, <1>9 DEF Job, Stages
  <2>4. newest \in OptionalSalary
    BY <1>5 DEF OptionalSalary
  <2> HIDE DEF draft, own, left, stage
  <2>5. /\ w \in Job
        /\ w.stage = stage /\ w.left = left /\ w.own = own /\ w.draft = draft /\ w.want = newest
        /\ w.run = job[i].run /\ w.list = job[i].list /\ w.loaded = job[i].loaded
    BY <1>4, <2>2, <2>3, <2>4 DEF Job
  <2> HIDE DEF w
  <2> QED BY <2>2, <2>5 DEF own, left, stage
<1>11. PICK new \in Job : new = w
  BY <1>10
<1> HIDE DEF w
<1>12. /\ job' \in [Importers -> Job] /\ job'[i] = new
       /\ \A j \in Importers \ {i} : job'[j] = job[j]
  BY <1>4, <1>7, <1>11
<1>13. /\ \A q \in Players : rowlock'[q] = IF q = p /\ touches THEN i ELSE rowlock[q]
       /\ rowlock' \in [Players -> Importers \union {Nobody}]
       /\ \A j \in Importers \ {i}, q \in Players : rowlock'[q] = j <=> rowlock[q] = j
  BY <1>6, ImportConstants DEF ImportInv, TypeOK
<1> QED BY <1>2, <1>3, <1>5, <1>6, <1>10, <1>11, <1>12, <1>13 DEF old, row

(***************************************************************************)
(* A row's snapshot is stored.  If the salary is left alone, it is one     *)
(* that was already reported when the transaction opened.                  *)
(***************************************************************************)
LEMMA RecordInv ==
  ASSUME ImportInv, NEW i \in Importers, NEW p \in Players, Record(i, p)
  PROVE  ImportInv'
<1> DEFINE old == job[i].loaded[p]
           row == Matched(old, players[p])
<1>1. PICK newest \in Salaries, same \in BOOLEAN, touches \in BOOLEAN, new \in Job :
        /\ newest = NewestSalary(Seen(i, p), p)
        /\ \E s \in Seen(i, p) : s.player = p /\ s.salary = newest
        /\ same <=> newest = old.salary
        /\ touches <=> Touches(old)
        /\ touches => rowlock[p] = Nobody
        /\ ~old.stored => ~players[p].stored
        /\ new.stage = (IF same THEN "writing" ELSE "saving")
        /\ new.left = (IF same THEN job[i].left \ {p} ELSE job[i].left)
        /\ new.own = job[i].own \union {SnapshotOf(i, p)}
        /\ new.run = job[i].run /\ new.list = job[i].list /\ new.loaded = job[i].loaded
        /\ new.want = newest
        /\ \A q \in Players :
             new.draft[q] = IF q = p /\ touches THEN row ELSE job[i].draft[q]
        /\ job' \in [Importers -> Job] /\ job'[i] = new
        /\ \A j \in Importers \ {i} : job'[j] = job[j]
        /\ \A q \in Players : rowlock'[q] = IF q = p /\ touches THEN i ELSE rowlock[q]
        /\ rowlock' \in [Players -> Importers \union {Nobody}]
        /\ \A j \in Importers \ {i}, q \in Players : rowlock'[q] = j <=> rowlock[q] = j
  BY RecordStep
<1>2. same <=> newest = old.salary
  BY <1>1
<1>3. touches <=> Touches(old)
  BY <1>1
<1>4. /\ job \in [Importers -> Job] /\ job[i] \in Job
      /\ job[i].stage = "writing" /\ Writing(i) /\ Busy(i)
      /\ job[i].left \subseteq Placed(job[i].list)
      /\ p \in job[i].left /\ p \in Placed(job[i].list) /\ IsNext(i, p)
      /\ players[p] \in PlayerRow /\ old \in PlayerRow
  <2>1. job \in [Importers -> Job] /\ job[i] \in Job /\ players \in [Players -> PlayerRow]
    BY DEF ImportInv, TypeOK
  <2>2. job[i].stage = "writing" /\ IsNext(i, p)
    BY DEF Record
  <2>3. job[i].left \subseteq Placed(job[i].list)
    BY <2>2 DEF ImportInv, WorkInOrder, Writing
  <2>4. old \in PlayerRow
    BY <2>1 DEF Job
  <2> HIDE DEF old, row
  <2> QED BY <2>1, <2>2, <2>3, <2>4 DEF Writing, Busy, IsNext
<1>5. newest \in Salaries /\ \E s \in Seen(i, p) : s.player = p /\ s.salary = newest
  BY <1>1
<1>6. /\ touches => rowlock[p] = Nobody
      /\ ~old.stored => ~players[p].stored
      /\ UNCHANGED <<now, runs, players, snapshots>>
  BY <1>1 DEF Record
<1>8. row \in PlayerRow /\ row.stored = (~old.stored \/ players[p].stored)
  BY <1>4 DEF Matched, PlayerRow, OptionalSalary
<1> HIDE DEF row, old
<1>10. /\ new.stage = (IF same THEN "writing" ELSE "saving")
       /\ new.left = (IF same THEN job[i].left \ {p} ELSE job[i].left)
       /\ new.own = job[i].own \union {SnapshotOf(i, p)}
       /\ new.run = job[i].run /\ new.list = job[i].list /\ new.loaded = job[i].loaded
       /\ new.want = newest
       /\ \A q \in Players : new.draft[q] = IF q = p /\ touches THEN row ELSE job[i].draft[q]
  BY <1>1
<1>12. /\ job' \in [Importers -> Job] /\ job'[i] = new
       /\ \A j \in Importers \ {i} : job'[j] = job[j]
  BY <1>1
<1>13. /\ \A q \in Players : rowlock'[q] = IF q = p /\ touches THEN i ELSE rowlock[q]
       /\ rowlock' \in [Players -> Importers \union {Nobody}]
       /\ \A j \in Importers \ {i}, q \in Players : rowlock'[q] = j <=> rowlock[q] = j
  BY <1>1
<1>14. TypeOK'
  BY <1>6, <1>12, <1>13 DEF ImportInv, TypeOK
<1>15. Stamps'
  BY <1>6 DEF ImportInv, Stamps
<1>16. Owners'
  BY <1>4, <1>6, <1>10, <1>12 DEF ImportInv, Owners, Busy
<1>17. Stored(i)' = Stored(i) \union {p}
  <2>1. \A q \in Players : IsNext(i, q) => q = p
    BY <1>4, OneNext DEF ImportInv
  <2>2. CASE same
    BY <1>4, <1>10, <1>12, <2>2 DEF Stored
  <2>3. CASE ~same
    BY <1>4, <1>10, <1>12, <2>1, <2>3 DEF Stored, IsNext, Placed
  <2> QED BY <2>2, <2>3
<1>18. WorkInOrder'
  <2>1. \A j \in Importers \ {i} :
          /\ Writing(j)' => /\ (job[j].left \subseteq Placed(job[j].list))'
                            /\ (job[j].own = Snapshots(j, Stored(j)))'
          /\ (job[j].stage \in {"idle", "cleared", "fetching"} => job[j].own = {})'
          /\ \A q \in Players : rowlock'[q] = j => Writing(j)' /\ q \in Stored(j)'
    BY <1>6, <1>12, <1>13
       DEF ImportInv, WorkInOrder, Writing, Stored, Snapshots, SnapshotOf, IsNext
  <2>2. (job[i].own = Snapshots(i, Stored(i)))'
    <3>1. job[i].own = Snapshots(i, Stored(i))
      BY <1>4 DEF ImportInv, WorkInOrder
    <3>2. \A q : SnapshotOf(i, q)' = SnapshotOf(i, q)
      BY <1>6, <1>10, <1>12 DEF SnapshotOf
    <3> QED BY <1>10, <1>12, <1>17, <3>1, <3>2 DEF Snapshots
  <2>3. /\ (job[i].left \subseteq Placed(job[i].list))'
        /\ ~(job[i].stage \in {"idle", "cleared", "fetching"})'
        /\ Writing(i)'
    BY <1>4, <1>10, <1>12 DEF Writing
  <2>4. \A q \in Players : rowlock'[q] = i => q \in Stored(i)'
    BY <1>13, <1>17 DEF ImportInv, WorkInOrder
  <2> QED BY <2>1, <2>2, <2>3, <2>4 DEF WorkInOrder
<1>19. Effects'
  BY <1>4, <1>6, <1>10, <1>12, EffectsFrame DEF ImportInv
<1>20. rowlock[p] # i
  BY <1>4 DEF ImportInv, WorkInOrder, Stored
<1>21. RowsStay'
  <2>1. \A j \in Importers \ {i}, q \in Players :
          /\ Writing(j)' => IF job'[j].loaded[q].stored
                            THEN players'[q].stored ELSE job'[j].loaded[q].salary = NoSalary
          /\ rowlock'[q] = j => job'[j].draft[q].stored
          /\ job'[j].stage = "saving" /\ IsNext(j, q)' =>
               job'[j].loaded[q].stored \/ rowlock'[q] = j
    BY <1>6, <1>12, <1>13 DEF ImportInv, RowsStay, Writing, IsNext
  <2>2. old.stored => players[p].stored
    BY <1>4 DEF ImportInv, RowsStay, old
  <2>3. ASSUME NEW q \in Players
        PROVE  /\ IF job'[i].loaded[q].stored
                  THEN players'[q].stored ELSE job'[i].loaded[q].salary = NoSalary
               /\ rowlock'[q] = i => job'[i].draft[q].stored
    BY <1>4, <1>6, <1>8, <1>10, <1>12, <1>13, <2>2 DEF ImportInv, RowsStay
  <2>4. ASSUME NEW q \in Players, IsNext(i, q)', job'[i].stage = "saving"
        PROVE  job'[i].loaded[q].stored \/ rowlock'[q] = i
    <3>1. IsNext(i, q)
      BY <1>10, <1>12, <2>4 DEF IsNext
    <3>2. q = p
      BY <1>4, <3>1, OneNext DEF ImportInv
    <3> QED BY <1>3, <1>10, <1>12, <1>13, <3>2 DEF Touches, old
  <2>5. \A q \in Players : ~players'[q].stored => players'[q].salary = NoSalary
    BY <1>6 DEF ImportInv, RowsStay
  <2> QED BY <2>1, <2>3, <2>4, <2>5 DEF RowsStay
<1>22. Mirrors'
  <2>1. MirrorReported'
    BY <1>6 DEF ImportInv, Mirrors, MirrorReported
  <2>2. \A j \in Importers \ {i}, q \in Players :
          /\ Writing(j)' /\ job'[j].loaded[q].salary # NoSalary => HasSnapshot(q)'
          /\ Writing(j)' /\ q \in Done(j)' => Reported(j, q, View(j, q).salary)'
          /\ job'[j].stage = "saving" /\ IsNext(j, q)' => Reported(j, q, job[j].want)'
    BY <1>6, <1>12, <1>13
       DEF ImportInv, Mirrors, Writing, IsNext, HasSnapshot, Reported, Done, View
  <2>3. \A q \in Players : job'[i].loaded[q].salary # NoSalary => HasSnapshot(q)'
    BY <1>4, <1>6, <1>10, <1>12 DEF ImportInv, Mirrors, HasSnapshot
  <2>4. ASSUME NEW q \in Done(i)', q # p
        PROVE  Reported(i, q, View(i, q).salary)'
    <3>1. q \in Done(i) /\ q \in Players
      BY <1>10, <1>12, <2>4 DEF Done, Placed
    <3>2. Reported(i, q, View(i, q).salary)
      BY <1>4, <3>1 DEF ImportInv, Mirrors
    <3>3. View(i, q)' = View(i, q)
      BY <1>6, <1>10, <1>12, <1>13, <2>4, <3>1 DEF View
    <3> QED BY <1>6, <1>10, <1>12, <3>2, <3>3 DEF Reported
  <2>5. ASSUME p \in Done(i)'
        PROVE  Reported(i, p, View(i, p).salary)'
    <3>1. same /\ newest = old.salary /\ old.salary # NoSalary
      BY <1>2, <1>4, <1>5, <1>10, <1>12, <2>5, ImportConstants DEF Done
    <3>2. old.stored /\ HasSnapshot(p)
      BY <1>4, <3>1 DEF ImportInv, RowsStay, Mirrors, old
    <3>3. \E s \in snapshots : s.player = p /\ s.salary = players[p].salary
      BY <3>2 DEF ImportInv, Mirrors, MirrorReported, HasSnapshot
    <3>4. row.salary = players[p].salary
      BY <1>4, <3>2 DEF row, Matched, PlayerRow
    <3>5. View(i, p)'.salary = players[p].salary
      BY <1>6, <1>10, <1>12, <1>13, <1>20, <3>4 DEF View
    <3> QED BY <1>6, <3>3, <3>5 DEF Reported
  <2>6. ASSUME NEW q \in Players, IsNext(i, q)', job'[i].stage = "saving"
        PROVE  Reported(i, q, job[i].want)'
    <3>1. IsNext(i, q)
      BY <1>10, <1>12, <2>6 DEF IsNext
    <3>2. q = p
      BY <1>4, <3>1, OneNext DEF ImportInv
    <3> QED BY <1>5, <1>6, <1>10, <1>12, <3>2 DEF Reported, Seen
  <2> QED BY <2>1, <2>2, <2>3, <2>4, <2>5, <2>6 DEF Mirrors
<1> QED BY <1>14, <1>15, <1>16, <1>18, <1>19, <1>21, <1>22 DEF ImportInv

(***************************************************************************)
(* Saving makes of the row, as it is now, one with the salary wanted.      *)
(***************************************************************************)
LEMMA SaveStep ==
  ASSUME ImportInv, NEW i \in Importers, NEW p \in Players, Save(i, p)
  PROVE  \E row \in PlayerRow, new \in Job :
           /\ row.salary = job[i].want /\ row.stored = View(i, p).stored
           /\ new.stage = "writing" /\ new.left = job[i].left \ {p} /\ new.own = job[i].own
           /\ new.run = job[i].run /\ new.list = job[i].list /\ new.loaded = job[i].loaded
           /\ \A q \in Players : new.draft[q] = IF q = p THEN row ELSE job[i].draft[q]
           /\ job' \in [Importers -> Job] /\ job'[i] = new
           /\ \A j \in Importers \ {i} : job'[j] = job[j]
           /\ \A q \in Players : rowlock'[q] = IF q = p THEN i ELSE rowlock[q]
           /\ rowlock' \in [Players -> Importers \union {Nobody}]
           /\ \A j \in Importers \ {i}, q \in Players : rowlock'[q] = j <=> rowlock[q] = j
<1>1. /\ job \in [Importers -> Job] /\ job[i] \in Job
      /\ job[i].stage = "saving" /\ Writing(i) /\ Busy(i)
      /\ job[i].left \subseteq Placed(job[i].list)
      /\ p \in job[i].left /\ p \in Placed(job[i].list) /\ IsNext(i, p)
      /\ rowlock[p] \in {Nobody, i}
      /\ View(i, p) \in PlayerRow
  BY DEF ImportInv, TypeOK, WorkInOrder, Writing, Busy, Save, IsNext, Job, View
<1>2. /\ rowlock' = [rowlock EXCEPT ![p] = i]
      /\ UNCHANGED <<now, runs, players, snapshots>>
  BY DEF Save
<1> DEFINE row == [View(i, p) EXCEPT !.salary = job[i].want]
           draft == [job[i].draft EXCEPT ![p] = row]
           left == job[i].left \ {p}
           w == [job[i] EXCEPT !.draft = draft, !.left = left, !.stage = "writing"]
<1>3. job' = [job EXCEPT ![i] = w]
  <2>1. job' = [job EXCEPT ![i].draft[p] = row,
                           ![i].left = @ \ {p},
                           ![i].stage = "writing"]
    BY DEF Save
  <2> HIDE DEF row
  <2> QED BY <1>1, <2>1 DEF Job
<1>4. row \in PlayerRow /\ row.salary = job[i].want /\ row.stored = View(i, p).stored
  BY <1>1 DEF PlayerRow, Job
<1> HIDE DEF row
<1>5. /\ w \in Job
      /\ w.stage = "writing" /\ w.left = job[i].left \ {p} /\ w.own = job[i].own
      /\ w.run = job[i].run /\ w.list = job[i].list /\ w.loaded = job[i].loaded
      /\ \A q \in Players : w.draft[q] = IF q = p THEN row ELSE job[i].draft[q]
  <2>1. job[i].draft \in [Players -> PlayerRow]
    BY <1>1 DEF Job
  <2>2. /\ draft \in [Players -> PlayerRow]
        /\ \A q \in Players : draft[q] = IF q = p THEN row ELSE job[i].draft[q]
    BY <1>4, <2>1
  <2>3. left \in SUBSET Players
    BY <1>1 DEF Job
  <2> HIDE DEF draft, left
  <2>4. /\ w \in Job
        /\ w.stage = "writing" /\ w.left = left /\ w.own = job[i].own /\ w.draft = draft
        /\ w.run = job[i].run /\ w.list = job[i].list /\ w.loaded = job[i].loaded
    BY <1>1, <2>2, <2>3 DEF Job, Stages
  <2> HIDE DEF w
  <2> QED BY <2>2, <2>4 DEF left
<1>6. PICK new \in Job : new = w
  BY <1>5
<1> HIDE DEF w
<1>7. /\ job' \in [Importers -> Job] /\ job'[i] = new
      /\ \A j \in Importers \ {i} : job'[j] = job[j]
  BY <1>1, <1>3, <1>6
<1>8. /\ \A q \in Players : rowlock'[q] = IF q = p THEN i ELSE rowlock[q]
      /\ rowlock' \in [Players -> Importers \union {Nobody}]
      /\ \A j \in Importers \ {i}, q \in Players : rowlock'[q] = j <=> rowlock[q] = j
  BY <1>1, <1>2, ImportConstants DEF ImportInv, TypeOK
<1> QED BY <1>4, <1>5, <1>6, <1>7, <1>8

(***************************************************************************)
(* The salary saved is one that was reported.                              *)
(***************************************************************************)
LEMMA SaveInv ==
  ASSUME ImportInv, NEW i \in Importers, NEW p \in Players, Save(i, p)
  PROVE  ImportInv'
<1>1. /\ job \in [Importers -> Job] /\ job[i] \in Job
      /\ job[i].stage = "saving" /\ Writing(i) /\ Busy(i)
      /\ job[i].left \subseteq Placed(job[i].list)
      /\ p \in job[i].left /\ p \in Placed(job[i].list) /\ IsNext(i, p)
      /\ rowlock[p] \in {Nobody, i}
      /\ View(i, p) \in PlayerRow
  BY DEF ImportInv, TypeOK, WorkInOrder, Writing, Busy, Save, IsNext, Job, View
<1>2. /\ rowlock' = [rowlock EXCEPT ![p] = i]
      /\ UNCHANGED <<now, runs, players, snapshots>>
  BY DEF Save
<1>3. PICK row \in PlayerRow, new \in Job :
        /\ row.salary = job[i].want /\ row.stored = View(i, p).stored
        /\ new.stage = "writing" /\ new.left = job[i].left \ {p} /\ new.own = job[i].own
        /\ new.run = job[i].run /\ new.list = job[i].list /\ new.loaded = job[i].loaded
        /\ \A q \in Players : new.draft[q] = IF q = p THEN row ELSE job[i].draft[q]
        /\ job' \in [Importers -> Job] /\ job'[i] = new
        /\ \A j \in Importers \ {i} : job'[j] = job[j]
        /\ \A q \in Players : rowlock'[q] = IF q = p THEN i ELSE rowlock[q]
        /\ rowlock' \in [Players -> Importers \union {Nobody}]
        /\ \A j \in Importers \ {i}, q \in Players : rowlock'[q] = j <=> rowlock[q] = j
  BY SaveStep
<1>4. row.salary = job[i].want /\ row.stored = View(i, p).stored
  BY <1>3
<1>5. /\ new.stage = "writing" /\ new.left = job[i].left \ {p} /\ new.own = job[i].own
      /\ new.run = job[i].run /\ new.list = job[i].list /\ new.loaded = job[i].loaded
      /\ \A q \in Players : new.draft[q] = IF q = p THEN row ELSE job[i].draft[q]
  BY <1>3
<1>7. /\ job' \in [Importers -> Job] /\ job'[i] = new
      /\ \A j \in Importers \ {i} : job'[j] = job[j]
  BY <1>3
<1>8. /\ \A q \in Players : rowlock'[q] = IF q = p THEN i ELSE rowlock[q]
      /\ rowlock' \in [Players -> Importers \union {Nobody}]
      /\ \A j \in Importers \ {i}, q \in Players : rowlock'[q] = j <=> rowlock[q] = j
  BY <1>3
<1>9. TypeOK'
  BY <1>2, <1>7, <1>8 DEF ImportInv, TypeOK
<1>10. Stamps'
  BY <1>2 DEF ImportInv, Stamps
<1>11. Owners'
  BY <1>1, <1>2, <1>5, <1>7 DEF ImportInv, Owners, Busy
<1>12. Stored(i)' = Stored(i) /\ p \in Stored(i)
  <2>1. \A q \in Players : IsNext(i, q) => q = p
    BY <1>1, OneNext DEF ImportInv
  <2> QED BY <1>1, <1>5, <1>7, <2>1 DEF Stored, Placed
<1>13. WorkInOrder'
  <2>1. \A j \in Importers \ {i} :
          /\ Writing(j)' => /\ (job[j].left \subseteq Placed(job[j].list))'
                            /\ (job[j].own = Snapshots(j, Stored(j)))'
          /\ (job[j].stage \in {"idle", "cleared", "fetching"} => job[j].own = {})'
          /\ \A q \in Players : rowlock'[q] = j => Writing(j)' /\ q \in Stored(j)'
    BY <1>2, <1>7, <1>8
       DEF ImportInv, WorkInOrder, Writing, Stored, Snapshots, SnapshotOf, IsNext
  <2>2. (job[i].own = Snapshots(i, Stored(i)))'
    <3>1. job[i].own = Snapshots(i, Stored(i))
      BY <1>1 DEF ImportInv, WorkInOrder
    <3>2. \A q : SnapshotOf(i, q)' = SnapshotOf(i, q)
      BY <1>2, <1>5, <1>7 DEF SnapshotOf
    <3> QED BY <1>5, <1>7, <1>12, <3>1, <3>2 DEF Snapshots
  <2>3. /\ (job[i].left \subseteq Placed(job[i].list))'
        /\ ~(job[i].stage \in {"idle", "cleared", "fetching"})'
        /\ Writing(i)'
    BY <1>1, <1>5, <1>7 DEF Writing
  <2>4. \A q \in Players : rowlock'[q] = i => q \in Stored(i)'
    BY <1>8, <1>12 DEF ImportInv, WorkInOrder
  <2> QED BY <2>1, <2>2, <2>3, <2>4 DEF WorkInOrder
<1>14. Effects'
  BY <1>1, <1>2, <1>5, <1>7, EffectsFrame DEF ImportInv
<1>15. RowsStay'
  <2>1. \A j \in Importers \ {i}, q \in Players :
          /\ Writing(j)' => IF job'[j].loaded[q].stored
                            THEN players'[q].stored ELSE job'[j].loaded[q].salary = NoSalary
          /\ rowlock'[q] = j => job'[j].draft[q].stored
          /\ job'[j].stage = "saving" /\ IsNext(j, q)' =>
               job'[j].loaded[q].stored \/ rowlock'[q] = j
    BY <1>2, <1>7, <1>8 DEF ImportInv, RowsStay, Writing, IsNext
  <2>2. row.stored
    BY <1>1, <1>4 DEF ImportInv, RowsStay, View
  <2>3. ASSUME NEW q \in Players
        PROVE  /\ IF job'[i].loaded[q].stored
                  THEN players'[q].stored ELSE job'[i].loaded[q].salary = NoSalary
               /\ rowlock'[q] = i => job'[i].draft[q].stored
               /\ job'[i].stage # "saving"
    BY <1>1, <1>2, <1>5, <1>7, <1>8, <2>2 DEF ImportInv, RowsStay
  <2>4. \A q \in Players : ~players'[q].stored => players'[q].salary = NoSalary
    BY <1>2 DEF ImportInv, RowsStay
  <2> QED BY <2>1, <2>3, <2>4 DEF RowsStay
<1>16. Mirrors'
  <2>1. MirrorReported'
    BY <1>2 DEF ImportInv, Mirrors, MirrorReported
  <2>2. \A j \in Importers \ {i}, q \in Players :
          /\ Writing(j)' /\ job'[j].loaded[q].salary # NoSalary => HasSnapshot(q)'
          /\ Writing(j)' /\ q \in Done(j)' => Reported(j, q, View(j, q).salary)'
          /\ job'[j].stage = "saving" /\ IsNext(j, q)' => Reported(j, q, job[j].want)'
    BY <1>2, <1>7, <1>8
       DEF ImportInv, Mirrors, Writing, IsNext, HasSnapshot, Reported, Done, View
  <2>3. \A q \in Players : job'[i].loaded[q].salary # NoSalary => HasSnapshot(q)'
    BY <1>1, <1>2, <1>5, <1>7 DEF ImportInv, Mirrors, HasSnapshot
  <2>4. ASSUME NEW q \in Done(i)', q # p
        PROVE  Reported(i, q, View(i, q).salary)'
    <3>1. q \in Done(i) /\ q \in Players
      BY <1>5, <1>7, <2>4 DEF Done, Placed
    <3>2. Reported(i, q, View(i, q).salary)
      BY <1>1, <3>1 DEF ImportInv, Mirrors
    <3>3. View(i, q)' = View(i, q)
      BY <1>2, <1>5, <1>7, <1>8, <2>4, <3>1 DEF View
    <3> QED BY <1>2, <1>5, <1>7, <3>2, <3>3 DEF Reported
  <2>5. Reported(i, p, View(i, p).salary)'
    <3>1. Reported(i, p, job[i].want)
      BY <1>1 DEF ImportInv, Mirrors
    <3>2. View(i, p)'.salary = job[i].want
      BY <1>4, <1>5, <1>7, <1>8 DEF View
    <3> QED BY <1>2, <1>5, <1>7, <3>1, <3>2 DEF Reported
  <2>6. job'[i].stage # "saving"
    BY <1>5, <1>7
  <2> QED BY <2>1, <2>2, <2>3, <2>4, <2>5, <2>6 DEF Mirrors
<1> QED BY <1>9, <1>10, <1>11, <1>13, <1>14, <1>15, <1>16 DEF ImportInv

(***************************************************************************)
(* The commit itself: of a run that is no dry run, every row it has been   *)
(* through and every snapshot it stored.                                   *)
(***************************************************************************)
LEMMA ApplyStep ==
  ASSUME ImportInv, NEW i \in Importers, Apply(i)
  PROVE  /\ Stored(i) = Placed(job[i].list) /\ Done(i) = Placed(job[i].list)
         /\ job[i].own = Snapshots(i, Placed(job[i].list))
         /\ \A p \in Players : rowlock[p] = i => p \in Placed(job[i].list)
         /\ \A s \in job[i].own : /\ s \in Snapshot
                                  /\ s.player \in Placed(job[i].list)
                                  /\ s.as_of = runs[job[i].run].started_at
                                  /\ s.as_of < now
         /\ \E new \in Job :
              /\ new.stage = "applied" /\ new.run = job[i].run /\ new.list = job[i].list
              /\ job' \in [Importers -> Job] /\ job'[i] = new
              /\ \A j \in Importers \ {i} : job'[j] = job[j]
              /\ rowlock' \in [Players -> Importers \union {Nobody}]
              /\ \A p \in Players : rowlock'[p] # i
              /\ \A j \in Importers \ {i}, p \in Players : rowlock'[p] = j <=> rowlock[p] = j
              /\ players' \in [Players -> PlayerRow]
              /\ \A p \in Players :
                   IF Keeps(i)
                   THEN players'[p].stored = View(i, p).stored /\ players'[p].salary = View(i, p).salary
                   ELSE players'[p] = players[p]
              /\ snapshots' = IF Keeps(i) THEN snapshots \union job[i].own ELSE snapshots
<1>1. /\ job \in [Importers -> Job] /\ job[i] \in Job
      /\ job[i].stage = "writing" /\ Writing(i) /\ Busy(i)
      /\ job[i].left = {}
      /\ players \in [Players -> PlayerRow]
      /\ job[i].run \in 1..Len(runs)
  BY DEF ImportInv, TypeOK, Apply, Writing, Busy, Owners
<1>2. PICK new \in Job : /\ job' = [job EXCEPT ![i] = new]
                         /\ new.stage = "applied"
                         /\ new.run = job[i].run /\ new.list = job[i].list
  <2> DEFINE w == [job[i] EXCEPT !.stage = "applied"]
  <2>1. /\ w \in Job
        /\ w.stage = "applied" /\ w.run = job[i].run /\ w.list = job[i].list
    BY <1>1 DEF Job, Stages
  <2>2. job' = [job EXCEPT ![i] = w]
    BY DEF Apply
  <2> HIDE DEF w
  <2> QED BY <2>1, <2>2
<1>3. /\ job' \in [Importers -> Job] /\ job'[i] = new
      /\ \A j \in Importers \ {i} : job'[j] = job[j]
  BY <1>1, <1>2
<1>4. now' = now /\ runs' = runs /\ rowlock' = Unlocked(i)
  BY DEF Apply
<1>5. /\ rowlock' \in [Players -> Importers \union {Nobody}]
      /\ \A p \in Players : rowlock'[p] # i
      /\ \A j \in Importers \ {i}, p \in Players : rowlock'[p] = j <=> rowlock[p] = j
  BY <1>4, ImportConstants DEF ImportInv, TypeOK, Unlocked
<1>6. /\ Stored(i) = Placed(job[i].list) /\ Done(i) = Placed(job[i].list)
      /\ job[i].own = Snapshots(i, Placed(job[i].list))
      /\ \A p \in Players : rowlock[p] = i => p \in Placed(job[i].list)
  BY <1>1 DEF ImportInv, WorkInOrder, Stored, Done
<1>7. \A p \in Players : View(i, p) \in PlayerRow
  BY <1>1 DEF View, Job
<1>8. \A s \in job[i].own : /\ s \in Snapshot
                            /\ s.player \in Placed(job[i].list)
                            /\ s.as_of = runs[job[i].run].started_at
                            /\ s.as_of < now
  BY <1>1, <1>6, SeenFacts DEF Snapshots
<1>9. /\ players' \in [Players -> PlayerRow]
      /\ \A p \in Players :
           IF Keeps(i)
           THEN players'[p].stored = View(i, p).stored /\ players'[p].salary = View(i, p).salary
           ELSE players'[p] = players[p]
  <2>1. CASE Keeps(i)
    <3>1. players' = [p \in Players |-> [View(i, p) EXCEPT !.active = @ /\ p \notin Missing(i)]]
      BY <2>1 DEF Apply
    <3>2. \A p \in Players :
            LET row == [View(i, p) EXCEPT !.active = @ /\ p \notin Missing(i)]
            IN row \in PlayerRow /\ row.stored = View(i, p).stored /\ row.salary = View(i, p).salary
      BY <1>7 DEF PlayerRow
    <3> QED BY <2>1, <3>1, <3>2
  <2>2. CASE ~Keeps(i)
    BY <1>1, <2>2 DEF Apply
  <2> QED BY <2>1, <2>2
<1>10. snapshots' = IF Keeps(i) THEN snapshots \union job[i].own ELSE snapshots
  BY DEF Apply
<1> QED BY <1>2, <1>3, <1>5, <1>6, <1>8, <1>9, <1>10

(***************************************************************************)
(* The commit: what was done with every row placed becomes visible at      *)
(* once, and a dry run leaves nothing.                                     *)
(***************************************************************************)
LEMMA ApplyInv ==
  ASSUME ImportInv, NEW i \in Importers, Apply(i)
  PROVE  ImportInv'
<1>1. /\ job \in [Importers -> Job] /\ job[i] \in Job
      /\ job[i].stage = "writing" /\ Writing(i) /\ Busy(i)
      /\ job[i].left = {}
      /\ players \in [Players -> PlayerRow]
      /\ job[i].run \in 1..Len(runs)
  BY DEF ImportInv, TypeOK, Apply, Writing, Busy, Owners
<1>2. PICK new \in Job :
        /\ new.stage = "applied" /\ new.run = job[i].run /\ new.list = job[i].list
        /\ job' \in [Importers -> Job] /\ job'[i] = new
        /\ \A j \in Importers \ {i} : job'[j] = job[j]
        /\ rowlock' \in [Players -> Importers \union {Nobody}]
        /\ \A p \in Players : rowlock'[p] # i
        /\ \A j \in Importers \ {i}, p \in Players : rowlock'[p] = j <=> rowlock[p] = j
        /\ players' \in [Players -> PlayerRow]
        /\ \A p \in Players :
             IF Keeps(i)
             THEN players'[p].stored = View(i, p).stored /\ players'[p].salary = View(i, p).salary
             ELSE players'[p] = players[p]
        /\ snapshots' = IF Keeps(i) THEN snapshots \union job[i].own ELSE snapshots
  BY ApplyStep
<1>3. /\ job' \in [Importers -> Job] /\ job'[i] = new
      /\ \A j \in Importers \ {i} : job'[j] = job[j]
  BY <1>2
<1>4. now' = now /\ runs' = runs
  BY DEF Apply
<1>5. /\ rowlock' \in [Players -> Importers \union {Nobody}]
      /\ \A p \in Players : rowlock'[p] # i
      /\ \A j \in Importers \ {i}, p \in Players : rowlock'[p] = j <=> rowlock[p] = j
  BY <1>2
<1>6. /\ Stored(i) = Placed(job[i].list) /\ Done(i) = Placed(job[i].list)
      /\ job[i].own = Snapshots(i, Placed(job[i].list))
      /\ \A p \in Players : rowlock[p] = i => p \in Placed(job[i].list)
  BY ApplyStep
<1>8. \A s \in job[i].own : /\ s \in Snapshot
                            /\ s.player \in Placed(job[i].list)
                            /\ s.as_of = runs[job[i].run].started_at
                            /\ s.as_of < now
  BY ApplyStep
<1>9. /\ players' \in [Players -> PlayerRow]
      /\ \A p \in Players :
           IF Keeps(i)
           THEN players'[p].stored = View(i, p).stored /\ players'[p].salary = View(i, p).salary
           ELSE players'[p] = players[p]
  BY <1>2
<1>10. snapshots' = IF Keeps(i) THEN snapshots \union job[i].own ELSE snapshots
  BY <1>2
<1>11. snapshots \subseteq snapshots'
  BY <1>10
<1>12. TypeOK'
  BY <1>3, <1>4, <1>5, <1>8, <1>9, <1>10 DEF ImportInv, TypeOK
<1>13. Stamps'
  BY <1>4, <1>8, <1>10 DEF ImportInv, Stamps
<1>14. Owners'
  BY <1>1, <1>2, <1>3, <1>4 DEF ImportInv, Owners, Busy
<1>15. WorkInOrder'
  <2>1. \A j \in Importers \ {i} :
          /\ Writing(j)' => /\ (job[j].left \subseteq Placed(job[j].list))'
                            /\ (job[j].own = Snapshots(j, Stored(j)))'
          /\ (job[j].stage \in {"idle", "cleared", "fetching"} => job[j].own = {})'
          /\ \A q \in Players : rowlock'[q] = j => Writing(j)' /\ q \in Stored(j)'
    BY <1>3, <1>4, <1>5
       DEF ImportInv, WorkInOrder, Writing, Stored, Snapshots, SnapshotOf, IsNext
  <2> QED BY <1>2, <1>3, <1>5, <2>1 DEF WorkInOrder, Writing
<1>16. Effects'
  <2>1. \A r \in 1..Len(runs) : r # job[i].run => Applied(r)' = Applied(r)
    BY <1>1, <1>4, <1>8, <1>10 DEF ImportInv, Stamps, Applied
  <2>2. Applied(job[i].run) = {}
    BY <1>1 DEF ImportInv, Effects
  <2>3. {s \in snapshots' : s.as_of = runs[job[i].run].started_at} =
          IF Keeps(i) THEN Snapshots(i, Placed(job[i].list)) ELSE {}
    BY <1>6, <1>8, <1>10, <2>2 DEF Applied
  <2>4. PICK r \in 1..Len(runs) : r = job[i].run
    BY <1>1
  <2>5. Applied(r)' = IF Keeps(i) THEN Snapshots(i, Placed(job[i].list)) ELSE {}
    BY <1>4, <2>3, <2>4 DEF Applied
  <2>6. runs[r].status = "running" /\ (Keeps(i) <=> ~runs[r].dry_run)
    BY <1>1, <2>4 DEF ImportInv, Owners, Keeps
  <2>7. \A q \in 1..Len(runs) : Real(q)' <=> Real(q)
    BY <1>4 DEF Real
  <2>8. RecordsTellTheTruth'
    <3>1. /\ ~Real(r)' /\ runs[r].status # "failed"
          /\ runs[r].dry_run => Applied(r)' = {}
      BY <2>5, <2>6, <2>7 DEF Real
    <3>2. \A q \in 1..Len(runs) : q # r =>
            /\ runs[q].status = "failed" \/ runs[q].dry_run => Applied(q)' = {}
            /\ Real(q)' => Cardinality(Applied(q)') = runs[q].placed
      BY <2>1, <2>4, <2>7 DEF ImportInv, Effects, RecordsTellTheTruth
    <3> QED BY <1>4, <3>1, <3>2 DEF RecordsTellTheTruth
  <2>9. \A j \in Importers \ {i} :
          Busy(j) => job[j].run \in 1..Len(runs) /\ job[j].run # job[i].run
    BY <1>1 DEF ImportInv, Owners
  <2>10. ASSUME NEW j \in Importers,
                job'[j].stage \in {"fetching", "writing", "saving"}
         PROVE  (Applied(job[j].run) = {})'
    <3>1. j # i /\ Busy(j) /\ job'[j] = job[j] /\ Applied(job[j].run) = {}
      BY <1>2, <1>3, <2>10 DEF ImportInv, Effects, Busy
    <3> QED BY <1>4, <2>1, <2>9, <3>1 DEF Applied
  <2>11. ASSUME NEW j \in Importers, job'[j].stage = "applied", Keeps(j)'
         PROVE  (Applied(job[j].run) = Snapshots(j, Placed(job[j].list)))'
    <3>1. CASE j = i
      <4>1. Keeps(i)
        BY <1>2, <1>3, <1>4, <2>11, <3>1 DEF Keeps
      <4> QED BY <1>2, <1>3, <1>4, <2>3, <3>1, <4>1 DEF Applied, Snapshots, SnapshotOf
    <3>2. CASE j # i
      <4>1. Busy(j) /\ job'[j] = job[j] /\ Keeps(j)
        BY <1>3, <1>4, <2>11, <3>2 DEF Busy, Keeps
      <4>2. Applied(job[j].run) = Snapshots(j, Placed(job[j].list))
        BY <1>3, <2>11, <4>1 DEF ImportInv, Effects
      <4> QED BY <1>4, <2>1, <2>9, <3>2, <4>1, <4>2 DEF Applied, Snapshots, SnapshotOf
    <3> QED BY <3>1, <3>2
  <2> QED BY <2>8, <2>10, <2>11 DEF Effects
<1>17. RowsStay'
  <2>1. \A p \in Players : players[p].stored => players'[p].stored
    BY <1>9 DEF ImportInv, RowsStay, View
  <2>2. \A p \in Players : ~players'[p].stored => players'[p].salary = NoSalary
    BY <1>9 DEF ImportInv, RowsStay, View
  <2> QED BY <1>2, <1>3, <1>5, <2>1, <2>2 DEF ImportInv, RowsStay, Writing, IsNext
<1>18. MirrorReported'
  <2>1. CASE ~Keeps(i)
    BY <1>9, <1>10, <2>1 DEF ImportInv, Mirrors, MirrorReported
  <2>2. ASSUME Keeps(i), NEW p \in Placed(job[i].list)
        PROVE  \E s \in snapshots' : s.player = p /\ s.salary = players'[p].salary
    <3>1. p \in Players /\ Reported(i, p, View(i, p).salary)
      BY <1>1, <1>6, <2>2 DEF ImportInv, Mirrors, Placed
    <3> QED BY <1>9, <1>10, <2>2, <3>1 DEF Reported
  <2>3. ASSUME Keeps(i), NEW p \in Players, p \notin Placed(job[i].list)
        PROVE  /\ players'[p].salary = players[p].salary
               /\ \A s \in snapshots' : s.player = p => s \in snapshots
    BY <1>6, <1>8, <1>9, <1>10, <2>3 DEF View
  <2>4. CASE Keeps(i)
    BY <1>11, <2>2, <2>3, <2>4 DEF ImportInv, Mirrors, MirrorReported
  <2> QED BY <2>1, <2>4
<1>19. Mirrors'
  <2>1. \A p : HasSnapshot(p) => HasSnapshot(p)'
    BY <1>11 DEF HasSnapshot
  <2>2. ASSUME NEW j \in Importers, Writing(j)', NEW p \in Players, p \in Done(j)'
        PROVE  Reported(j, p, View(j, p).salary)'
    <3>1. j # i /\ job'[j] = job[j] /\ Writing(j) /\ p \in Done(j)
      BY <1>2, <1>3, <2>2 DEF Writing, Done
    <3>2. Reported(j, p, View(j, p).salary)
      BY <3>1 DEF ImportInv, Mirrors
    <3>3. CASE rowlock[p] = j
      <4>1. View(j, p)' = View(j, p)
        BY <1>5, <3>1, <3>3 DEF View
      <4> QED BY <1>11, <3>1, <3>2, <4>1 DEF Reported
    <3>4. CASE rowlock[p] # j
      <4>1. PICK s \in snapshots \union job[j].own : s.player = p /\ s.salary = players[p].salary
        BY <3>2, <3>4 DEF Reported, View
      <4>2. s \in Snapshot
        BY <3>1, <4>1 DEF ImportInv, TypeOK, Job
      <4>3. HasSnapshot(p)
        BY <4>1, <4>2, ImportConstants
           DEF ImportInv, Mirrors, MirrorReported, HasSnapshot, Snapshot
      <4>4. \E t \in snapshots' : t.player = p /\ t.salary = players'[p].salary
        BY <1>18, <2>1, <4>3 DEF MirrorReported, HasSnapshot
      <4>5. View(j, p)' = players'[p]
        BY <1>5, <3>1, <3>4 DEF View
      <4> QED BY <4>4, <4>5 DEF Reported
    <3> QED BY <3>3, <3>4
  <2>3. ASSUME NEW j \in Importers, NEW p \in Players
        PROVE  /\ Writing(j)' /\ job'[j].loaded[p].salary # NoSalary => HasSnapshot(p)'
               /\ job'[j].stage = "saving" /\ IsNext(j, p)' => Reported(j, p, job[j].want)'
    <3>1. CASE j = i
      BY <1>2, <1>3, <3>1 DEF Writing
    <3>2. CASE j # i
      BY <1>3, <1>11, <2>1, <3>2 DEF ImportInv, Mirrors, Writing, IsNext, Reported
    <3> QED BY <3>1, <3>2
  <2> QED BY <1>18, <2>2, <2>3 DEF Mirrors
<1> QED BY <1>12, <1>13, <1>14, <1>15, <1>16, <1>17, <1>19 DEF ImportInv

-----------------------------------------------------------------------------
(* The theorems *)

LEMMA NextInv == ImportInv /\ [Next]_vars => ImportInv'
<1> SUFFICES ASSUME ImportInv, [Next]_vars PROVE ImportInv'
  OBVIOUS
<1>1. CASE Tick
  BY <1>1, TickInv
<1>2. ASSUME NEW i \in Importers, Import(i) PROVE ImportInv'
  <2>1. CASE Start(i)
    BY <2>1, StartInv
  <2>2. CASE \E dry_run \in BOOLEAN : CreateRun(i, dry_run)
    BY <2>2, CreateRunInv
  <2>3. CASE FetchFails(i)
    BY <2>3, FetchFailsInv
  <2>4. CASE \E list \in Lists : Load(i, list)
    BY <2>4, LoadInv
  <2>5. CASE \E p \in Players : Record(i, p)
    BY <2>5, RecordInv
  <2>6. CASE \E p \in Players : Save(i, p)
    BY <2>6, SaveInv
  <2>7. CASE Apply(i)
    BY <2>7, ApplyInv
  <2>8. CASE Finish(i)
    BY <2>8, FinishInv
  <2>9. CASE Abort(i)
    BY <2>9, AbortInv
  <2>10. CASE Crash(i)
    BY <2>10, CrashInv
  <2> QED BY <1>2, <2>1, <2>2, <2>3, <2>4, <2>5, <2>6, <2>7, <2>8, <2>9, <2>10 DEF Import
<1>3. CASE UNCHANGED vars
  <2>1. UNCHANGED <<now, runs, players, snapshots, rowlock, job>>
    BY <1>3 DEF vars
  <2>2. TypeOK' /\ Stamps' /\ Owners'
    BY <2>1 DEF ImportInv, TypeOK, Stamps, Owners, Busy
  <2>3. WorkInOrder'
    BY <2>1 DEF ImportInv, WorkInOrder, Writing, Stored, Snapshots, SnapshotOf, IsNext
  <2>4. Effects'
    BY <2>1, EffectsFrame DEF ImportInv
  <2>5. RowsStay' /\ Mirrors'
    BY <2>1 DEF ImportInv, RowsStay, Mirrors, MirrorReported, Writing, IsNext, HasSnapshot,
                Reported, Done, View
  <2> QED BY <2>2, <2>3, <2>4, <2>5 DEF ImportInv
<1> QED BY <1>1, <1>2, <1>3 DEF Next

(***************************************************************************)
(* The inductive invariant of any number of overlapping imports.           *)
(***************************************************************************)
THEOREM ImportInvariant == Spec => []ImportInv
<1> QED BY InitInv, NextInv, PTL DEF Spec

(***************************************************************************)
(* Runs, players, snapshots and what importers hold keep their types.      *)
(***************************************************************************)
THEOREM ImportTypeCorrect == Spec => []TypeOK
<1>1. ImportInv => TypeOK
  BY DEF ImportInv
<1> QED BY <1>1, ImportInvariant, PTL

(***************************************************************************)
(* A run applies completely or not at all, and its record says which,      *)
(* however many imports overlap and wherever they are killed.              *)
(***************************************************************************)
THEOREM RunsTellTheTruth == Spec => []RecordsTellTheTruth
<1>1. ImportInv => RecordsTellTheTruth
  BY DEF ImportInv, Effects
<1> QED BY <1>1, ImportInvariant, PTL

(***************************************************************************)
(* A player shows a salary some snapshot reported, and none exactly until  *)
(* he has a snapshot, however imports overlap.                             *)
(***************************************************************************)
THEOREM SalariesAreReported == Spec => []MirrorReported
<1>1. ImportInv => MirrorReported
  BY DEF ImportInv, Mirrors
<1> QED BY <1>1, ImportInvariant, PTL

-----------------------------------------------------------------------------
(* Imports that do not overlap *)

(***************************************************************************)
(* Until its transaction commits, a run is later than every snapshot; the  *)
(* rows as it loaded them are the rows as they are; and it has given, or   *)
(* is about to give, every row it has been through the listed salary.      *)
(***************************************************************************)
LaterThanAll ==
  \A i \in Importers : job[i].stage \in {"fetching", "writing", "saving"} =>
    \A s \in snapshots : s.as_of < runs[job[i].run].started_at

LoadedStands == \A i \in Importers : Writing(i) => job[i].loaded = players

AsListed ==
  \A i \in Importers, p \in Players :
    /\ Writing(i) /\ p \in Done(i) => View(i, p).salary = job[i].list[p]
    /\ job[i].stage = "saving" /\ IsNext(i, p) => job[i].want = job[i].list[p]

AloneInv == ImportInv /\ ~Overlap /\ MirrorNewest /\ LaterThanAll /\ LoadedStands /\ AsListed

(***************************************************************************)
(* A newest snapshot that is later than all the player's others is the one *)
(* NewestSalary chooses.                                                   *)
(***************************************************************************)
LEMMA LatestIsNewest ==
  ASSUME NEW rows, NEW s \in rows, NEW p, s.player = p, s.as_of \in Nat,
         \A t \in rows : t.player = p /\ t # s => t.as_of \in Nat /\ t.as_of < s.as_of
  PROVE  NewestSalary(rows, p) = s.salary
<1> DEFINE of_p == {t \in rows : t.player = p}
           newest == CHOOSE t \in of_p : \A u \in of_p : u.as_of <= t.as_of
<1>1. s \in of_p /\ \A u \in of_p : u.as_of <= s.as_of
  OBVIOUS
<1>2. newest \in of_p /\ \A u \in of_p : u.as_of <= newest.as_of
  <2> HIDE DEF of_p
  <2> QED BY <1>1
<1>3. newest = s
  <2> HIDE DEF newest
  <2> QED BY <1>2
<1>4. NewestSalary(rows, p) = newest.salary
  BY DEF NewestSalary
<1> HIDE DEF newest
<1> QED BY <1>3, <1>4

(***************************************************************************)
(* With the others idle, the newest salary an importer sees of a player it *)
(* records is the one on its list.                                         *)
(***************************************************************************)
LEMMA SeenIsListed ==
  ASSUME AloneInv, NEW i \in Importers, job[i].stage = "writing",
         NEW p \in Players, IsNext(i, p)
  PROVE  NewestSalary(Seen(i, p), p) = job[i].list[p]
<1>1. /\ ImportInv /\ Writing(i) /\ Busy(i)
      /\ job[i].left \subseteq Placed(job[i].list) /\ p \in Placed(job[i].list)
      /\ job[i].own = Snapshots(i, Stored(i))
      /\ p \notin Stored(i)
  BY DEF AloneInv, ImportInv, WorkInOrder, Writing, Busy, Stored, IsNext
<1> DEFINE mine == SnapshotOf(i, p)
<1>2. mine.player = p /\ mine.salary = job[i].list[p] /\ mine \in Seen(i, p)
  BY DEF SnapshotOf, Seen
<1>3. mine \in Snapshot /\ mine.as_of = runs[job[i].run].started_at
  BY <1>1, SeenFacts
<1>4. mine.as_of \in Nat
  BY <1>3 DEF Snapshot
<1>5. \A t \in job[i].own : t.player # p
  BY <1>1 DEF Snapshots, SnapshotOf
<1>6. \A t \in snapshots : t.as_of \in Nat /\ t.as_of < mine.as_of
  BY <1>1, <1>3 DEF AloneInv, LaterThanAll, ImportInv, TypeOK, Snapshot
<1> HIDE DEF mine
<1>7. \A t \in Seen(i, p) : t.player = p /\ t # mine => t.as_of \in Nat /\ t.as_of < mine.as_of
  BY <1>5, <1>6 DEF Seen, mine
<1> QED BY <1>2, <1>4, <1>7, LatestIsNewest

LEMMA AloneRecord ==
  ASSUME AloneInv, NEW i \in Importers, NEW p \in Players, Record(i, p)
  PROVE  LaterThanAll' /\ LoadedStands' /\ AsListed' /\ MirrorNewest'
<1> DEFINE old == job[i].loaded[p]
           row == Matched(old, players[p])
<1>1. PICK newest \in Salaries, same \in BOOLEAN, touches \in BOOLEAN, new \in Job :
        /\ newest = NewestSalary(Seen(i, p), p)
        /\ same <=> newest = old.salary
        /\ new.stage = (IF same THEN "writing" ELSE "saving")
        /\ new.left = (IF same THEN job[i].left \ {p} ELSE job[i].left)
        /\ new.run = job[i].run /\ new.list = job[i].list /\ new.loaded = job[i].loaded
        /\ new.want = newest
        /\ \A q \in Players : new.draft[q] = IF q = p /\ touches THEN row ELSE job[i].draft[q]
        /\ job' \in [Importers -> Job] /\ job'[i] = new
        /\ \A j \in Importers \ {i} : job'[j] = job[j]
        /\ \A q \in Players : rowlock'[q] = IF q = p /\ touches THEN i ELSE rowlock[q]
  BY RecordStep DEF AloneInv
<1>2. /\ ImportInv /\ job[i].stage = "writing" /\ Writing(i) /\ IsNext(i, p)
      /\ p \in Placed(job[i].list) /\ p \in job[i].left
      /\ UNCHANGED <<now, runs, players, snapshots>>
  BY DEF AloneInv, ImportInv, WorkInOrder, Writing, Record, IsNext
<1>3. \A j \in Importers \ {i} : ~Writing(j)
  BY <1>2 DEF AloneInv, Overlap, Writing
<1>4. newest = job[i].list[p]
  BY <1>1, <1>2, SeenIsListed
<1>5. rowlock[p] # i
  BY <1>2 DEF ImportInv, WorkInOrder, Stored
<1>6. old.salary = players[p].salary
  BY <1>2 DEF AloneInv, LoadedStands
<1>7. old.stored => row.salary = players[p].salary
  BY <1>2 DEF ImportInv, TypeOK, Matched, PlayerRow
<1>8. ~old.stored => old.salary = NoSalary
  BY <1>2 DEF ImportInv, RowsStay
<1> HIDE DEF old, row
<1>9. LaterThanAll'
  BY <1>1, <1>2 DEF AloneInv, LaterThanAll
<1>10. LoadedStands'
  BY <1>1, <1>2, <1>3 DEF AloneInv, LoadedStands, Writing
<1>11. ASSUME NEW q \in Players, q \in Done(i)'
       PROVE  View(i, q)'.salary = job'[i].list[q]
  <2>1. CASE q = p
    <3>1. same
      BY <1>1, <1>2, <1>11, <2>1 DEF Done
    <3>2. players[p].salary = job[i].list[p] /\ old.stored
      BY <1>1, <1>4, <1>6, <1>8, <3>1, ImportConstants
    <3> QED BY <1>1, <1>2, <1>5, <1>7, <2>1, <3>2 DEF View
  <2>2. CASE q # p
    <3>1. q \in Done(i)
      BY <1>1, <1>11, <2>2 DEF Done
    <3>2. View(i, q).salary = job[i].list[q]
      BY <1>2, <3>1 DEF AloneInv, AsListed
    <3>3. View(i, q)' = View(i, q)
      BY <1>1, <1>2, <2>2 DEF View
    <3> QED BY <1>1, <3>2, <3>3
  <2> QED BY <2>1, <2>2
<1>12. ASSUME NEW q \in Players, job'[i].stage = "saving", IsNext(i, q)'
       PROVE  job'[i].want = job'[i].list[q]
  <2>1. IsNext(i, q)
    BY <1>1, <1>12 DEF IsNext
  <2>2. q = p
    BY <1>2, <2>1, OneNext DEF ImportInv
  <2> QED BY <1>1, <1>4, <2>2
<1>13. AsListed'
  BY <1>1, <1>3, <1>11, <1>12 DEF AsListed, Writing
<1>14. MirrorNewest'
  BY <1>2 DEF AloneInv, MirrorNewest
<1> QED BY <1>9, <1>10, <1>13, <1>14

LEMMA AloneSave ==
  ASSUME AloneInv, NEW i \in Importers, NEW p \in Players, Save(i, p)
  PROVE  LaterThanAll' /\ LoadedStands' /\ AsListed' /\ MirrorNewest'
<1>1. PICK row \in PlayerRow, new \in Job :
        /\ row.salary = job[i].want
        /\ new.stage = "writing" /\ new.left = job[i].left \ {p}
        /\ new.run = job[i].run /\ new.list = job[i].list /\ new.loaded = job[i].loaded
        /\ \A q \in Players : new.draft[q] = IF q = p THEN row ELSE job[i].draft[q]
        /\ job' \in [Importers -> Job] /\ job'[i] = new
        /\ \A j \in Importers \ {i} : job'[j] = job[j]
        /\ \A q \in Players : rowlock'[q] = IF q = p THEN i ELSE rowlock[q]
  BY SaveStep DEF AloneInv
<1>2. /\ ImportInv /\ job[i].stage = "saving" /\ Writing(i) /\ IsNext(i, p)
      /\ UNCHANGED <<now, runs, players, snapshots>>
  BY DEF AloneInv, Writing, Save
<1>3. \A j \in Importers \ {i} : ~Writing(j)
  BY <1>2 DEF AloneInv, Overlap, Writing
<1>4. job[i].want = job[i].list[p]
  BY <1>2 DEF AloneInv, AsListed
<1>5. LaterThanAll'
  BY <1>1, <1>2 DEF AloneInv, LaterThanAll
<1>6. LoadedStands'
  BY <1>1, <1>2, <1>3 DEF AloneInv, LoadedStands, Writing
<1>7. ASSUME NEW q \in Players, q \in Done(i)'
      PROVE  View(i, q)'.salary = job'[i].list[q]
  <2>1. CASE q = p
    BY <1>1, <1>4, <2>1 DEF View
  <2>2. CASE q # p
    <3>1. q \in Done(i)
      BY <1>1, <1>7, <2>2 DEF Done
    <3>2. View(i, q).salary = job[i].list[q]
      BY <1>2, <3>1 DEF AloneInv, AsListed
    <3>3. View(i, q)' = View(i, q)
      BY <1>1, <1>2, <2>2 DEF View
    <3> QED BY <1>1, <3>2, <3>3
  <2> QED BY <2>1, <2>2
<1>8. AsListed'
  BY <1>1, <1>3, <1>7 DEF AsListed, Writing
<1>9. MirrorNewest'
  BY <1>2 DEF AloneInv, MirrorNewest
<1> QED BY <1>5, <1>6, <1>8, <1>9

(***************************************************************************)
(* The commit makes the run's own snapshots the newest of the players it   *)
(* placed, who now show the listed salary; nothing of the others changes.  *)
(***************************************************************************)
LEMMA AloneApply ==
  ASSUME AloneInv, NEW i \in Importers, Apply(i)
  PROVE  LaterThanAll' /\ LoadedStands' /\ AsListed' /\ MirrorNewest'
<1>1. /\ Done(i) = Placed(job[i].list)
      /\ job[i].own = Snapshots(i, Placed(job[i].list))
      /\ \A p \in Players : rowlock[p] = i => p \in Placed(job[i].list)
      /\ \A s \in job[i].own : /\ s \in Snapshot
                               /\ s.player \in Placed(job[i].list)
                               /\ s.as_of = runs[job[i].run].started_at
  BY ApplyStep DEF AloneInv
<1>2. /\ job'[i].stage = "applied"
      /\ \A j \in Importers \ {i} : job'[j] = job[j]
      /\ \A p \in Players : IF Keeps(i) THEN players'[p].salary = View(i, p).salary
                                        ELSE players'[p] = players[p]
      /\ snapshots' = IF Keeps(i) THEN snapshots \union job[i].own ELSE snapshots
  BY ApplyStep DEF AloneInv
<1>3. ImportInv /\ job[i].stage = "writing" /\ Writing(i) /\ Busy(i)
  BY DEF AloneInv, Apply, Writing, Busy
<1>4. \A j \in Importers \ {i} : job[j].stage = "idle"
  BY <1>3 DEF AloneInv, Overlap
<1>5. \A j \in Importers : job'[j].stage \in {"idle", "applied"}
  BY <1>2, <1>4
<1>6. LaterThanAll' /\ LoadedStands' /\ AsListed'
  BY <1>5 DEF LaterThanAll, LoadedStands, AsListed, Writing
<1>7. CASE ~Keeps(i)
  <2>1. \A s \in snapshots : s.player \in Players
    BY <1>3 DEF ImportInv, TypeOK, Snapshot
  <2> QED BY <1>2, <1>6, <1>7, <2>1 DEF AloneInv, MirrorNewest
<1>8. CASE Keeps(i)
  <2>1. \A s \in snapshots : s \in Snapshot /\ s.as_of < runs[job[i].run].started_at
    BY <1>3 DEF AloneInv, LaterThanAll, ImportInv, TypeOK
  <2>2. ASSUME NEW s \in snapshots',
               \A t \in snapshots' : t.player = s.player => t.as_of <= s.as_of
        PROVE  players'[s.player].salary = s.salary
    <3>1. CASE s \in job[i].own
      <4>1. PICK p \in Placed(job[i].list) : s = SnapshotOf(i, p)
        BY <1>1, <3>1 DEF Snapshots
      <4>2. p \in Players /\ s.player = p /\ s.salary = job[i].list[p]
        BY <4>1 DEF SnapshotOf, Placed
      <4>3. View(i, p).salary = job[i].list[p]
        BY <1>1, <1>3, <4>1, <4>2 DEF AloneInv, AsListed
      <4> QED BY <1>2, <1>8, <4>2, <4>3
    <3>2. CASE s \in snapshots
      <4>1. s.player \in Players /\ s.as_of \in Nat
        BY <2>1, <3>2 DEF Snapshot
      <4>2. s.player \notin Placed(job[i].list)
        <5>1. SUFFICES ASSUME s.player \in Placed(job[i].list) PROVE FALSE
          OBVIOUS
        <5> DEFINE t == SnapshotOf(i, s.player)
        <5>2. t \in job[i].own /\ t.player = s.player
          BY <1>1, <5>1 DEF Snapshots, SnapshotOf
        <5> HIDE DEF t
        <5>3. t.as_of = runs[job[i].run].started_at /\ t \in Snapshot
          BY <1>1, <5>2
        <5>4. t.as_of \in Nat /\ t.as_of <= s.as_of
          BY <1>2, <1>8, <2>2, <5>2, <5>3 DEF Snapshot
        <5> QED BY <2>1, <3>2, <4>1, <5>3, <5>4
      <4>3. players'[s.player].salary = players[s.player].salary
        BY <1>1, <1>2, <1>8, <4>1, <4>2 DEF View
      <4>4. players[s.player].salary = s.salary
        BY <1>2, <1>8, <2>2, <3>2 DEF AloneInv, MirrorNewest
      <4> QED BY <4>3, <4>4
    <3> QED BY <1>2, <1>8, <2>2, <3>1, <3>2
  <2> QED BY <1>6, <2>2 DEF MirrorNewest
<1> QED BY <1>7, <1>8

(***************************************************************************)
(* A step that commits nothing and after which nobody is between his run   *)
(* and his commit.                                                         *)
(***************************************************************************)
LEMMA AloneQuiet ==
  ASSUME AloneInv, UNCHANGED <<players, snapshots>>,
         \A j \in Importers : job'[j].stage \in {"idle", "cleared", "applied"}
  PROVE  LaterThanAll' /\ LoadedStands' /\ AsListed' /\ MirrorNewest'
BY DEF AloneInv, LaterThanAll, LoadedStands, AsListed, Writing, MirrorNewest

(***************************************************************************)
(* Every step of an importer, the others being idle.                       *)
(***************************************************************************)
LEMMA AloneImport ==
  ASSUME AloneInv, NEW i \in Importers, Import(i), ~Overlap'
  PROVE  LaterThanAll' /\ LoadedStands' /\ AsListed' /\ MirrorNewest'
<1>1. ImportInv /\ job \in [Importers -> Job] /\ runs \in Seq(Run) /\ now \in Nat
  BY DEF AloneInv, ImportInv, TypeOK
<1>2. CASE Start(i)
  <2>1. \A j \in Importers : job'[j].stage = "cleared" \/ job'[j] = job[j]
    BY <1>1, <1>2 DEF Start, Job
  <2>2. job'[i].stage = "cleared"
    BY <1>1, <1>2 DEF Start, Job
  <2>3. \A j \in Importers : job'[j].stage \in {"idle", "cleared"}
    BY <2>1, <2>2 DEF Overlap
  <2> QED BY <1>2, <2>3, AloneQuiet DEF Start
<1>3. ASSUME NEW dry_run \in BOOLEAN, CreateRun(i, dry_run)
      PROVE  LaterThanAll' /\ LoadedStands' /\ AsListed' /\ MirrorNewest'
  <2> DEFINE n == Len(runs) + 1
             new == [status |-> "running", started_at |-> now, dry_run |-> dry_run,
                     rows |-> 0, placed |-> 0]
  <2>1. runs' = Append(runs, new) /\ new \in Run /\ new.started_at = now
    BY <1>1, <1>3 DEF CreateRun, Run
  <2> HIDE DEF new
  <2>2. runs'[n].started_at = now
    BY <1>1, <2>1
  <2>3. /\ job'[i].stage = "fetching" /\ job'[i].run = n
        /\ \A j \in Importers \ {i} : job'[j] = job[j]
        /\ UNCHANGED <<players, snapshots>>
    <3>1. job[i] \in Job /\ job' = [job EXCEPT ![i].stage = "fetching", ![i].run = n]
      BY <1>1, <1>3 DEF CreateRun
    <3> HIDE DEF n
    <3> QED BY <1>1, <1>3, <3>1 DEF CreateRun, Job
  <2> HIDE DEF n
  <2>4. \A j \in Importers \ {i} : job'[j].stage = "idle"
    BY <2>3 DEF Overlap
  <2>5. LaterThanAll'
    BY <1>1, <2>2, <2>3, <2>4 DEF ImportInv, Stamps, LaterThanAll
  <2> QED BY <2>3, <2>4, <2>5 DEF LoadedStands, AsListed, Writing, AloneInv, MirrorNewest
<1>4. ASSUME job' = [job EXCEPT ![i] = NoJob], UNCHANGED <<players, snapshots>>,
             job[i].stage # "idle"
      PROVE  LaterThanAll' /\ LoadedStands' /\ AsListed' /\ MirrorNewest'
  <2>1. \A j \in Importers : job'[j].stage = "idle"
    BY <1>1, <1>4 DEF NoJob, AloneInv, Overlap
  <2> QED BY <1>4, <2>1, AloneQuiet
<1>5. CASE FetchFails(i)
  BY <1>4, <1>5 DEF FetchFails, Fail
<1>6. ASSUME NEW list \in Lists, Load(i, list)
      PROVE  LaterThanAll' /\ LoadedStands' /\ AsListed' /\ MirrorNewest'
  <2>1. /\ job[i] \in Job /\ job[i].stage = "fetching" /\ Busy(i)
        /\ UNCHANGED <<now, runs, players, snapshots, rowlock>>
    BY <1>1, <1>6 DEF Load, Busy
  <2>2. /\ job'[i].stage = "writing" /\ job'[i].run = job[i].run
        /\ job'[i].loaded = players /\ job'[i].left = Placed(job'[i].list)
        /\ \A j \in Importers \ {i} : job'[j] = job[j]
    BY <1>1, <1>6, <2>1 DEF Load, Job
  <2>3. \A j \in Importers \ {i} : job'[j].stage = "idle"
    BY <2>2 DEF Overlap
  <2>4. LaterThanAll'
    BY <2>1, <2>2, <2>3 DEF AloneInv, LaterThanAll
  <2>5. LoadedStands' /\ AsListed'
    BY <2>1, <2>2, <2>3 DEF LoadedStands, AsListed, Writing, Done
  <2> QED BY <2>1, <2>4, <2>5 DEF AloneInv, MirrorNewest
<1>7. CASE \E p \in Players : Record(i, p)
  BY <1>7, AloneRecord
<1>8. CASE \E p \in Players : Save(i, p)
  BY <1>8, AloneSave
<1>9. CASE Apply(i)
  BY <1>9, AloneApply
<1>10. CASE Finish(i)
  BY <1>4, <1>10 DEF Finish
<1>11. CASE Abort(i)
  BY <1>4, <1>11 DEF Abort, Fail
<1>12. CASE Crash(i)
  BY <1>4, <1>12 DEF Crash
<1> QED BY <1>2, <1>3, <1>5, <1>6, <1>7, <1>8, <1>9, <1>10, <1>11, <1>12 DEF Import

LEMMA AloneInit == Init /\ ~Overlap => AloneInv
<1> SUFFICES ASSUME Init, ~Overlap PROVE AloneInv
  OBVIOUS
<1>1. ImportInv
  BY InitInv
<1>2. \A i \in Importers : job[i].stage = "idle"
  BY DEF Init, NoJob
<1>3. LaterThanAll /\ LoadedStands /\ AsListed /\ MirrorNewest
  BY <1>2 DEF Init, LaterThanAll, LoadedStands, AsListed, Writing, MirrorNewest
<1> QED BY <1>1, <1>3 DEF AloneInv

LEMMA AloneNext == AloneInv /\ [Next]_vars /\ ~Overlap' => AloneInv'
<1> SUFFICES ASSUME AloneInv, [Next]_vars, ~Overlap' PROVE AloneInv'
  OBVIOUS
<1>1. ImportInv'
  BY NextInv DEF AloneInv
<1>2. ASSUME UNCHANGED <<runs, players, snapshots, rowlock, job>>
      PROVE  ~Overlap' /\ LaterThanAll' /\ LoadedStands' /\ AsListed' /\ MirrorNewest'
  <2>1. ~Overlap'
    BY <1>2 DEF AloneInv, Overlap
  <2>2. LaterThanAll' /\ LoadedStands' /\ MirrorNewest'
    BY <1>2 DEF AloneInv, LaterThanAll, LoadedStands, MirrorNewest, Writing
  <2>3. AsListed'
    BY <1>2 DEF AloneInv, AsListed, Writing, Done, View, IsNext
  <2> QED BY <2>1, <2>2, <2>3
<1>3. CASE UNCHANGED vars
  BY <1>1, <1>2, <1>3 DEF vars, AloneInv
<1>4. CASE Tick
  BY <1>1, <1>2, <1>4 DEF Tick, AloneInv
<1>5. ASSUME NEW i \in Importers, Import(i)
      PROVE  AloneInv'
  BY <1>1, <1>5, AloneImport DEF AloneInv
<1> QED BY <1>3, <1>4, <1>5 DEF Next

(***************************************************************************)
(* As long as no import begins before the one before it has stopped, every *)
(* player shows the salary of his newest snapshot: the cache that          *)
(* record_snapshot keeps is right, through failed, killed and dry runs.    *)
(***************************************************************************)
THEOREM ThePriceShownIsTheNewest == Spec => NewestUnlessOverlapping
<1>1. AloneInv => MirrorNewest
  BY DEF AloneInv
<1>2. Spec /\ []~Overlap => []MirrorNewest
  BY <1>1, AloneInit, AloneNext, PTL DEF Spec
<1> QED BY <1>2, PTL DEF NewestUnlessOverlapping

=============================================================================
