--------------------------- MODULE DreamTeamProofs ---------------------------
(***************************************************************************)
(* Proofs about the Dream Team, for any number of servers that refresh it, *)
(* any imports, players and rules: whatever refreshes overlap, fail or are *)
(* killed, a stored team is a legal one with all of its picks.             *)
(***************************************************************************)
EXTENDS DreamTeam, FiniteSetTheorems, FunctionTheorems, WellFoundedInduction, TLAPS

-----------------------------------------------------------------------------
(* The inductive invariant *)

Fields == DOMAIN Idle

Storing == {"store", "replace", "commit"}

\* Every player at most once.
OneEach(rows) ==
  /\ \A c \in rows : c.player \in Players
  /\ \A c, d \in rows : c.player = d.player => c = d

\* What a refresh has read, has found and holds.
JobFits(j) ==
  /\ DOMAIN j = Fields
  /\ j.pc \in {"idle", "importing", "next", "points", "solve", "remove", "drop"} \union Storing
  /\ j.todo \subseteq Moments /\ (j.pc = "next" => j.todo # {})
  /\ j.pc \notin {"idle", "importing", "next"} => j.as_of \in Moments
  /\ OneEach(j.pool)
  /\ j.pc \in Storing => j.team \subseteq j.pool /\ Legal(j.team, j.season.budget)
  /\ j.holds = CASE j.pc = "replace" -> {"team"} [] j.pc = "commit" -> {"team", "picks"}
                 [] j.pc = "drop" -> {"picks"} [] OTHER -> {}

\* Whoever has the picks of a moment locked has all of them, and removes some.
Sees(j) ==
  /\ j.pc \in {"commit", "drop"} => j.gone = picks[j.as_of]
  /\ j.pc = "drop" => j.gone # {}

\* Of one moment nobody holds what another one holds.
Exclusive ==
  \A v, w \in Workers : v # w /\ job[v].as_of = job[w].as_of => job[v].holds \intersect job[w].holds = {}

\* One import at a time, as long as there is another one to come.
ImportsInTurn ==
  /\ imports \subseteq Moments
  /\ \A v, w \in Workers : At(v, "importing") /\ At(w, "importing") => v = w
  /\ (\E w \in Workers : At(w, "importing")) => imports # Moments

\* A stored team with its picks.
Whole(m) ==
  /\ m \in DOMAIN teams <=> picks[m] # {}
  /\ OneEach(picks[m])
  /\ m \in DOMAIN teams =>
       /\ Legal(picks[m], teams[m].budget)
       /\ teams[m].total_salary = MapThenSumSet(Salary, picks[m])
       /\ teams[m].total_fp = MapThenSumSet(Points, picks[m])
       /\ {c \in picks[m] : c.games_played > 0} \subseteq teams[m].pool

Shape ==
  /\ DOMAIN job = Workers /\ DOMAIN picks = Moments /\ DOMAIN teams \subseteq Moments
  /\ \A w \in Workers : JobFits(job[w])

DreamInv ==
  /\ Shape /\ Exclusive /\ ImportsInTurn
  /\ \A w \in Workers : Sees(job[w])
  /\ \A m \in Moments : Whole(m)

-----------------------------------------------------------------------------
(* Moments, and players with their prices and points *)

\* A set of moments has a first and a last one.
LEMMA MomentsHaveEnds ==
  ASSUME DreamTeamConstants, NEW S \in SUBSET Moments, S # {}
  PROVE  /\ Min(S) \in S /\ Max(S) \in S
         /\ \A m \in S : m \in Nat /\ m <= Max(S)
<1> DEFINE n == Cardinality(Moments)
           R == OpToRel(<, Nat)
           back == {n - m : m \in S}
<1>1. n \in Nat /\ Moments = 1..n
  <2>1. Moments = 1..n
    BY DEF DreamTeamConstants, Moments
  <2>2. n \in Nat
    BY FS_CardinalityType DEF DreamTeamConstants, Moments
  <2> QED BY <2>1, <2>2
<1>2. IsWellFoundedOn(R, Nat)
  BY NatLessThanWellFounded
<1>3. \A x, y \in Nat : y < x => <<y, x>> \in R
  BY DEF OpToRel
<1> HIDE DEF n, R
<1>4. S \subseteq Nat /\ back \subseteq Nat /\ back # {}
  <2>1. \A m \in S : m \in Nat /\ n - m \in Nat
    BY <1>1
  <2> QED BY <2>1
<1>5. PICK x \in S : \A y \in S : ~(<<y, x>> \in R)
  BY <1>2, <1>4, WFMin
<1>6. \A y \in S : x <= y
  <2> SUFFICES ASSUME NEW y \in S PROVE x <= y
    OBVIOUS
  <2>1. x \in Nat /\ y \in Nat /\ ~(y < x)
    BY <1>3, <1>4, <1>5
  <2> QED BY <2>1
<1>7. PICK b \in back : \A c \in back : ~(<<c, b>> \in R)
  <2> HIDE DEF back
  <2> QED BY <1>2, <1>4, WFMin
<1>8. PICK z \in S : b = n - z
  BY <1>7
<1>9. \A y \in S : y <= z
  <2> SUFFICES ASSUME NEW y \in S PROVE y <= z
    OBVIOUS
  <2>1. n - y \in back
    OBVIOUS
  <2>2. ~(n - y < n - z)
    BY <1>3, <1>4, <1>7, <1>8, <2>1
  <2> QED BY <1>1, <2>2
<1>10. Min(S) \in S /\ Max(S) \in S
  BY <1>4, <1>6, <1>9 DEF Min, Max
<1>11. \A m \in S : Max(S) >= m
  <2>1. \E k \in S : \A y \in S : k >= y
    BY <1>4, <1>9
  <2>2. Max(S) = CHOOSE k \in S : \A y \in S : k >= y
    BY DEF Max
  <2> QED BY <2>1, <2>2
<1>12. \A m \in S : m <= Max(S)
  <2> HIDE DEF back
  <2> QED BY <1>4, <1>10, <1>11
<1> QED BY <1>4, <1>10, <1>12

\* A query by player gives every player at most once.
LEMMA DraftIsOneEach ==
  ASSUME DreamTeamConstants, imports \subseteq Moments, NEW s
  PROVE  OneEach(Draft(s))
<1>1. DraftImports(s) \subseteq Moments
  BY DEF DraftImports
<1> DEFINE ms == DraftImports(s)
<1> HIDE DEF ms
<1>2. Draft(s) = {[player |-> p, as_of |-> NewestOf(p, ms), salary |-> Read[NewestOf(p, ms)][p].salary]
                  : p \in UNION {Of(m) : m \in ms}}
  BY DEF Draft, ms
<1>3. UNION {Of(m) : m \in ms} \subseteq Players
  BY <1>1 DEF DreamTeamConstants, Of, Moments, ms
<1> QED BY <1>2, <1>3 DEF OneEach

LEMMA PointsAreOneEach ==
  ASSUME NEW rows, OneEach(rows), NEW as_of
  PROVE  OneEach(WithPoints(rows, as_of))
<1> DEFINE ms == {m \in imports : m <= as_of}
           newest(row) == IF \E m \in ms : row.player \in Of(m) THEN NewestOf(row.player, ms) ELSE row.as_of
           full(row) == [player |-> row.player, salary |-> row.salary,
                         points |-> Read[newest(row)][row.player].points,
                         games_played |-> Read[newest(row)][row.player].games_played]
<1>1. WithPoints(rows, as_of) = {full(row) : row \in rows}
  BY DEF WithPoints
<1>2. \A row \in rows : full(row).player = row.player
  OBVIOUS
<1> HIDE DEF full
<1> QED BY <1>1, <1>2 DEF OneEach

LEMMA PartIsOneEach ==
  ASSUME NEW rows, OneEach(rows), NEW part, part \subseteq rows
  PROVE  OneEach(part)
BY DEF OneEach

LEMMA NobodyIsOneEach == OneEach({})
BY DEF OneEach

\* As many players as picks.
LEMMA PlayersOfATeam ==
  ASSUME DreamTeamConstants, NEW rows, OneEach(rows)
  PROVE  LET players == {c.player : c \in rows} IN
         IsFiniteSet(rows) /\ IsFiniteSet(players) /\ Cardinality(players) = Cardinality(rows)
<1> DEFINE players == {c.player : c \in rows}
           of == [c \in rows |-> c.player]
<1>1. IsFiniteSet(players)
  <2>1. players \subseteq Players
    BY DEF OneEach
  <2> QED BY <2>1, FS_Subset DEF DreamTeamConstants
<1>2. of \in Bijection(rows, players)
  <2>1. of \in [rows -> players] /\ \A t \in players : \E c \in rows : of[c] = t
    OBVIOUS
  <2>2. \A c, d \in rows : of[c] = of[d] => c = d
    BY DEF OneEach
  <2> HIDE DEF of, players
  <2> QED BY <2>1, <2>2, Zenon DEF Bijection, Injection, Surjection, IsInjective
<1>3. ExistsBijection(rows, players)
  BY <1>2 DEF ExistsBijection
<1> HIDE DEF players
<1>4. ExistsBijection(players, rows)
  BY <1>3, Fun_ExistsBijSymmetric
<1>5. IsFiniteSet(rows)
  BY <1>1, <1>4, FS_Bijection
<1>6. IsFiniteSet(rows) /\ IsFiniteSet(players) /\ Cardinality(players) = Cardinality(rows)
  BY <1>1, <1>4, <1>5, FS_Bijection
<1> QED BY <1>6 DEF players

-----------------------------------------------------------------------------
(* Steps in general *)

LEMMA IdleFits ==
  /\ JobFits(Idle) /\ Sees(Idle)
  /\ Idle.pc = "idle" /\ Idle.holds = {} /\ Idle.todo = {}
BY NobodyIsOneEach DEF JobFits, Sees, Idle, Fields, Storing

LEMMA AtItsState ==
  ASSUME DreamInv, NEW w \in Workers
  PROVE  JobFits(job[w]) /\ Sees(job[w]) /\ DOMAIN job[w] = Fields
BY DEF DreamInv, Shape, JobFits

\* Nobody else holds what j holds.
Free(w, j) ==
  \A v \in Workers \ {w} : job[v].as_of = j.as_of => job[v].holds \intersect j.holds = {}

LEMMA NothingHeld ==
  ASSUME NEW w, NEW j, j.holds = {}
  PROVE  Free(w, j)
BY DEF Free

\* A step of one server that changes no row but imports at most.
LEMMA ServerMoves ==
  ASSUME DreamInv, NEW w \in Workers, NEW j, job' = [job EXCEPT ![w] = j],
         UNCHANGED <<teams, picks>>, JobFits(j), Sees(j), Free(w, j), ImportsInTurn'
  PROVE  DreamInv'
<1>1. DOMAIN job = Workers
  BY DEF DreamInv, Shape
<1>2. DOMAIN job' = Workers /\ job'[w] = j /\ \A v \in Workers \ {w} : job'[v] = job[v]
  BY <1>1
<1>3. Shape'
  BY <1>2 DEF DreamInv, Shape
<1>4. \A v \in Workers : Sees(job[v])'
  BY <1>2 DEF DreamInv, Sees
<1>5. Exclusive'
  BY <1>2 DEF DreamInv, Exclusive, Free
<1>6. \A m \in Moments : Whole(m)'
  BY DEF DreamInv, Whole
<1> QED BY <1>3, <1>4, <1>5, <1>6 DEF DreamInv

LEMMA ImportsStay ==
  ASSUME DreamInv, NEW w \in Workers, NEW j, job' = [job EXCEPT ![w] = j],
         imports' = imports, j.pc # "importing"
  PROVE  ImportsInTurn'
<1>1. DOMAIN job = Workers
  BY DEF DreamInv, Shape
<1>2. job'[w] = j /\ \A v \in Workers \ {w} : job'[v] = job[v]
  BY <1>1
<1>3. \A v \in Workers : At(v, "importing")' => At(v, "importing")
  BY <1>2 DEF At
<1> QED BY <1>3 DEF DreamInv, ImportsInTurn

-----------------------------------------------------------------------------
(* The steps that store nothing *)

LEMMA BeginImportKeeps ==
  ASSUME DreamInv, NEW w \in Workers, BeginImport(w)
  PROVE  DreamInv'
<1> DEFINE j == [Idle EXCEPT !.pc = "importing", !.season = season]
<1>1. job' = [job EXCEPT ![w] = j] /\ UNCHANGED <<teams, picks, imports>>
  BY DEF BeginImport
<1>2. j.holds = {} /\ j.pc = "importing" /\ JobFits(j) /\ Sees(j)
  BY NobodyIsOneEach DEF JobFits, Sees, Idle, Fields, Storing
<1>3. ImportsInTurn'
  <2>1. DOMAIN job = Workers
    BY DEF DreamInv, Shape
  <2>2. \A v \in Workers : At(v, "importing")' => v = w
    BY <1>1, <2>1 DEF BeginImport, At
  <2> QED BY <1>1, <2>2 DEF DreamInv, ImportsInTurn, BeginImport
<1> HIDE DEF j
<1> QED BY <1>1, <1>2, <1>3, NothingHeld, ServerMoves

LEMMA CommitImportKeeps ==
  ASSUME DreamTeamConstants, DreamInv, NEW w \in Workers, CommitImport(w)
  PROVE  DreamInv'
<1> DEFINE m == Min(Moments \ imports)
           j == [job[w] EXCEPT !.pc = "next", !.todo = {m}]
<1>1. job' = [job EXCEPT ![w] = j] /\ UNCHANGED <<teams, picks>> /\ imports' = imports \union {m}
  BY DEF CommitImport
<1>2. m \in Moments
  <2>1. Moments \ imports # {}
    BY DEF CommitImport, DreamInv, ImportsInTurn
  <2> QED BY <2>1, MomentsHaveEnds
<1> HIDE DEF m
<1>3. job[w].pc = "importing"
  BY DEF CommitImport, At
<1>4. j.holds = {} /\ j.pc = "next" /\ JobFits(j) /\ Sees(j)
  BY <1>2, <1>3, AtItsState DEF JobFits, Sees, Fields, Idle, Storing
<1>5. ImportsInTurn'
  <2>1. DOMAIN job = Workers
    BY DEF DreamInv, Shape
  <2>2. \A v \in Workers : ~At(v, "importing")'
    BY <1>1, <1>3, <1>4, <2>1 DEF DreamInv, ImportsInTurn, At
  <2> QED BY <1>1, <1>2, <2>2 DEF DreamInv, ImportsInTurn
<1> HIDE DEF j
<1> QED BY <1>1, <1>4, <1>5, NothingHeld, ServerMoves

LEMMA RecalculateKeeps ==
  ASSUME DreamTeamConstants, DreamInv, NEW w \in Workers, Recalculate(w)
  PROVE  DreamInv'
<1>1. PICK todo \in {imports, {Max(imports)}} :
         job' = [job EXCEPT ![w] = [Idle EXCEPT !.pc = "next", !.season = season, !.todo = todo]]
  BY DEF Recalculate
<1> DEFINE j == [Idle EXCEPT !.pc = "next", !.season = season, !.todo = todo]
<1>2. todo \subseteq Moments /\ todo # {}
  <2>1. imports \subseteq Moments /\ imports # {}
    BY DEF Recalculate, DreamInv, ImportsInTurn
  <2> QED BY <2>1, MomentsHaveEnds
<1>3. j.holds = {} /\ j.pc = "next" /\ JobFits(j) /\ Sees(j)
  BY <1>2, NobodyIsOneEach DEF JobFits, Sees, Fields, Idle, Storing
<1>4. job' = [job EXCEPT ![w] = j] /\ UNCHANGED <<teams, picks, imports>>
  BY <1>1 DEF Recalculate
<1> HIDE DEF j
<1> QED BY <1>3, <1>4, NothingHeld, ServerMoves, ImportsStay

LEMMA ReadDraftKeeps ==
  ASSUME DreamTeamConstants, DreamInv, NEW w \in Workers, ReadDraft(w)
  PROVE  DreamInv'
<1> DEFINE rows == Draft(job[w].season)
           m == Min(job[w].todo)
           newest == IF rows = {} THEN 0 ELSE Max({r.as_of : r \in rows})
           j == [job[w] EXCEPT !.pc = "points", !.todo = @ \ {m}, !.as_of = m, !.pool = rows,
                               !.draft_as_of = newest]
<1>1. job' = [job EXCEPT ![w] = j] /\ UNCHANGED <<teams, picks, imports>>
  BY DEF ReadDraft
<1>2. job[w].pc = "next"
  BY DEF ReadDraft, At
<1>3. m \in Moments /\ job[w].todo \subseteq Moments
  BY <1>2, AtItsState, MomentsHaveEnds DEF JobFits
<1>4. OneEach(rows)
  BY DraftIsOneEach DEF DreamInv, ImportsInTurn
<1> HIDE DEF rows, m, newest
<1>5. j.holds = {} /\ j.pc = "points" /\ JobFits(j) /\ Sees(j)
  BY <1>2, <1>3, <1>4, AtItsState DEF JobFits, Sees, Fields, Idle, Storing
<1> HIDE DEF j
<1> QED BY <1>1, <1>5, NothingHeld, ServerMoves, ImportsStay

LEMMA ReadPointsKeeps ==
  ASSUME DreamInv, NEW w \in Workers, ReadPoints(w)
  PROVE  DreamInv'
<1> DEFINE pool == WithPoints(job[w].pool, job[w].as_of)
           none == job[w].as_of <= job[w].draft_as_of \/ \A c \in pool : c.games_played = 0
           after == IF none THEN "remove" ELSE "solve"
           j == [job[w] EXCEPT !.pc = after, !.pool = pool]
<1>1. job' = [job EXCEPT ![w] = j] /\ UNCHANGED <<teams, picks, imports>>
  BY DEF ReadPoints
<1>2. job[w].pc = "points"
  BY DEF ReadPoints, At
<1>3. OneEach(pool)
  BY AtItsState, PointsAreOneEach DEF JobFits
<1>4. after \in {"remove", "solve"}
  OBVIOUS
<1> HIDE DEF pool, after
<1>5. j.holds = {} /\ j.pc # "importing" /\ JobFits(j) /\ Sees(j)
  BY <1>2, <1>3, <1>4, AtItsState DEF JobFits, Sees, Fields, Idle, Storing
<1> HIDE DEF j
<1> QED BY <1>1, <1>5, NothingHeld, ServerMoves, ImportsStay

LEMMA SolveKeeps ==
  ASSUME DreamInv, NEW w \in Workers, Solve(w)
  PROVE  DreamInv'
<1> DEFINE j == job[w]
<1>1. j.pc = "solve" /\ UNCHANGED <<teams, picks, imports>>
  BY DEF Solve, At
<1>2. CASE Goes(w, "remove")
  <2> DEFINE k == [j EXCEPT !.pc = "remove"]
  <2>1. job' = [job EXCEPT ![w] = k]
    BY <1>2 DEF Goes
  <2>2. k.holds = {} /\ k.pc # "importing" /\ JobFits(k) /\ Sees(k)
    BY <1>1, AtItsState DEF JobFits, Sees, Fields, Idle, Storing
  <2> HIDE DEF k
  <2> QED BY <1>1, <2>1, <2>2, NothingHeld, ServerMoves, ImportsStay
<1>3. ASSUME NEW team \in Answers(j.pool, j.season.budget), Legal(team, j.season.budget),
             job' = [job EXCEPT ![w] = [j EXCEPT !.pc = "store", !.team = team]]
      PROVE  DreamInv'
  <2> DEFINE k == [j EXCEPT !.pc = "store", !.team = team]
  <2>1. team \subseteq j.pool
    BY DEF Answers
  <2>2. k.holds = {} /\ k.pc # "importing" /\ JobFits(k) /\ Sees(k)
    BY <1>1, <1>3, <2>1, AtItsState DEF JobFits, Sees, Fields, Idle, Storing
  <2>3. job' = [job EXCEPT ![w] = k]
    BY <1>3
  <2> HIDE DEF k
  <2> QED BY <1>1, <2>2, <2>3, NothingHeld, ServerMoves, ImportsStay
<1>4. CASE job' = [job EXCEPT ![w] = Idle]
  BY <1>1, <1>4, IdleFits, NothingHeld, ServerMoves, ImportsStay
<1> QED BY <1>2, <1>3, <1>4 DEF Solve

LEMMA AbortKeeps ==
  ASSUME DreamInv, NEW w \in Workers, Abort(w)
  PROVE  DreamInv'
BY IdleFits, NothingHeld, ServerMoves, ImportsStay DEF Abort
-----------------------------------------------------------------------------
(* Locks *)

LEMMA LockTeamKeeps ==
  ASSUME DreamInv, NEW w \in Workers, LockTeam(w)
  PROVE  DreamInv'
<1> DEFINE j == [job[w] EXCEPT !.pc = "replace", !.holds = {"team"}]
<1>1. job' = [job EXCEPT ![w] = j] /\ UNCHANGED <<teams, picks, imports>>
  BY DEF LockTeam
<1>2. job[w].pc = "store"
  BY DEF LockTeam, At
<1>3. j.holds = {"team"} /\ j.as_of = job[w].as_of /\ j.pc # "importing" /\ JobFits(j) /\ Sees(j)
  BY <1>2, AtItsState DEF JobFits, Sees, Fields, Idle, Storing
<1>4. Free(w, j)
  BY <1>3 DEF LockTeam, Unlocked, Free
<1> HIDE DEF j
<1> QED BY <1>1, <1>3, <1>4, ServerMoves, ImportsStay

\* Picks are locked by who replaces them and by who removes them; where there are
\* none yet, only the lock on the team keeps another one away.
LEMMA DeletePicksKeeps ==
  ASSUME DreamInv, NEW w \in Workers, DeletePicks(w)
  PROVE  DreamInv'
<1> DEFINE j == [job[w] EXCEPT !.pc = "commit", !.gone = picks[job[w].as_of],
                               !.holds = @ \union {"picks"}]
<1>1. job' = [job EXCEPT ![w] = j] /\ UNCHANGED <<teams, picks, imports>>
  BY DEF DeletePicks
<1>2. job[w].pc = "replace" /\ job[w].holds = {"team"}
  BY AtItsState DEF DeletePicks, At, JobFits
<1>3. j.holds = {"team", "picks"} /\ j.as_of = job[w].as_of /\ j.pc # "importing" /\ JobFits(j) /\ Sees(j)
  BY <1>2, AtItsState DEF JobFits, Sees, Fields, Idle, Storing
<1>4. Free(w, j)
  <2> SUFFICES ASSUME NEW v \in Workers \ {w}, job[v].as_of = j.as_of
               PROVE  "team" \notin job[v].holds /\ "picks" \notin job[v].holds
    BY <1>3 DEF Free
  <2>1. "team" \notin job[v].holds
    BY <1>2, <1>3 DEF DreamInv, Exclusive
  <2>2. CASE picks[j.as_of] # {}
    BY <1>3, <2>1, <2>2 DEF DeletePicks, Unlocked
  <2>3. CASE picks[j.as_of] = {}
    <3>1. job[v].pc # "commit" /\ job[v].pc # "drop"
      BY <2>1, <2>3, AtItsState DEF JobFits, Sees
    <3>2. "picks" \notin job[v].holds
      BY <3>1, AtItsState DEF JobFits
    <3> QED BY <2>1, <3>2
  <2> QED BY <2>2, <2>3
<1> HIDE DEF j
<1> QED BY <1>1, <1>3, <1>4, ServerMoves, ImportsStay

LEMMA FinishedFits ==
  ASSUME DreamInv, NEW w \in Workers
  PROVE  LET j == Finished(w) IN
         JobFits(j) /\ Sees(j) /\ j.holds = {} /\ j.pc \in {"idle", "next"}
<1> DEFINE j == Finished(w)
<1>1. j.pc \in {"idle", "next"} /\ j.holds = {} /\ j.todo = job[w].todo /\ (j.pc = "next" => j.todo # {})
  BY DEF Finished, Idle
<1>2. DOMAIN j = Fields /\ j.pool = {}
  BY DEF Finished, Idle, Fields
<1>3. job[w].todo \subseteq Moments
  BY AtItsState DEF JobFits
<1> HIDE DEF j
<1>4. JobFits(j) /\ Sees(j) /\ j.holds = {} /\ j.pc \in {"idle", "next"}
  BY <1>1, <1>2, <1>3, NobodyIsOneEach DEF JobFits, Sees, Storing
<1> QED BY <1>4 DEF j

\* With the picks of a moment that has a team, none of which another one holds.
LEMMA FindStaleKeeps ==
  ASSUME DreamInv, NEW w \in Workers, FindStale(w)
  PROVE  DreamInv'
<1> DEFINE m == job[w].as_of
           j == [job[w] EXCEPT !.pc = "drop", !.gone = picks[m], !.holds = {"picks"}]
<1>1. UNCHANGED <<teams, picks, imports>> /\ job[w].pc = "remove"
  BY DEF FindStale, At
<1>2. CASE m \notin DOMAIN teams
  <2>1. job' = [job EXCEPT ![w] = Finished(w)]
    BY <1>2 DEF FindStale
  <2> QED BY <1>1, <2>1, FinishedFits, NothingHeld, ServerMoves, ImportsStay
<1>3. CASE m \in DOMAIN teams
  <2>1. job' = [job EXCEPT ![w] = j]
    BY <1>3 DEF FindStale
  <2>2. m \in Moments /\ picks[m] # {}
    BY <1>1, <1>3, AtItsState DEF JobFits, Storing, DreamInv, Whole
  <2>3. j.holds = {"picks"} /\ j.as_of = m /\ j.pc # "importing" /\ JobFits(j) /\ Sees(j)
    BY <1>1, <2>2, AtItsState DEF JobFits, Sees, Fields, Idle, Storing
  <2>4. Free(w, j)
    BY <2>2, <2>3 DEF FindStale, Unlocked, Free
  <2> HIDE DEF j
  <2> QED BY <1>1, <2>1, <2>3, <2>4, ServerMoves, ImportsStay
<1> QED BY <1>2, <1>3

-----------------------------------------------------------------------------
(* The steps that store and remove *)

\* Who has the picks of a moment locked may change what is stored for it, and ends.
LEMMA RowsMove ==
  ASSUME DreamInv, NEW w \in Workers, NEW j, job' = [job EXCEPT ![w] = j], imports' = imports,
         JobFits(j), Sees(j), j.holds = {}, j.pc \notin {"importing", "commit", "drop"},
         NEW m \in Moments, job[w].as_of = m, "picks" \in job[w].holds,
         NEW X, picks' = [picks EXCEPT ![m] = X],
         DOMAIN teams' \subseteq Moments, Whole(m)',
         \A n \in Moments \ {m} : (n \in DOMAIN teams' <=> n \in DOMAIN teams)
                                   /\ (n \in DOMAIN teams => teams'[n] = teams[n])
  PROVE  DreamInv'
<1>1. DOMAIN job = Workers /\ DOMAIN picks = Moments
  BY DEF DreamInv, Shape
<1>2. DOMAIN job' = Workers /\ job'[w] = j /\ \A v \in Workers \ {w} : job'[v] = job[v]
  BY <1>1
<1>3. DOMAIN picks' = Moments /\ \A n \in Moments \ {m} : picks'[n] = picks[n]
  BY <1>1
<1>4. Shape'
  BY <1>2, <1>3 DEF DreamInv, Shape
<1>5. ASSUME NEW v \in Workers PROVE Sees(job[v])'
  <2>1. CASE v = w
    BY <1>2, <2>1 DEF Sees
  <2>2. CASE v # w /\ job[v].pc \in {"commit", "drop"}
    <3>1. "picks" \in job[v].holds /\ job[v].as_of \in Moments
      BY <2>2, AtItsState DEF JobFits, Storing
    <3>2. job[v].as_of # m
      BY <2>2, <3>1 DEF DreamInv, Exclusive
    <3> QED BY <1>2, <1>3, <2>2, <3>1, <3>2, AtItsState DEF Sees
  <2>3. CASE v # w /\ job[v].pc \notin {"commit", "drop"}
    BY <1>2, <2>3 DEF Sees
  <2> QED BY <2>1, <2>2, <2>3
<1>6. Exclusive'
  BY <1>2 DEF DreamInv, Exclusive
<1>7. ASSUME NEW n \in Moments PROVE Whole(n)'
  <2>1. CASE n = m
    BY <2>1
  <2>2. CASE n # m
    BY <1>3, <2>2 DEF DreamInv, Whole
  <2> QED BY <2>1, <2>2
<1>8. ImportsInTurn'
  BY ImportsStay
<1> QED BY <1>4, <1>5, <1>6, <1>7, <1>8 DEF DreamInv
\* The picks found are all there are, so none is in the way, and the team's are the
\* only ones afterwards.
LEMMA StoreTeamKeeps ==
  ASSUME DreamTeamConstants, DreamInv, NEW w \in Workers, StoreTeam(w)
  PROVE  DreamInv'
<1>0. PICK m \in Moments : m = job[w].as_of
  BY AtItsState DEF StoreTeam, At, JobFits, Storing
<1> DEFINE j == job[w]
           row == [draft_as_of |-> j.draft_as_of, budget |-> j.season.budget,
                   total_salary |-> MapThenSumSet(Salary, j.team),
                   total_fp |-> MapThenSumSet(Points, j.team),
                   candidates |-> Cardinality(j.pool),
                   pool |-> {c \in j.pool : c.games_played > 0}]
<1>1. j.pc = "commit" /\ "picks" \in j.holds /\ imports' = imports
  BY AtItsState DEF StoreTeam, At, JobFits, Storing
<1>2. picks[m] \ j.gone = {}
  BY <1>0, <1>1, AtItsState DEF Sees
<1>3. /\ teams' = [n \in DOMAIN teams \union {m} |-> IF n # m THEN teams[n] ELSE row]
      /\ picks' = [picks EXCEPT ![m] = j.team]
      /\ job' = [job EXCEPT ![w] = Finished(w)]
  BY <1>0, <1>2 DEF StoreTeam
<1>4. /\ j.team \subseteq j.pool /\ OneEach(j.team) /\ Legal(j.team, j.season.budget)
  BY <1>1, AtItsState, PartIsOneEach DEF JobFits, Storing
<1>5. j.team # {}
  <2>1. Cardinality(j.team) # 0
    BY <1>4 DEF Legal, DreamTeamConstants
  <2> QED BY <2>1, FS_EmptySet
<1>6. /\ row.budget = j.season.budget
      /\ row.total_salary = MapThenSumSet(Salary, j.team)
      /\ row.total_fp = MapThenSumSet(Points, j.team)
      /\ row.pool = {c \in j.pool : c.games_played > 0}
  OBVIOUS
<1>7. DOMAIN teams \subseteq Moments /\ DOMAIN picks = Moments
  BY DEF DreamInv, Shape
<1> HIDE DEF j, row
<1>8. /\ picks'[m] = j.team /\ m \in DOMAIN teams' /\ teams'[m] = row
      /\ DOMAIN teams' \subseteq Moments
      /\ \A n \in Moments \ {m} : (n \in DOMAIN teams' <=> n \in DOMAIN teams)
                                  /\ (n \in DOMAIN teams => teams'[n] = teams[n])
  BY <1>1, <1>3, <1>7
<1>9. Whole(m)'
  BY <1>4, <1>5, <1>6, <1>8 DEF Whole
<1> QED BY <1>0, <1>1, <1>3, <1>8, <1>9, FinishedFits, RowsMove DEF j

LEMMA DropStaleKeeps ==
  ASSUME DreamInv, NEW w \in Workers, DropStale(w)
  PROVE  DreamInv'
<1>0. PICK m \in Moments : m = job[w].as_of
  BY AtItsState DEF DropStale, At, JobFits, Storing
<1>1. job[w].pc = "drop" /\ "picks" \in job[w].holds /\ imports' = imports
  BY AtItsState DEF DropStale, At, JobFits, Storing
<1>2. picks[m] \ job[w].gone = {}
  BY <1>0, <1>1, AtItsState DEF Sees
<1>3. /\ teams' = Restrict(teams, DOMAIN teams \ {m})
      /\ picks' = [picks EXCEPT ![m] = {}]
      /\ job' = [job EXCEPT ![w] = Finished(w)]
  BY <1>0, <1>2 DEF DropStale
<1>4. DOMAIN teams \subseteq Moments /\ DOMAIN picks = Moments
  BY DEF DreamInv, Shape
<1>5. /\ picks'[m] = {} /\ m \notin DOMAIN teams' /\ DOMAIN teams' \subseteq Moments
      /\ \A n \in Moments \ {m} : (n \in DOMAIN teams' <=> n \in DOMAIN teams)
                                  /\ (n \in DOMAIN teams => teams'[n] = teams[n])
  BY <1>1, <1>3, <1>4 DEF Restrict
<1>6. Whole(m)'
  BY <1>5, NobodyIsOneEach DEF Whole
<1> QED BY <1>0, <1>1, <1>3, <1>5, <1>6, FinishedFits, RowsMove

-----------------------------------------------------------------------------
(* The theorem *)

LEMMA InitWhole ==
  ASSUME Init
  PROVE  DreamInv
<1>1. Shape
  BY IdleFits DEF Init, Shape
<1>2. Exclusive /\ ImportsInTurn /\ \A w \in Workers : Sees(job[w])
  BY IdleFits DEF Init, Exclusive, ImportsInTurn, At
<1>3. \A m \in Moments : Whole(m)
  BY NobodyIsOneEach DEF Init, Whole
<1> QED BY <1>1, <1>2, <1>3 DEF DreamInv

LEMMA NextKeeps ==
  ASSUME DreamTeamConstants, DreamInv, [Next]_vars
  PROVE  DreamInv'
<1>1. ASSUME NEW w \in Workers,
             \/ BeginImport(w) \/ CommitImport(w) \/ Recalculate(w)
             \/ ReadDraft(w) \/ ReadPoints(w) \/ Solve(w)
             \/ LockTeam(w) \/ DeletePicks(w) \/ StoreTeam(w)
             \/ FindStale(w) \/ DropStale(w) \/ Abort(w)
      PROVE  DreamInv'
  BY <1>1, BeginImportKeeps, CommitImportKeeps, RecalculateKeeps, ReadDraftKeeps, ReadPointsKeeps,
     SolveKeeps, LockTeamKeeps, DeletePicksKeeps, StoreTeamKeeps, FindStaleKeeps, DropStaleKeeps,
     AbortKeeps
<1>2. CASE UNCHANGED <<imports, teams, picks, job>>
  BY <1>2 DEF DreamInv, Shape, Exclusive, ImportsInTurn, At, Sees, Whole
<1> QED BY <1>1, <1>2 DEF Next, Edit, vars

\* As many come in as go out, every stored team being of the same size.
LEMMA WholeTeamsAreLegal ==
  ASSUME DreamTeamConstants, DreamInv
  PROVE  StoredTeamsAreLegal
<1> SUFFICES ASSUME NEW m \in Moments, m \in DOMAIN teams
             PROVE  Cardinality(CameIn(m)) = Cardinality(WentOut(m))
  BY DEF DreamInv, Whole, StoredTeamsAreLegal
<1> DEFINE n == PreviousOf(m)
<1>1. CASE n = None
  BY <1>1 DEF CameIn, WentOut
<1>2. CASE n # None
  <2>1. n \in DOMAIN teams
    <3> DEFINE before == {k \in DOMAIN teams : k < m}
    <3>1. before # {} /\ n = Max(before)
      BY <1>2 DEF PreviousOf
    <3>2. before \subseteq Moments
      BY DEF DreamInv, Shape
    <3>3. n \in before
      <4> HIDE DEF before, n
      <4> QED BY <3>1, <3>2, MomentsHaveEnds
    <3> QED BY <3>3
  <2>2. \A k \in {m, n} : /\ IsFiniteSet(PlayersOf(k))
                          /\ Cardinality(PlayersOf(k)) = ROSTER_SIZE
    <3> SUFFICES ASSUME NEW k \in {m, n}
                 PROVE  IsFiniteSet(PlayersOf(k)) /\ Cardinality(PlayersOf(k)) = ROSTER_SIZE
      OBVIOUS
    <3>1. k \in DOMAIN teams /\ k \in Moments
      BY <2>1 DEF DreamInv, Shape
    <3>2. OneEach(picks[k]) /\ Cardinality(picks[k]) = ROSTER_SIZE
      BY <3>1 DEF DreamInv, Whole, Legal
    <3> QED BY <3>2, PlayersOfATeam DEF PlayersOf
  <2> DEFINE here == PlayersOf(m)
             there == PlayersOf(n)
  <2>3. here \cap there = there \cap here
    OBVIOUS
  <2>4. /\ Cardinality(here \ there) = Cardinality(here) - Cardinality(here \cap there)
        /\ Cardinality(there \ here) = Cardinality(there) - Cardinality(there \cap here)
    BY <2>2, FS_Difference
  <2>5. CameIn(m) = here \ there /\ WentOut(m) = there \ here
    BY <1>2 DEF CameIn, WentOut
  <2> HIDE DEF here, there, n
  <2>6. Cardinality(here) = Cardinality(there)
    BY <2>2 DEF here, there
  <2> QED BY <2>3, <2>4, <2>5, <2>6
<1> QED BY <1>1, <1>2

\* However many servers refresh the Dream Team of a moment, store and remove it at
\* the same time, fail or are killed, a team that is stored is one that could have
\* been drafted, with all of its picks and no others (refresh and _check,
\* analytics/dream_team.py:219-282, :333-346).
THEOREM DreamTeamsAreLegal == DreamTeamConstants => (Spec => []StoredTeamsAreLegal)
<1> SUFFICES ASSUME DreamTeamConstants PROVE Spec => []StoredTeamsAreLegal
  OBVIOUS
<1>1. Init => DreamInv
  BY InitWhole
<1>2. DreamInv /\ [Next]_vars => DreamInv'
  BY NextKeeps
<1>3. DreamInv => StoredTeamsAreLegal
  BY WholeTeamsAreLegal
<1> QED BY <1>1, <1>2, <1>3, PTL DEF Spec

-----------------------------------------------------------------------------
(* The reason given where there is none *)

Played(m) == \E p \in Of(m) : Read[m][p].games_played > 0

\* Once somebody has played by an import, so has somebody by every later one.
GamesGrow == \A m, n \in Moments : m < n /\ Played(m) => Played(n)

\* A candidate is priced, and counted, by imports that have read him.
LEMMA CandidatesAreRead ==
  ASSUME DreamTeamConstants, imports \subseteq Moments, NEW s, NEW row \in Draft(s)
  PROVE  row.as_of \in imports /\ row.player \in Of(row.as_of)
<1> DEFINE ms == DraftImports(s)
           mine == {m \in ms : row.player \in Of(m)}
<1>1. ms \subseteq imports
  BY DEF DraftImports
<1> HIDE DEF ms
<1>2. PICK p \in UNION {Of(m) : m \in ms} :
        row = [player |-> p, as_of |-> NewestOf(p, ms), salary |-> Read[NewestOf(p, ms)][p].salary]
  BY DEF Draft, ms
<1>3. row.player = p /\ row.as_of = Max(mine) /\ mine # {}
  BY <1>2 DEF NewestOf
<1>4. mine \in SUBSET Moments
  BY <1>1
<1> HIDE DEF mine
<1>5. Max(mine) \in mine
  BY <1>3, <1>4, MomentsHaveEnds
<1> QED BY <1>1, <1>3, <1>5 DEF mine

LEMMA PointsAreRead ==
  ASSUME DreamTeamConstants, imports \subseteq Moments, NEW s, NEW as_of,
         NEW c \in WithPoints(Draft(s), as_of)
  PROVE  \E m \in imports : \E p \in Of(m) : c.games_played = Read[m][p].games_played
<1> DEFINE ms == {m \in imports : m <= as_of}
           newest(row) == IF \E m \in ms : row.player \in Of(m) THEN NewestOf(row.player, ms) ELSE row.as_of
           full(row) == [player |-> row.player, salary |-> row.salary,
                         points |-> Read[newest(row)][row.player].points,
                         games_played |-> Read[newest(row)][row.player].games_played]
<1>1. WithPoints(Draft(s), as_of) = {full(row) : row \in Draft(s)}
  BY DEF WithPoints
<1>2. PICK row \in Draft(s) : c = full(row)
  BY <1>1
<1>3. newest(row) \in imports /\ row.player \in Of(newest(row))
  <2>1. CASE \E m \in ms : row.player \in Of(m)
    <3> DEFINE mine == {m \in ms : row.player \in Of(m)}
    <3>1. mine # {} /\ mine \in SUBSET Moments /\ newest(row) = Max(mine)
      BY <2>1 DEF NewestOf
    <3>2. Max(mine) \in mine
      <4> HIDE DEF mine
      <4> QED BY <3>1, MomentsHaveEnds
    <3> QED BY <3>1, <3>2
  <2>2. CASE ~\E m \in ms : row.player \in Of(m)
    BY <2>2, CandidatesAreRead
  <2> QED BY <2>1, <2>2
<1>4. c.games_played = Read[newest(row)][row.player].games_played
  BY <1>2
<1> HIDE DEF newest
<1> QED BY <1>3, <1>4

LEMMA TheReasonHolds ==
  ASSUME DreamTeamConstants, GamesGrow, imports \subseteq Moments
  PROVE  ReasonIsRight
<1> DEFINE rows == Draft(season)
           prices == {row.as_of : row \in rows}
           games == {m \in imports : \E p \in Of(m) : Read[m][p].games_played > 0}
<1>1. SUFFICES ASSUME MissingReason \in {"no_prices", "no_games"}, rows # {},
                      ~(Max(imports) <= Max(prices)),
                      NEW c \in WithPoints(rows, Max(imports)), c.games_played # 0
               PROVE  FALSE
  BY DEF ReasonIsRight
<1>2. prices \in SUBSET imports /\ prices # {} /\ imports # {}
  <2>1. \A row \in rows : row.as_of \in imports
    BY CandidatesAreRead
  <2> QED BY <1>1, <2>1
<1>3. ~\E m \in games : m > Max(prices)
  <2> DEFINE some == \E m \in games : m > Max(prices)
  <2> HIDE DEF rows, games, prices
  <2>1. SUFFICES ASSUME some PROVE FALSE
    OBVIOUS
  <2>2. MissingReason = CASE imports = {} -> "no_stats"
                          [] imports # {} /\ prices = {} -> "no_prices"
                          [] prices # {} /\ ~some -> "no_games"
                          [] OTHER -> "not_calculated"
    BY Zenon DEF MissingReason, prices, rows, games
  <2> HIDE DEF some
  <2>3. MissingReason = "not_calculated"
    BY <1>2, <2>1, <2>2, Zenon
  <2> QED BY <1>1, <2>3
<1>4. Max(imports) \in imports /\ (\A m \in imports : m \in Nat /\ m <= Max(imports))
      /\ Max(prices) \in Nat
  <2> HIDE DEF prices
  <2>1. imports \in SUBSET Moments /\ prices \in SUBSET Moments
    BY <1>2
  <2>2. Max(prices) \in prices
    BY <1>2, <2>1, MomentsHaveEnds
  <2> QED BY <1>2, <2>1, <2>2, MomentsHaveEnds
<1>5. Max(imports) \notin games
  <2> HIDE DEF games
  <2>1. Max(imports) > Max(prices)
    <3> HIDE DEF prices
    <3> QED BY <1>1, <1>4
  <2> QED BY <1>3, <2>1
<1>6. PICK m \in imports : \E p \in Of(m) : c.games_played = Read[m][p].games_played
  BY PointsAreRead
<1>7. m \in games
  <2>1. PICK p \in Of(m) : c.games_played = Read[m][p].games_played
    BY <1>6
  <2>2. Read[m][p].games_played \in Nat
    BY <2>1 DEF DreamTeamConstants, Moments, Of
  <2>3. Read[m][p].games_played > 0
    BY <1>1, <2>1, <2>2
  <2> QED BY <2>1, <2>3
<1>8. m < Max(imports)
  <2> HIDE DEF games
  <2> QED BY <1>4, <1>5, <1>7
<1>9. Played(m) /\ m \in Moments /\ Max(imports) \in Moments
  BY <1>4, <1>7 DEF Played
<1> HIDE DEF games
<1>10. Played(Max(imports))
  BY <1>8, <1>9 DEF GamesGrow
<1> QED BY <1>4, <1>5, <1>10 DEF games, Played

\* Where the page says that there are no prices or no games yet, the newest import
\* gives no Dream Team (missing_reason, analytics/dream_team.py:200-216), if
\* somebody has played by every import after one by which somebody had.
THEOREM ThePageGivesTheReason ==
  DreamTeamConstants /\ GamesGrow => (Spec => []ReasonIsRight)
<1> SUFFICES ASSUME DreamTeamConstants, GamesGrow PROVE Spec => []ReasonIsRight
  OBVIOUS
<1>1. Init => DreamInv
  BY InitWhole
<1>2. DreamInv /\ [Next]_vars => DreamInv'
  BY NextKeeps
<1>3. DreamInv => ReasonIsRight
  BY TheReasonHolds DEF DreamInv, ImportsInTurn
<1> QED BY <1>1, <1>2, <1>3, PTL DEF Spec
=============================================================================
