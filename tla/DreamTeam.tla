----------------------------- MODULE DreamTeam -----------------------------
(***************************************************************************)
(* The Dream Team (analytics/dream_team.py): after every import, and on    *)
(* command, the best team the draft-day prices and the budget allowed is   *)
(* worked out and stored, or a stored one that no longer holds is removed. *)
(* Several servers do so at once; what a transaction writes is seen when   *)
(* it commits.  The solver is external: it hands back the best team, none, *)
(* or one a rounding error away from legal.                                *)
(***************************************************************************)
EXTENDS Integers, FiniteSets, FiniteSetsExt

CONSTANTS
  Workers, Players, None,
  Position,             \* [Players -> {"G", "F", "C"}]
  Read,                 \* per import, oldest first: [player -> [salary, points, games_played]]
  Budgets, OpeningDays, \* what an administrator may set: starting_cash, signings_open_at
  TipOff,               \* midnight before the season's first day
  ROSTER_SIZE,
  MINIMUM_BY_POSITION,  \* [positions -> Nat]
  MaxEdits              \* bound: edits of the season

DreamTeamConstants ==
  /\ IsFiniteSet(Players) /\ ROSTER_SIZE \in Nat \ {0}
  /\ IsFiniteSet(DOMAIN Read) /\ DOMAIN Read = 1..Cardinality(DOMAIN Read)
  /\ \A m \in DOMAIN Read : /\ DOMAIN Read[m] \subseteq Players
                            /\ \A p \in DOMAIN Read[m] : Read[m][p].games_played \in Nat

VARIABLES
  season,               \* the current season's budget and signings_open_at
  imports,              \* the moments of the imports that have committed
  teams,                \* DreamTeam rows, by the moment each is of
  picks,                \* DreamTeamPick rows, by moment
  job,                  \* each server's refresh
  edits

vars == <<season, imports, teams, picks, job, edits>>

Moments == DOMAIN Read

Idle == [pc |-> "idle", season |-> None, todo |-> {}, as_of |-> 0, draft_as_of |-> 0,
         pool |-> {}, team |-> {}, gone |-> {}, holds |-> {}]

At(w, pc) == job[w].pc = pc

Goes(w, pc) == job' = [job EXCEPT ![w].pc = pc]

-----------------------------------------------------------------------------
(* Candidates *)

Of(m) == DOMAIN Read[m]
NewestOf(p, ms) == Max({m \in ms : p \in Of(m)})

\* draft_moment
DraftMoment(s) == IF s.signings_open_at = None THEN TipOff ELSE s.signings_open_at

\* draft_snapshots: before the draft, or else the first import before tip-off.
DraftImports(s) ==
  LET before == {m \in imports : m < DraftMoment(s)}
      first == {m \in imports : m < TipOff /\ \A n \in imports : m <= n}
  IN IF before # {} THEN before ELSE first

\* A player's price is of the newest of these, his points of the newest import by as_of.
Draft(s) ==
  LET ms == DraftImports(s)
  IN {[player |-> p, as_of |-> NewestOf(p, ms), salary |-> Read[NewestOf(p, ms)][p].salary]
      : p \in UNION {Of(m) : m \in ms}}

WithPoints(rows, as_of) ==
  LET ms == {m \in imports : m <= as_of}
      newest(row) == IF \E m \in ms : row.player \in Of(m) THEN NewestOf(row.player, ms) ELSE row.as_of
  IN {[player |-> row.player, salary |-> row.salary,
       points |-> Read[newest(row)][row.player].points,
       games_played |-> Read[newest(row)][row.player].games_played] : row \in rows}

Salary(c) == c.salary
Points(c) == c.points

\* _check
Legal(team, budget) ==
  /\ Cardinality(team) = ROSTER_SIZE /\ MapThenSumSet(Salary, team) <= budget
  /\ \A x \in DOMAIN MINIMUM_BY_POSITION :
       Cardinality({c \in team : Position[c.player] = x}) >= MINIMUM_BY_POSITION[x]

Fitting(pool, budget) == {team \in SUBSET pool : Legal(team, budget)}

\* The solver's answer for a budget: the most points, always the same team.
Best(pool, budget) ==
  CHOOSE team \in Fitting(pool, budget) :
    \A other \in Fitting(pool, budget) : MapThenSumSet(Points, other) <= MapThenSumSet(Points, team)

-----------------------------------------------------------------------------
(* refresh *)

Unlocked(w, m, rows) ==
  \A v \in Workers \ {w} : job[v].as_of = m => rows \cap job[v].holds = {}

\* An import: its season is the one it started with.
BeginImport(w) ==
  /\ At(w, "idle") /\ imports # Moments
  /\ \A v \in Workers : ~At(v, "importing")
  /\ job' = [job EXCEPT ![w] = [Idle EXCEPT !.pc = "importing", !.season = season]]
  /\ UNCHANGED <<season, imports, teams, picks, edits>>

CommitImport(w) ==
  LET m == Min(Moments \ imports)
  IN /\ At(w, "importing")
     /\ imports' = imports \union {m}
     /\ job' = [job EXCEPT ![w].pc = "next", ![w].todo = {m}]
     /\ UNCHANGED <<season, teams, picks, edits>>

\* The command: the newest import, or with --all every import, oldest first.
Recalculate(w) ==
  /\ At(w, "idle") /\ imports # {}
  /\ \E todo \in {imports, {Max(imports)}} :
       job' = [job EXCEPT ![w] = [Idle EXCEPT !.pc = "next", !.season = season, !.todo = todo]]
  /\ UNCHANGED <<season, imports, teams, picks, edits>>

Finished(w) == [Idle EXCEPT !.pc = IF job[w].todo = {} THEN "idle" ELSE "next",
                            !.season = IF job[w].todo = {} THEN None ELSE job[w].season,
                            !.todo = job[w].todo]

\* candidates: the prices, and in a second query the points.
ReadDraft(w) ==
  LET rows == Draft(job[w].season)
      m == Min(job[w].todo)
  IN /\ At(w, "next")
     /\ job' = [job EXCEPT ![w].pc = "points", ![w].todo = @ \ {m}, ![w].as_of = m,
                           ![w].pool = rows,
                           ![w].draft_as_of = IF rows = {} THEN 0 ELSE Max({r.as_of : r \in rows})]
     /\ UNCHANGED <<season, imports, teams, picks, edits>>

ReadPoints(w) ==
  LET j == job[w]
      pool == WithPoints(j.pool, j.as_of)
      none == j.as_of <= j.draft_as_of \/ \A c \in pool : c.games_played = 0
  IN /\ At(w, "points")
     /\ job' = [job EXCEPT ![w].pc = IF none THEN "remove" ELSE "solve", ![w].pool = pool]
     /\ UNCHANGED <<season, imports, teams, picks, edits>>

\* Of the pool, the best team, or one over the budget by a rounding error.
Answers(pool, budget) ==
  {team \in SUBSET pool :
     \/ team = Best(pool, budget)
     \/ Cardinality(team) = ROSTER_SIZE /\ MapThenSumSet(Salary, team) = budget + 1}

Solve(w) ==
  LET j == job[w]
      budget == j.season.budget
  IN /\ At(w, "solve")
     /\ \/ Fitting(j.pool, budget) = {} /\ Goes(w, "remove")
        \/ /\ Fitting(j.pool, budget) # {}
           /\ \E team \in Answers(j.pool, budget) :
                job' = [job EXCEPT ![w] = IF Legal(team, budget)
                                          THEN [j EXCEPT !.pc = "store", !.team = team] ELSE Idle]
     /\ UNCHANGED <<season, imports, teams, picks, edits>>

\* A slip: the row is read without a lock, and somebody else's waited for by nobody.
LockTeamLater(w) ==
  /\ At(w, "store")
  /\ job' = [job EXCEPT ![w].pc = "replace"]
  /\ UNCHANGED <<season, imports, teams, picks, edits>>

\* update_or_create: the row is locked, or somebody else's insert waited for.
LockTeam(w) ==
  /\ At(w, "store") /\ Unlocked(w, job[w].as_of, {"team"})
  /\ job' = [job EXCEPT ![w].pc = "replace", ![w].holds = {"team"}]
  /\ UNCHANGED <<season, imports, teams, picks, edits>>

DeletePicks(w) ==
  /\ At(w, "replace")
  /\ picks[job[w].as_of] # {} => Unlocked(w, job[w].as_of, {"picks"})
  /\ job' = [job EXCEPT ![w].pc = "commit", ![w].gone = picks[job[w].as_of],
                        ![w].holds = @ \union {"picks"}]
  /\ UNCHANGED <<season, imports, teams, picks, edits>>

\* bulk_create and the commit.  A pick that is there already raises.
StoreTeam(w) ==
  LET j == job[w]
      kept == picks[j.as_of] \ j.gone
      taken == \E c \in j.team, x \in kept : c.player = x.player
  IN /\ At(w, "commit")
     /\ teams' = IF taken THEN teams ELSE
          [m \in DOMAIN teams \union {j.as_of} |-> IF m # j.as_of THEN teams[m] ELSE
             [draft_as_of |-> j.draft_as_of, budget |-> j.season.budget,
              total_salary |-> MapThenSumSet(Salary, j.team),
              total_fp |-> MapThenSumSet(Points, j.team),
              candidates |-> Cardinality(j.pool),
              pool |-> {c \in j.pool : c.games_played > 0}]]
     /\ picks' = IF taken THEN picks ELSE [picks EXCEPT ![j.as_of] = kept \union j.team]
     /\ job' = [job EXCEPT ![w] = IF taken THEN Idle ELSE Finished(w)]
     /\ UNCHANGED <<season, imports, edits>>

\* NoDreamTeam: a stored result is removed, its picks before the row itself.
FindStale(w) ==
  LET m == job[w].as_of
  IN /\ At(w, "remove") /\ (picks[m] # {} => Unlocked(w, m, {"picks"}))
     /\ job' = [job EXCEPT ![w] = IF m \notin DOMAIN teams THEN Finished(w)
                                  ELSE [@ EXCEPT !.pc = "drop", !.gone = picks[m], !.holds = {"picks"}]]
     /\ UNCHANGED <<season, imports, teams, picks, edits>>

\* Picks that have come meanwhile forbid it.
DropStale(w) ==
  LET m == job[w].as_of
      kept == picks[m] \ job[w].gone
  IN /\ At(w, "drop") /\ Unlocked(w, m, {"team"})
     /\ teams' = IF kept # {} THEN teams ELSE Restrict(teams, DOMAIN teams \ {m})
     /\ picks' = IF kept # {} THEN picks ELSE [picks EXCEPT ![m] = {}]
     /\ job' = [job EXCEPT ![w] = IF kept # {} THEN Idle ELSE Finished(w)]
     /\ UNCHANGED <<season, imports, edits>>

\* One who stores and one who removes wait for each other; PostgreSQL aborts one.
\* A crash at any time does the same.
Abort(w) ==
  /\ ~At(w, "idle") /\ job' = [job EXCEPT ![w] = Idle]
  /\ UNCHANGED <<season, imports, teams, picks, edits>>

\* The administrator changes the budget or the draft date.
Edit ==
  /\ edits < MaxEdits /\ edits' = edits + 1
  /\ season' \in [budget : Budgets, signings_open_at : OpeningDays]
  /\ season' # season
  /\ UNCHANGED <<imports, teams, picks, job>>

-----------------------------------------------------------------------------
\* changes: against the newest stored result before.
PreviousOf(m) ==
  LET before == {n \in DOMAIN teams : n < m}
  IN IF before = {} THEN None ELSE Max(before)

PlayersOf(m) == {c.player : c \in picks[m]}
CameIn(m) == IF PreviousOf(m) = None THEN {} ELSE PlayersOf(m) \ PlayersOf(PreviousOf(m))
WentOut(m) == IF PreviousOf(m) = None THEN {} ELSE PlayersOf(PreviousOf(m)) \ PlayersOf(m)

\* missing_reason: why the season has no result.
MissingReason ==
  LET prices == {row.as_of : row \in Draft(season)}
      games == {m \in imports : \E p \in Of(m) : Read[m][p].games_played > 0}
  IN CASE imports = {} -> "no_stats"
       [] imports # {} /\ prices = {} -> "no_prices"
       [] prices # {} /\ ~\E m \in games : m > Max(prices) -> "no_games"
       [] OTHER -> "not_calculated"

Init ==
  /\ season \in [budget : Budgets, signings_open_at : OpeningDays]
  /\ imports = {} /\ edits = 0
  /\ teams = <<>> /\ picks = [m \in Moments |-> {}]
  /\ job = [w \in Workers |-> Idle]

Next ==
  \/ \E w \in Workers :
       \/ BeginImport(w) \/ CommitImport(w) \/ Recalculate(w)
       \/ ReadDraft(w) \/ ReadPoints(w) \/ Solve(w)
       \/ LockTeam(w) \/ DeletePicks(w) \/ StoreTeam(w)
       \/ FindStale(w) \/ DropStale(w) \/ Abort(w)
  \/ Edit

Spec == Init /\ [][Next]_vars

-----------------------------------------------------------------------------
\* Whatever refreshes overlap, a stored team is one that could have been
\* drafted: fifteen players under the budget it names, with the minimums, and
\* its totals and its pool are theirs; and against the result before as many
\* came in as went out.
StoredTeamsAreLegal ==
  \A m \in Moments :
    /\ m \in DOMAIN teams <=> picks[m] # {}
    /\ m \in DOMAIN teams =>
         /\ Legal(picks[m], teams[m].budget)
         /\ teams[m].total_salary = MapThenSumSet(Salary, picks[m])
         /\ teams[m].total_fp = MapThenSumSet(Points, picks[m])
         /\ {c \in picks[m] : c.games_played > 0} \subseteq teams[m].pool
         /\ Cardinality(CameIn(m)) = Cardinality(WentOut(m))

\* The page that says there are no prices or no games yet hides no Dream Team: the
\* newest import gives none.
ReasonIsRight ==
  MissingReason \in {"no_prices", "no_games"} =>
    LET rows == Draft(season)
    IN \/ rows = {} \/ Max(imports) <= Max({row.as_of : row \in rows})
       \/ \A c \in WithPoints(rows, Max(imports)) : c.games_played = 0
=============================================================================
