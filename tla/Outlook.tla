------------------------------ MODULE Outlook ------------------------------
(***************************************************************************)
(* What the pages read off the snapshots: the expected salary, where a     *)
(* salary is heading at the next Sunday update (nba/salary_outlook.py),    *)
(* and what a player gained since the snapshot before.  Every figure has   *)
(* two definitions, one in Python for a player's page and one in SQL for   *)
(* the lists.  Salaries are in steps of $10,000, the curve in thousandths  *)
(* of a million.                                                           *)
(***************************************************************************)
EXTENDS Integers, Sequences, FiniteSets, FiniteSetsExt, Folds, Functions

CONSTANTS
  Players,
  Figures,              \* what an import may read of each player
  None,
  SeasonOpens, SeasonCloses,
  TradeMarketOpens,     \* per season, None without a date
  Week,
  Curve,                \* SALARY_POLYNOMIAL, highest power first
  MIN_SALARY,
  HOTNESS_GAMES,
  LastInstant, MaxImports   \* bounds

Seasons == 1..Len(SeasonOpens)

OutlookConstants ==
  /\ LastInstant \in Nat /\ MaxImports \in Nat /\ Week \in Nat \ {0}
  /\ 1 \in Seasons
  /\ \A s \in Seasons : SeasonOpens[s] \in Nat /\ SeasonCloses[s] \in Nat
  /\ Curve \in Seq(Int) /\ MIN_SALARY \in Nat /\ HOTNESS_GAMES \in Nat /\ None \notin Int
  /\ \A p \in Players : Figures[p] \subseteq
       [salary : Int, fp_per_game : Int \union {None}, games_played : Nat, total_fp : Int]

VARIABLES
  now,
  season,               \* the current one
  snapshots,            \* PlayerSnapshot rows
  mirror,               \* each player's current_* columns
  said                  \* the prediction each player's page showed after each import

vars == <<now, season, snapshots, mirror, said>>

Instants == 0..LastInstant

-----------------------------------------------------------------------------
AtLeast(a, b) == IF a < b THEN b ELSE a

\* quantize, ROUND_HALF_UP: to the steps of $10,000.
Rounded(thousandths) == (thousandths + 5) \div 10

\* Horner's scheme; never below the minimum.
predict_salary(x) ==
  LET salary[i \in 0..Len(Curve)] == IF i = 0 THEN 0 ELSE salary[i - 1] * x + Curve[i]
  IN IF x < 0 THEN MIN_SALARY \div 10 ELSE Rounded(AtLeast(MIN_SALARY, salary[Len(Curve)]))

\* Term by term.
Polynomial(x) ==
  LET power[n \in 0..Len(Curve)] == IF n = 0 THEN 1 ELSE x * power[n - 1]
      millions[i \in 0..Len(Curve)] ==
        IF i = 0 THEN 0 ELSE Curve[i] * power[Len(Curve) - i] + millions[i - 1]
  IN millions[Len(Curve)]

\* A slip: negative points per game follow the curve too.
expected_salary_on_the_curve(x) ==
  IF x = None THEN None ELSE Rounded(AtLeast(MIN_SALARY, Polynomial(x)))

\* NULL without points.
expected_salary_expression(x) ==
  IF x = None THEN None
  ELSE IF x < 0 THEN MIN_SALARY \div 10 ELSE Rounded(AtLeast(MIN_SALARY, Polynomial(x)))

expected_amount(x) == IF x = None THEN None ELSE predict_salary(x)

-----------------------------------------------------------------------------
\* salary_update_moments, up to `until`.
UpdateMoments(s, until) ==
  {m \in Instants : /\ TradeMarketOpens[s] # None /\ m >= TradeMarketOpens[s]
                    /\ (m - TradeMarketOpens[s]) % Week = 0
                    /\ m <= until /\ m <= SeasonCloses[s]}

AllMoments(s) == UpdateMoments(s, SeasonCloses[s])

Of(p, s) == {x \in snapshots : x.player = p /\ x.season = s}
Oldest(rows) == CHOOSE x \in rows : \A y \in rows : x.as_of <= y.as_of
Newest(rows) == CHOOSE x \in rows : \A y \in rows : x.as_of >= y.as_of

Preseason(s) == [kind |-> "preseason", season |-> s, moment |-> SeasonOpens[s]]
AfterUpdate(s, m) == [kind |-> "update", season |-> s, moment |-> m]

\* An update counts once somebody's snapshot has been read after it.
salary_baseline ==
  LET updates == AllMoments(season)
      read == {m \in updates : \E x \in snapshots : x.season = season /\ m <= x.as_of}
  IN IF updates # {} /\ \A m \in updates : m <= now THEN None
     ELSE IF read # {} THEN AfterUpdate(season, Max(read))
     ELSE Preseason(season)

baseline_snapshot(p, b) ==
  LET before == {x \in Of(p, b.season) : x.as_of < b.moment}
      after == {x \in Of(p, b.season) : x.as_of >= b.moment}
  IN IF b.kind = "preseason"
     THEN IF before = {} THEN None ELSE Newest(before)
     ELSE IF after = {} THEN None ELSE Oldest(after)

pick_premium(x, preseason) ==
  IF preseason THEN 0
  ELSE IF x.fp_per_game = None THEN None
  ELSE x.salary - expected_amount(x.fp_per_game)

\* The premium of the snapshot the baseline points at.
premium_at(p, b) ==
  LET x == baseline_snapshot(p, b)
  IN IF x = None THEN None ELSE pick_premium(x, b.kind = "preseason")

predicted_salary(fp_per_game, premium) ==
  IF fp_per_game = None \/ premium = None THEN None
  ELSE AtLeast(MIN_SALARY \div 10, expected_amount(fp_per_game) + premium)

NoOutlook == [premium |-> None, salary |-> None, change |-> None]

\* A player's page, and the rows of a squad (attach_salary_outlook).
salary_outlook(p) ==
  LET b == salary_baseline
      premium == IF b = None THEN None ELSE premium_at(p, b)
      salary == predicted_salary(mirror[p].fp_per_game, premium)
  IN IF mirror[p].salary = None \/ salary = None THEN NoOutlook
     ELSE [premium |-> premium, salary |-> salary, change |-> salary - mirror[p].salary]

\* A slip: GREATEST passes over the part that is NULL.
complete_enough(p, premium) == mirror[p].salary # None /\ mirror[p].fp_per_game # None

complete(p, premium) ==
  mirror[p].salary # None /\ mirror[p].fp_per_game # None /\ premium # None

\* The database twin, for the lists; the premium is annotated on its own.
with_salary_outlook(p) ==
  LET b == salary_baseline
      x == IF b = None THEN None ELSE baseline_snapshot(p, b)
      premium == CASE x = None -> None
                   [] x # None /\ b.kind = "preseason" -> 0
                   [] OTHER -> IF x.fp_per_game = None THEN None
                               ELSE x.salary - expected_salary_expression(x.fp_per_game)
      salary == IF premium = None THEN MIN_SALARY \div 10
                ELSE AtLeast(MIN_SALARY \div 10,
                             expected_salary_expression(mirror[p].fp_per_game) + premium)
  IN IF complete(p, premium)
     THEN [premium |-> premium, salary |-> salary, change |-> salary - mirror[p].salary]
     ELSE [NoOutlook EXCEPT !.premium = premium]

-----------------------------------------------------------------------------
\* past_updates, after a baseline: the updates with a snapshot of the player's own.
AfterMoment(p, m) == {x \in Of(p, season) : x.as_of >= m}
BeforeMoment(p, m) == {x \in Of(p, season) : x.as_of < m}

\* A slip: a week in which nothing was read counts as well.
ReadInAnyWeek(p, m, moments) == AfterMoment(p, m) # {}

\* "Nothing read that week: the next snapshot belongs to a later update."
ReadInItsWeek(p, m, moments) ==
  /\ AfterMoment(p, m) # {}
  /\ \A later \in moments : later > m => Oldest(AfterMoment(p, m)).as_of < later

PastUpdates(p) ==
  LET b == salary_baseline
      moments == UpdateMoments(season, b.moment)
      told == {m \in moments : ReadInItsWeek(p, m, moments)}
      previous(m) == LET earlier == {t \in told : t < m}
                     IN IF earlier = {} THEN Preseason(season) ELSE AfterUpdate(season, Max(earlier))
  IN IF b = None THEN {} ELSE IF b.kind = "preseason" THEN {}
     ELSE {[moment |-> m, before |-> Newest(BeforeMoment(p, m)).as_of,
            predicted |-> predicted_salary(Newest(BeforeMoment(p, m)).fp_per_game,
                                           premium_at(p, previous(m)))]
           : m \in {t \in told : BeforeMoment(p, t) # {}}}

-----------------------------------------------------------------------------
NoChange == [fp |-> None, fp_per_game |-> None, games |-> None, salary |-> None]

Minus(a, b) == IF a = None \/ b = None THEN None ELSE a - b

Change(newer, older) ==
  LET played == newer.games_played > older.games_played
  IN [fp |-> IF played THEN newer.total_fp - older.total_fp ELSE None,
      fp_per_game |-> IF played THEN Minus(newer.fp_per_game, older.fp_per_game) ELSE None,
      games |-> newer.games_played - older.games_played,
      salary |-> newer.salary - older.salary]

\* The two newest snapshots of all, if they are of one season.
latest_fp_change_in(all) ==
  LET newer == Newest(all)
      older == Newest(all \ {newer})
  IN IF Cardinality(all) < 2 THEN NoChange
     ELSE IF newer.season # older.season THEN NoChange ELSE Change(newer, older)

latest_fp_change(p) == latest_fp_change_in({x \in snapshots : x.player = p})

\* The database twin: the mirror, and the snapshot before the newest of its season.
with_latest_fp_change(p) ==
  LET all == {x \in snapshots : x.player = p}
      same == Of(p, Newest(all).season)
      previous == Newest(same \ {Newest(same)})
  IN IF all = {} \/ Cardinality(same) < 2 THEN NoChange ELSE Change(mirror[p], previous)

-----------------------------------------------------------------------------
\* import_stamps: the newest import of a season, as of t.
NewestStamp(s, t) ==
  LET stamps == {x.as_of : x \in {y \in snapshots : y.season = s /\ y.as_of <= t}}
  IN IF stamps = {} THEN None ELSE Max(stamps)

\* A slip: whatever changed last is news.
NewsOfAnyImport(x, s, t) == TRUE

\* "A player the import no longer lists has nothing new."
NewsOfTheImport(x, s, t) == x.as_of = NewestStamp(s, t)

\* roster_latest: what the Latest tab of a roster of season s says of a player after
\* the import at t.
LatestRow(p, s, t) ==
  LET all == {x \in snapshots : x.player = p /\ x.as_of <= t}
      newer == Newest(all)
      change == latest_fp_change_in(all)
  IN IF all = {} THEN NoChange
     ELSE IF NewsOfTheImport(newer, s, t) THEN change ELSE NoChange

LatestGames(row) == IF row.games = None THEN 0 ELSE row.games

-----------------------------------------------------------------------------
\* A slip: a day without a game counts as well.
CountsEveryDay(games, x) == games = <<>> \/ x.games_played >= games[Len(games)].games_played

\* "Rest days drop out, and so does a source correcting the count downwards."
CountsAsGame(games, x) == games = <<>> \/ x.games_played > games[Len(games)].games_played

\* How often the average rose over the newest games: <<times, comparisons>>.
hotness_score(p) ==
  LET all == {x \in snapshots : x.player = p}
      rows == {x \in Of(p, Newest(all).season) : x.fp_per_game # None}
      kept[t \in -1..LastInstant] ==
        IF t = -1 THEN <<>>
        ELSE LET games == kept[t - 1]
             IN IF \E x \in rows : x.as_of = t /\ CountsAsGame(games, x)
                THEN Append(games, CHOOSE x \in rows : x.as_of = t) ELSE games
      games == LET every == kept[LastInstant]
               IN SubSeq(every, AtLeast(1, Len(every) - HOTNESS_GAMES), Len(every))
      rises == {i \in 2..Len(games) : games[i].fp_per_game > games[i - 1].fp_per_game}
  IN IF all = {} THEN None
     ELSE IF Len(games) < 2 THEN None ELSE <<Cardinality(rises), Len(games) - 1>>

\* The same from the definition: a game is a snapshot with more games than any of the
\* season before it; of these the newest HOTNESS_GAMES are looked at.
Hotness(p) ==
  LET all == {x \in snapshots : x.player = p}
      rows == {x \in Of(p, Newest(all).season) : x.fp_per_game # None}
      games == {x \in rows : \A y \in rows : y.as_of < x.as_of => y.games_played < x.games_played}
      compared == {x \in games : /\ \E y \in games : y.as_of < x.as_of
                                 /\ Cardinality({y \in games : y.as_of > x.as_of}) < HOTNESS_GAMES}
      before(x) == Newest({y \in games : y.as_of < x.as_of})
      rises == {x \in compared : x.fp_per_game > before(x).fp_per_game}
  IN IF all = {} \/ compared = {} THEN None ELSE <<Cardinality(rises), Cardinality(compared)>>

-----------------------------------------------------------------------------
Unread == [salary |-> None, fp_per_game |-> None, games_played |-> None, total_fp |-> None]

Init ==
  /\ now = 0 /\ season = 1 /\ snapshots = {}
  /\ mirror = [p \in Players |-> Unread]
  /\ said = {}

\* The day's list; players may be missing from it.
Import(present, read) ==
  /\ \A x \in snapshots : x.as_of < now
  /\ Cardinality({x.as_of : x \in snapshots}) < MaxImports
  /\ snapshots' = snapshots \union
       {[player |-> p, season |-> season, as_of |-> now, salary |-> read[p].salary,
         fp_per_game |-> read[p].fp_per_game, games_played |-> read[p].games_played,
         total_fp |-> read[p].total_fp] : p \in present}
  /\ mirror' = [p \in Players |-> IF p \in present THEN read[p] ELSE mirror[p]]
  /\ UNCHANGED <<now, season, said>>

\* Somebody looks at the players' pages after each import, so that what they said is known.
Unsaid == {x \in snapshots : ~\E t \in said : t.player = x.player /\ t.as_of = x.as_of}

ShowPages ==
  /\ Unsaid # {}
  /\ said' = said \union
       {[player |-> x.player, as_of |-> x.as_of, salary |-> salary_outlook(x.player).salary] : x \in Unsaid}
  /\ UNCHANGED <<now, season, snapshots, mirror>>

\* The administrator makes the next season the current one.  Bound: at the end of the old one.
NextSeason ==
  /\ Unsaid = {}
  /\ season + 1 \in Seasons /\ now >= SeasonCloses[season] - 1
  /\ season' = season + 1
  /\ UNCHANGED <<now, snapshots, mirror, said>>

Tick ==
  /\ Unsaid = {} /\ now < LastInstant /\ now' = now + 1
  /\ UNCHANGED <<season, snapshots, mirror, said>>

Next ==
  \/ \E present \in SUBSET Players \ {{}} :
       \E read \in [present -> UNION {Figures[p] : p \in present}] :
         (\A p \in present : read[p] \in Figures[p]) /\ Import(present, read)
  \/ ShowPages \/ NextSeason \/ Tick

Spec == Init /\ [][Next]_vars

-----------------------------------------------------------------------------
\* What a list sorts by is what the player's page and the rows of a squad print, but
\* that a premium is in the lists even when no salary can be predicted (nothing is known
\* of the player now, or he has no points per game), where the page has none.
FiguresAgree ==
  \A p \in Players :
    LET listed == with_salary_outlook(p)
    IN /\ salary_outlook(p) = IF listed.salary = None THEN NoOutlook ELSE listed
       /\ latest_fp_change(p) = with_latest_fp_change(p)

\* "Each prediction is rebuilt the way it would have been made at the time": a
\* past update shows the prediction the page showed before it.
PredictionsRebuilt ==
  \A p \in Players : \A row \in PastUpdates(p) :
    [player |-> p, as_of |-> row.before, salary |-> row.predicted] \in said

\* What the Latest tab says a player has played, import after import, adds up to what
\* he has played between his first and his newest snapshot of the season: no game is
\* news twice, and none is left out when an import passes him over.
NewsAddsUp ==
  \A p \in Players, s \in Seasons :
    LET stamps == {x.as_of : x \in {y \in snapshots : y.season = s}}
        told == [t \in stamps |-> LatestGames(LatestRow(p, s, t))]
    IN Of(p, s) # {} =>
         SumFunction(told) = Newest(Of(p, s)).games_played - Oldest(Of(p, s)).games_played

\* The hotness of a player is what its definition says.
HotnessIsRight == \A p \in Players : hotness_score(p) = Hotness(p)
=============================================================================
