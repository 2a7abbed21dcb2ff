---------------------------- MODULE RestOfSeason ----------------------------
(***************************************************************************)
(* A player's rest of the season (nba/rest_of_season.py): his team's games *)
(* that are left, less those he misses while he is out, once worked out in *)
(* Python for his page and once in SQL for the lists.  It reads the stored *)
(* schedule (GameSchedule; its `day` is a moment here, DayLength to a day) *)
(* and the player's newest injury report.                                  *)
(***************************************************************************)
EXTENDS GameSchedule

CONSTANTS
  DayLength,
  NoTeam, NoReport, NoDate,
  Reports,              \* what his newest report may say: [status, return_date]
  Healthy, DayToDay,    \* HEALTHY_INJURY_STATUSES, DAY_TO_DAY_INJURY_STATUSES
  PerGame,              \* points per game, in hundredths
  NoPoints,
  EXPECTED_AVAILABILITY \* in percent

BlankIsNeither == "" \notin Healthy \union DayToDay

RestConstants ==
  /\ ScheduleConstants
  /\ NoTeam \notin Teams /\ BlankIsNeither
  /\ PerGame \subseteq Int /\ EXPECTED_AVAILABILITY \in Nat

VARIABLES team, report, fp_per_game

rest == <<team, report, fp_per_game>>

DateOf(moment) == moment \div DayLength

NoFigures == [games_missed |-> NoGame, games_expected |-> NoGame, next_days |-> NoGame]

NotBelowZero(n) == IF n > 0 THEN n ELSE 0

-----------------------------------------------------------------------------
(* The player's page *)

\* A report may have no status: that is healthy here.
InjuryState ==
  IF report = NoReport THEN "healthy"
  ELSE IF report.status \in {""} \union Healthy THEN "healthy"
  ELSE IF report.status \in DayToDay THEN "day_to_day" ELSE "injured"

\* expected_return: "a date left on an old report never leaks through".
ExpectedReturn(state) == IF state = "healthy" THEN NoDate ELSE report.return_date

TeamGames == {g \in SeasonGames : team \in Sides[g]}

\* Still to come or underway, on a date before he is back.
MissedOnPage(state) ==
  IF state = "injured" /\ ExpectedReturn(state) # NoDate
  THEN {g \in TeamGames : /\ stored[g].day > now - GAME_LENGTH
                          /\ DateOf(stored[g].day) < ExpectedReturn(state)}
  ELSE {}

RestIn(state) ==
  LET missed == MissedOnPage(state)
      soon == {g \in missed : stored[g].day < now + NEXT_DAYS}
  IN IF team = NoTeam \/ TeamGames = {} THEN NoFigures
     ELSE [games_missed |-> Cardinality(missed),
           games_expected |-> NotBelowZero(Left(team) - Cardinality(missed)),
           next_days |-> NotBelowZero(TeamSchedule(team).next_days - Cardinality(soon))]

rest_of_season == RestIn(InjuryState)

-----------------------------------------------------------------------------
(* The lists *)

\* with_expected_return: NULL without a report, but not for a blank status.
ExpectedReturnDate ==
  IF report = NoReport THEN NoDate
  ELSE IF report.status \in Healthy THEN NoDate ELSE report.return_date

OutUntilReturn == ExpectedReturnDate # NoDate /\ report.status \notin DayToDay

\* A slip: the game underway is not missed.
MissedFromTipOff(until) ==
  Cardinality({g \in TeamGames : /\ stored[g].day > now /\ stored[g].day < until
                                 /\ DateOf(stored[g].day) < ExpectedReturnDate})

MissedBeforeReturn(until) ==
  Cardinality({g \in TeamGames : /\ stored[g].day > now - GAME_LENGTH /\ stored[g].day < until
                                 /\ DateOf(stored[g].day) < ExpectedReturnDate})

Endless == LastDay + 1

\* Once any team's games are loaded, the games missed are counted of everybody; what is
\* left is NULL for a player of no team, and of one without games.
with_rest_of_season ==
  LET missed(until) == IF OutUntilReturn THEN MissedBeforeReturn(until) ELSE 0
      out == missed(Endless)
  IN IF SeasonGames = {} THEN NoFigures
     ELSE IF TeamGames = {} THEN [NoFigures EXCEPT !.games_missed = out]
     ELSE [games_missed |-> out,
           games_expected |-> NotBelowZero(Left(team) - out),
           next_days |-> NotBelowZero(TeamSchedule(team).next_days - missed(now + NEXT_DAYS))]

-----------------------------------------------------------------------------
(* The projection, in hundredths of a percent of a point *)

Exact(expected) == fp_per_game * expected * EXPECTED_AVAILABILITY
One == 10000

\* Python's round goes to the even neighbour, PostgreSQL's away from zero.
RoundEven(x) ==
  LET n == x \div One  r == x % One
  IN IF r * 2 < One \/ (r * 2 = One /\ n % 2 = 0) THEN n ELSE n + 1

RoundAway(x) == IF x < 0 THEN -((-x + One \div 2) \div One) ELSE (x + One \div 2) \div One

ProjectedOnPage ==
  IF fp_per_game = NoPoints \/ rest_of_season = NoFigures THEN NoPoints
  ELSE RoundEven(Exact(rest_of_season.games_expected))

ProjectedInLists ==
  IF fp_per_game = NoPoints \/ with_rest_of_season.games_expected = NoGame THEN NoPoints
  ELSE RoundAway(Exact(with_rest_of_season.games_expected))

-----------------------------------------------------------------------------
\* The schedule is as it was loaded, the player as he was last read.
RestInit ==
  /\ now = 1 /\ feed = 0 /\ changes = 0 /\ job = 0
  /\ stored \in [Games -> Entry]
  /\ \A g \in Games : /\ stored[g].placed
                      /\ ~stored[g].listed => stored[g] = Unlisted
  /\ team \in Teams \union {NoTeam} /\ report \in Reports \union {NoReport}
  /\ fp_per_game \in PerGame \union {NoPoints}

RestNext == now < LastDay /\ now' = now + 1 /\ UNCHANGED <<feed, changes, job, stored, rest>>

BlankStatus == report # NoReport /\ report.status = ""

\* What the lists make of a report.
ListedState == IF BlankStatus THEN "injured" ELSE InjuryState

\* The page and the lists give a player the same games, but for two things the code
\* does differently: of a report with a blank status the page makes a healthy player
\* and the lists one who is out until its date; and of a player whose team has no game,
\* or who has no team, the lists say that he misses none, as soon as a schedule is
\* loaded, where the page says nothing.  They project the same points, too, unless
\* these lie half way between two.
RestAgrees ==
  /\ with_rest_of_season =
       IF TeamGames = {} /\ SeasonGames # {} THEN [NoFigures EXCEPT !.games_missed = 0]
       ELSE RestIn(ListedState)
  /\ ~BlankStatus /\ ProjectedOnPage # ProjectedInLists =>
       Exact(rest_of_season.games_expected) % One = One \div 2
=============================================================================
