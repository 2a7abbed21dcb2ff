---------------------------- MODULE MCSeasonStats ----------------------------
(***************************************************************************)
(* Small instances of SeasonStatsFile and SeasonStats for TLC.  The first  *)
(* state chooses which of them the behaviour is of; the variables of the   *)
(* other stay as they are.  The instance with two workers and three        *)
(* uploads, which nothing disturbs, is the extended SeasonStats itself.    *)
(***************************************************************************)
EXTENDS SeasonStats, SeasonStatsFile

CONSTANTS w1, w2, u1, u2, p1, p2, s1, s2,
  n1, n2, n3, k1, k2, k3, t1, t2

VARIABLE setting

MCVars == <<setting, vars, file_vars>>

\* One worker, whose imports fail and whose players are deleted.
Vanish == INSTANCE SeasonStats WITH
  Workers <- {w1}, Users <- {u1}, Stored <- {p1}, Sources <- {"web"},
  Lifetime <- 0, LastInstant <- 1, MayFail <- TRUE, MayVanish <- TRUE

\* One worker: web and command, two superusers, uploads that expire, failures.
Life == INSTANCE SeasonStats WITH
  Workers <- {w1}, Users <- {u1, u2}, Stored <- {p1}, Sources <- {"web", "command", "dry_run"},
  Lifetime <- 0, LastInstant <- 1, MayFail <- TRUE, MayVanish <- FALSE

\* Every file of up to three of these lines, two players with any keys.
Keyed == n1 :> k1 @@ n2 :> k2 @@ n3 :> k3
Nickname == k1 :> k3 @@ k2 :> NoKey @@ k3 :> NoKey

Calm == [points |-> 250, rebounds |-> 71, assists |-> 53, steals |-> 9, blocks |-> 4,
         turnovers |-> 20, field_goals_made |-> 90, field_goals_attempted |-> 181,
         free_throws_made |-> 50, free_throws_attempted |-> 61, personal_fouls |-> 22]
\* Rounded averages: more made than attempted.
Rounded == [Calm EXCEPT !.field_goals_attempted = 89]
Excess == [Calm EXCEPT !.points = 991]

Line(name, team, played, comma, sheet) ==
  [blank |-> FALSE, name |-> name, team |-> team, games_played |-> played,
   comma |-> comma, sheet |-> sheet]

AnyLine ==
  {Line(n1, t1, 820, FALSE, Calm), Line(n2, t2, 10, FALSE, Rounded),
   Line(n3, t2, 820, TRUE, Calm), Line(n2, t1, 15, FALSE, Calm),
   Line(n1, t2, 830, FALSE, Calm), Line(n2, t1, 20, FALSE, Excess),
   Line(Blank, t1, 0, FALSE, Calm), [Line(Blank, t1, 0, FALSE, Calm) EXCEPT !.blank = TRUE]}

\* One upload of one worker, whose import raises.
Raising == INSTANCE SeasonStats WITH
  Workers <- {w1}, Users <- {u1}, Runs <- {1}, Players <- {p1}, Seasons <- {s1}, Stored <- {p1},
  Sources <- {"web"}, Lifetime <- 0, LastInstant <- 0, MayFail <- TRUE, MayVanish <- FALSE

ASSUME
  /\ StatsConstants /\ Vanish!StatsConstants /\ Life!StatsConstants
  /\ Raising!StatsConstants /\ FileConstants

-----------------------------------------------------------------------------
NoPreview == file = 0 /\ players = 0 /\ step = "none" /\ NothingYet

MCInit ==
  \/ /\ NoPreview
     /\ \/ setting = "confirm" /\ Init
        \/ setting = "vanish" /\ Vanish!Init
        \/ setting = "life" /\ Life!Init
  \/ setting = "file" /\ FileInit /\ Init

\* Bounds: two uploads except where nothing else happens, one season except
\* where there is one worker and nobody is deleted.
Bounded ==
  /\ setting # "confirm" =>
       \A w \in DOMAIN job : job[w].kind = "upload" => runs[2].status = "absent"
  /\ setting # "life" => \A w \in DOMAIN job : job[w].season = s1

MCNext ==
  /\ UNCHANGED setting
  /\ \/ /\ \/ setting = "confirm" /\ Next
           \/ setting = "vanish" /\ Vanish!Next
           \/ setting = "life" /\ Life!Next
        /\ UNCHANGED file_vars /\ Bounded'
     \/ setting = "file" /\ FileNext /\ UNCHANGED vars

MCSpec == MCInit /\ [][MCNext]_MCVars

\* An import that raises, alone.
RaisingSpec ==
  /\ setting = "raising" /\ Raising!Init /\ NoPreview
  /\ [][UNCHANGED <<setting, file_vars>> /\ Raising!Next]_MCVars

-----------------------------------------------------------------------------
\* The numbers a preview shows are the numbers its import writes, as long as
\* imports do not overlap.
AloneNumbersHold == [][setting = "life" => Life!NumbersHold]_MCVars

\* An import that fails is recorded as failed (FAILED, with its error).
EveryFailureRecorded == [][Raising!FailuresRecorded]_MCVars

Symmetry == Permutations({w1, w2})
=============================================================================
