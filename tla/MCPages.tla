------------------------------- MODULE MCPages -------------------------------
(***************************************************************************)
(* Small instances for TLC of what the pages show and what one account     *)
(* owns: the refund of a release (Roster, one request at a time), what the *)
(* pages of a roster offer (RosterPage), Outlook, RestOfSeason, Timeline,  *)
(* DreamTeam, Ownership and Marks.  The first state chooses which of them  *)
(* the behaviour is of.  The extended module itself is of the refunds; the *)
(* others are instances, and the variables a setting has no use for stay   *)
(* as they are.                                                            *)
(***************************************************************************)
EXTENDS Roster, TLC

CONSTANTS w1, w2, p1, p2, p3, p4, t1, t2, t3, s1, s2, n1, n2, n3, None,
  NoTeam, NoReport, Unused, Deleted

VARIABLES
  setting,
  calendar, job,                                         \* of several
  snapshots, mirror, said,                               \* of Outlook
  feed, changes, stored, team, report, fp_per_game,      \* of RestOfSeason
  spells, trades,                                        \* of Timeline
  imports, teams, picks, edits,                          \* of DreamTeam
  nick_name, rosters,                                    \* of Ownership
  entry, note                                            \* of Marks

ledger == <<salary, grants, lock, pc, req, seen, at, paid, cash, trades_available, squad, log>>
outlook == <<snapshots, mirror, said>>
rest == <<feed, changes, stored, team, report, fp_per_game>>
timeline == <<spells, trades>>
dream == <<imports, teams, picks, edits>>
owned == <<nick_name, rosters>>
marked == <<entry, note>>

MCVars == <<setting, now, calendar, job, ledger, outlook, rest, timeline, dream, owned, marked>>

Both == {w1, w2}

-----------------------------------------------------------------------------
\* The extended module: one owner signs and releases two players, while imports
\* move their prices.
NoGrants == [id \in {} |-> 0]

\* A roster of one through a season: it is full with a forward and short of guards.
OneGrantAt == [id \in {s1} |-> 3]
OneGrantOf == [id \in {s1} |-> 1]
GuardAndForward == p1 :> "G" @@ p2 :> "F"

Page == INSTANCE RosterPage WITH
  Workers <- {w1}, Players <- {p1, p2}, Active <- {p1, p2}, Salaries <- {1, 2},
  StartingCash <- 2, StartingTrades <- 0,
  RosterSize <- 1, TradeBuyPrice <- 1, TradeSellPrice <- 1,
  Ops <- {"buy", "sell", "trade", "buy_trade", "sell_trade"},
  SeasonOpenAt <- 3, SeasonCloseAt <- 5, SigningsOpenAt <- NoDate, SigningsCloseAt <- 2,
  TradeMarketOpensAt <- 4, TradeMarketClosesAt <- 5,
  WeeklyTradesFrom <- NoDate, WeeklyTradesPerWeek <- 0, Week <- 7,
  GrantIds <- {s1}, GrantedAt <- OneGrantAt, GrantTrades <- OneGrantOf, LastInstant <- 6,
  Position <- GuardAndForward, MINIMUM_BY_POSITION <- [G |-> 2, F |-> 1]

\* Three imports in two overlapping seasons, an update every other moment.
Fig(amount, fp, games, total) ==
  [salary |-> amount, fp_per_game |-> fp, games_played |-> games, total_fp |-> total]

Look == INSTANCE Outlook WITH
  season <- calendar,
  Players <- {p1, p2},
  Figures <- p1 :> {Fig(60, 10, 3, 30), Fig(52, -5, 4, 25), Fig(55, None, 0, 0), Fig(55, 12, 5, 60)}
             @@ p2 :> {Fig(50, 4, 2, 8)},
  SeasonOpens <- <<1, 5>>, SeasonCloses <- <<5, 8>>, TradeMarketOpens <- <<1, None>>,
  Week <- 2, Curve <- <<3, -10, 505>>, MIN_SALARY <- 500, HOTNESS_GAMES <- 1, LastInstant <- 5, MaxImports <- 3

\* Two games of three, which one of the teams has no part in; a report with or without
\* a status, and with or without a date of return.
Left == INSTANCE RestOfSeason WITH
  Workers <- {}, Games <- 1..2, Teams <- {t1, t2, t3}, Sides <- <<{t1, t2}, {t1, t2}>>,
  RangeDays <- 1, LastDay <- 6, NEXT_DAYS <- 2, GAME_LENGTH <- 1, REGULAR_SEASON_GAMES <- 3,
  MayFail <- FALSE, Still <- TRUE, Changes <- {}, MaxChanges <- 0,
  DayLength <- 2, NoDate <- -1,
  Reports <- [status : {"healthy", "day-to-day", "out", ""}, return_date : {-1, 1, 2, 3}],
  Healthy <- {"healthy"}, DayToDay <- {"day-to-day"},
  PerGame <- {1000, -333}, NoPoints <- -9999, EXPECTED_AVAILABILITY <- 85

\* Three players pass through a roster of two, before and after it is drawn.
Chart == INSTANCE Timeline WITH
  season <- calendar,
  Players <- {p1, p2, p3},
  Seasons <- {[signings_close_at |-> 3, season_open_at |-> 4],
              [signings_close_at |-> 3, season_open_at |-> 1],
              [signings_close_at |-> None, season_open_at |-> 2]},
  ROSTER_SIZE <- 2,
  TotalFp <- p1 :> <<0, 3, 3, 7, 9, 11>> @@ p2 :> <<1, 1, 2, 5, 5, 5, 9>> @@ p3 :> <<>>,
  LastInstant <- 6

\* Two servers, two imports, four players; the budget and the opening day move.
R(amount, points, games) == [salary |-> amount, points |-> points, games_played |-> games]

Dream == INSTANCE DreamTeam WITH
  season <- calendar,
  Workers <- Both, Players <- {p1, p2, p3, p4},
  Position <- p1 :> "G" @@ p2 :> "F" @@ p3 :> "F" @@ p4 :> "G",
  Read <- <<p1 :> R(3, 0, 0) @@ p2 :> R(3, 0, 0) @@ p3 :> R(1, 0, 0) @@ p4 :> R(1, 0, 0),
            p1 :> R(2, 10, 1) @@ p2 :> R(4, 9, 1) @@ p3 :> R(1, 2, 1)>>,
  Budgets <- {3, 6}, OpeningDays <- {None, 2}, TipOff <- 3, ROSTER_SIZE <- 2,
  MINIMUM_BY_POSITION <- [G |-> 1], MaxEdits <- 2

\* Two requests at a time about profiles, and about seasons; two of the three
\* nicknames are the same but for capitals.
SpeltAlike == n1 :> 1 @@ n2 :> 1 @@ n3 :> 2

Handles == INSTANCE Ownership WITH
  season <- calendar, roster <- rosters,
  Workers <- Both, Seasons <- {s1}, Profiles <- 1..2, Rosters <- 1..2,
  Nicknames <- {n1, n2}, Names <- {n1, n3}, Folded <- SpeltAlike, DefaultNickname <- n1,
  Kinds <- {"create_profile", "rename_profile", "delete_profile",
            "create_roster", "rename_roster", "delete_roster"}

Frames == INSTANCE Ownership WITH
  season <- calendar, roster <- rosters,
  Workers <- Both, Seasons <- {s1, s2}, Profiles <- {1}, Rosters <- 1..2,
  Nicknames <- {n1}, Names <- {n1}, Folded <- SpeltAlike, DefaultNickname <- n1,
  Kinds <- {"save_season", "delete_season", "create_roster", "delete_roster"}

\* Two tabs of one account, and another account.
Opinions == INSTANCE Marks WITH
  Workers <- Both, Accounts <- {s1, s2}, Notes <- 1..2, Texts <- {n1, n2}

ASSUME
  /\ Page!RosterPageConstants /\ Look!OutlookConstants
  /\ Left!RestConstants /\ Chart!TimelineConstants /\ Chart!TotalsGrow /\ Dream!DreamTeamConstants
  /\ Handles!OwnershipConstants /\ Frames!OwnershipConstants /\ Opinions!MarksConstants

-----------------------------------------------------------------------------
NoLedger == /\ salary = 0 /\ grants = 0 /\ lock = 0 /\ pc = 0 /\ req = 0 /\ seen = 0 /\ at = 0
            /\ paid = 0 /\ cash = 0 /\ trades_available = 0 /\ squad = 0 /\ log = <<>>
NoOutlook == snapshots = 0 /\ mirror = 0 /\ said = 0
NoRest == feed = 0 /\ changes = 0 /\ stored = 0 /\ team = 0 /\ report = 0 /\ fp_per_game = 0
NoTimeline == spells = 0 /\ trades = 0
NoDream == imports = 0 /\ teams = 0 /\ picks = 0 /\ edits = 0
NoOwned == nick_name = 0 /\ rosters = 0
NoMarks == entry = 0 /\ note = 0

MCInit ==
  \/ /\ \/ setting = "refund" /\ Init
        \/ setting = "page" /\ Page!Init
     /\ calendar = 0 /\ job = 0
     /\ NoOutlook /\ NoRest /\ NoTimeline /\ NoDream /\ NoOwned /\ NoMarks
  \/ /\ setting = "outlook" /\ Look!Init /\ job = 0
     /\ NoLedger /\ NoRest /\ NoTimeline /\ NoDream /\ NoOwned /\ NoMarks
  \/ /\ setting = "rest" /\ Left!RestInit /\ calendar = 0
     /\ NoLedger /\ NoOutlook /\ NoTimeline /\ NoDream /\ NoOwned /\ NoMarks
  \/ /\ setting = "timeline" /\ Chart!Init /\ job = 0
     /\ NoLedger /\ NoOutlook /\ NoRest /\ NoDream /\ NoOwned /\ NoMarks
  \/ /\ setting = "dream" /\ Dream!Init /\ now = 0
     /\ NoLedger /\ NoOutlook /\ NoRest /\ NoTimeline /\ NoOwned /\ NoMarks
  \/ /\ \/ setting = "profiles" /\ Handles!Init
        \/ setting = "seasons" /\ Frames!Init
     /\ now = 0 /\ NoLedger /\ NoOutlook /\ NoRest /\ NoTimeline /\ NoDream /\ NoMarks
  \/ /\ setting = "marks" /\ Opinions!Init /\ now = 0 /\ calendar = 0
     /\ NoLedger /\ NoOutlook /\ NoRest /\ NoTimeline /\ NoDream /\ NoOwned

\* What a step of the setting's component leaves as it is.
Rest ==
  /\ UNCHANGED setting
  /\ CASE setting \in {"refund", "page"} ->
            UNCHANGED <<calendar, job, outlook, rest, timeline, dream, owned, marked>>
       [] setting = "outlook" -> UNCHANGED <<job, ledger, rest, timeline, dream, owned, marked>>
       [] setting = "rest" -> UNCHANGED <<calendar, ledger, outlook, timeline, dream, owned, marked>>
       [] setting = "timeline" -> UNCHANGED <<job, ledger, outlook, rest, dream, owned, marked>>
       [] setting = "dream" -> UNCHANGED <<now, ledger, outlook, rest, timeline, owned, marked>>
       [] setting = "marks" -> UNCHANGED <<now, calendar, ledger, outlook, rest, timeline, dream, owned>>
       [] OTHER -> UNCHANGED <<now, ledger, outlook, rest, timeline, dream, marked>>

MCNext ==
  /\ Rest
  /\ \/ setting = "refund" /\ Next
     \/ setting = "page" /\ Page!Next
     \/ setting = "outlook" /\ Look!Next
     \/ setting = "rest" /\ Left!RestNext
     \/ setting = "timeline" /\ Chart!Next
     \/ setting = "dream" /\ Dream!Next
     \/ setting = "profiles" /\ Handles!Next
     \/ setting = "seasons" /\ Frames!Next
     \/ setting = "marks" /\ Opinions!Next

MCSpec == MCInit /\ [][MCNext]_MCVars

-----------------------------------------------------------------------------
\* What a page of a roster offers, the services accept, but for a player to fill a
\* full squad that is short of a position, and for a trade of a player without a
\* price; its reasons are true, and its dialog agrees with it.  A figure with one
\* definition in Python and another in SQL is one figure: the salary outlook, its
\* prediction rebuilt for an earlier week, the hotness and the rest of a season, but
\* for the premium of a player who costs nothing yet, the games missed by one whose
\* team has none, and a report without a status.  What the Latest tabs tell adds up.
PagesAgree ==
  /\ setting = "page" => /\ Page!OffersAreKept /\ Page!DialogIsOfOnePiece
                         /\ Page!ReasonsAreTrue
  /\ setting = "outlook" => /\ Look!FiguresAgree /\ Look!PredictionsRebuilt
                            /\ Look!NewsAddsUp /\ Look!HotnessIsRight
  /\ setting = "rest" => Left!RestAgrees

\* The chart draws every spell in a lane of its own, at most as many as a roster has
\* places, and counts no point twice.
TimelineHolds == setting = "timeline" => Chart!LanesHold /\ Chart!PointsCountedOnce

\* A stored Dream Team is legal with its picks, and where there is none the page
\* gives the reason that is true.
DreamTeamsHold == setting = "dream" => Dream!StoredTeamsAreLegal /\ Dream!ReasonIsRight

\* A dialog that meets no other request refuses in a sentence what the database
\* would refuse, and takes no roster with it; one that meets another may only take
\* the rosters begun since it looked, with their profile.  Whoever overlaps, the
\* current season is handed over without a gap, and a mark on a player and a note
\* change by their own button and their own author.
OwnershipHolds ==
  /\ [](/\ setting = "profiles" => Handles!AloneNeverFails
        /\ setting = "seasons" => Frames!AloneNeverFails)
  /\ [][/\ setting = "profiles" => Handles!Steps
        /\ setting = "seasons" => Frames!Steps
        /\ setting = "marks" => Opinions!MarkSteps]_MCVars
=============================================================================
