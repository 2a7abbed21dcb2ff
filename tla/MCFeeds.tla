------------------------------ MODULE MCFeeds ------------------------------
(***************************************************************************)
(* Small instances of the features that are fed from outside (RapidApi,    *)
(* GameSchedule, News, Injuries) for TLC.  The first state chooses which   *)
(* of them the behaviour is of; the variables of the others stay as they   *)
(* are.  The extended News itself is one pull at a time, which fails,      *)
(* while players come, move and go.                                        *)
(***************************************************************************)
EXTENDS News, TLC

CONSTANTS w1, w2, p1, p2, n1, n2, t1, t2, t3, i7, i9, NoReport

VARIABLES
  setting,
  now, feed,                                             \* of several, like changes and pull
  day, remaining, quota, tally, made, undone, reported_low,      \* of RapidApi
  stored,                                                \* of GameSchedule
  roll, reports                                          \* of Injuries

api == <<day, remaining, quota, tally, made, undone, reported_low>>
games == <<stored>>
newsfeed == <<published, player, news, logged>>
injuries == <<roll, reports>>

MCVars == <<setting, now, feed, changes, pull, api, games, newsfeed, injuries>>

One == {w1}
Both == {w1, w2}
SameName == p1 :> n1 @@ p2 :> n1
TwoNames == p1 :> n1 @@ p2 :> n2

-----------------------------------------------------------------------------
\* Updates and loads side by side, of one provider; both fail.
Limits == INSTANCE RapidApi WITH
  job <- pull, Workers <- Both, Features <- {"injuries", "schedule"}, Failing <- {"injuries", "schedule"},
  LowerLimit <- 1, HigherLimit <- 2, ScheduleLimit <- 1, NewsLimit <- 1, Ranges <- 1,
  Reserve <- 1, MonthlyLimit <- 4, MayForce <- FALSE, OthersLeave <- 9, MaxMade <- 3,
  MonthDays <- 2, LastDay <- 2

\* One load or pull at a time, beside other servers, over two months.
Month == INSTANCE RapidApi WITH
  job <- pull, Workers <- One, Features <- {"schedule", "news"}, Failing <- {"schedule", "news"},
  LowerLimit <- 1, HigherLimit <- 2, ScheduleLimit <- 1, NewsLimit <- 1, Ranges <- 2,
  Reserve <- 2, MonthlyLimit <- 4, MayForce <- TRUE, OthersLeave <- 1, MaxMade <- 9,
  MonthDays <- 1, LastDay <- 2

-----------------------------------------------------------------------------
Three == {t1, t2, t3}
TwoGames == <<{t1, t2}, {t1, t3}>>

\* One load at a time, of a feed that changes in between.
Whole == INSTANCE GameSchedule WITH
  job <- pull, Workers <- One, Games <- 1..2, Teams <- Three, Sides <- TwoGames,
  RangeDays <- 2, LastDay <- 4, NEXT_DAYS <- 2, GAME_LENGTH <- 1, REGULAR_SEASON_GAMES <- 1,
  MayFail <- FALSE, Still <- TRUE, Changes <- {"add", "drop", "call_off", "move"}, MaxChanges <- 4

\* Two loads at a time, of a feed that changes all the time.
Together == INSTANCE GameSchedule WITH
  job <- pull, Workers <- Both, Games <- 1..2, Teams <- Three, Sides <- TwoGames,
  RangeDays <- 2, LastDay <- 4, NEXT_DAYS <- 2, GAME_LENGTH <- 1, REGULAR_SEASON_GAMES <- 1,
  MayFail <- TRUE, Still <- FALSE, Changes <- {"add", "drop"}, MaxChanges <- 2

-----------------------------------------------------------------------------
\* Two players of one name; the second item names one of them by number.
Four == 1..4
FourItems ==
  1 :> [id |-> i7, name |-> n1, team |-> t1] @@ 2 :> [id |-> i9, name |-> n1, team |-> t2]
  @@ 3 :> [id |-> i7, name |-> n2, team |-> t1] @@ 4 :> [id |-> i7, name |-> n2, team |-> t1]
TwoItems ==
  1 :> [id |-> i7, name |-> n1, team |-> t1] @@ 2 :> [id |-> NoId, name |-> n1, team |-> t1]

\* Two pulls at a time, beside administrators.
Beside == INSTANCE News WITH
  Workers <- Both, Items <- 1..2, Teams <- {t1}, Ids <- {i7},
  NameOf <- SameName, Says <- TwoItems,
  Window <- 1, ByHand <- TRUE, MayFail <- FALSE, MaxChanges <- 2

-----------------------------------------------------------------------------
FourEntries ==
  1 :> [id |-> i7, name |-> n1, team |-> t1, group |-> t1, status |-> "out"]
  @@ 2 :> [id |-> i7, name |-> n1, team |-> NoTeam, group |-> t2, status |-> "day-to-day"]
  @@ 3 :> [id |-> NoId, name |-> n2, team |-> t1, group |-> t1, status |-> "out"]
  @@ 4 :> [id |-> i9, name |-> n1, team |-> t1, group |-> t2, status |-> ""]
Statuses == {"out", "day-to-day", "healthy", "returned", ""}

\* One update at a time; players move and leave.
Hurt == INSTANCE Injuries WITH
  update <- pull, Workers <- One, Teams <- {t1, t2}, NameOf <- TwoNames,
  Entries <- 1..4, Entry <- FourEntries, Status <- Statuses,
  Healthy <- {"healthy", "returned"}, DayToDay <- {"day-to-day"}, Recovered <- "healthy",
  LastInstant <- 1, MaxReports <- 3

ASSUME
  /\ Limits!ApiConstants /\ Month!ApiConstants
  /\ Whole!ScheduleConstants /\ Together!ScheduleConstants
  /\ NewsConstants /\ Beside!NewsConstants
  /\ Hurt!InjuryConstants /\ Hurt!BlankIsNeither

-----------------------------------------------------------------------------
NoClock == now = 0 /\ feed = 0
NoApi == /\ day = 0 /\ remaining = 0 /\ quota = 0 /\ tally = 0 /\ made = 0
         /\ undone = 0 /\ reported_low = 0
NoGames == stored = 0
NoNews == published = 0 /\ player = 0 /\ news = << >> /\ logged = FALSE
NoInjuries == roll = 0 /\ reports = 0

MCInit ==
  \/ /\ NoClock /\ changes = 0 /\ NoGames /\ NoNews /\ NoInjuries
     /\ \/ setting = "limits" /\ Limits!Init
        \/ setting = "month" /\ Month!Init
  \/ /\ NoApi /\ NoNews /\ NoInjuries
     /\ \/ setting = "whole" /\ Whole!Init
        \/ setting = "together" /\ Together!Init
  \/ /\ NoClock /\ NoApi /\ NoGames /\ NoInjuries
     /\ \/ setting = "pulls" /\ Init
        \/ setting = "by_hand" /\ Beside!Init
  \/ /\ NoApi /\ NoGames /\ NoNews /\ changes = 0
     /\ setting = "hurt" /\ Hurt!Init

MCNext ==
  /\ UNCHANGED setting
  /\ \/ /\ UNCHANGED <<now, feed, changes, games, newsfeed, injuries>>
        /\ \/ setting = "limits" /\ Limits!Next
           \/ setting = "month" /\ Month!Next
     \/ /\ UNCHANGED <<api, newsfeed, injuries>>
        /\ \/ setting = "whole" /\ Whole!Next
           \/ setting = "together" /\ Together!Next
     \/ /\ UNCHANGED <<now, feed, api, games, injuries>>
        /\ \/ setting = "pulls" /\ Next
           \/ setting = "by_hand" /\ Beside!Next
     \/ /\ UNCHANGED <<changes, api, games, newsfeed>>
        /\ setting = "hurt" /\ Hurt!Next

MCSpec == MCInit /\ [][MCNext]_MCVars

-----------------------------------------------------------------------------
\* No more requests go out than a day's limit, whoever asks at the same time and
\* whatever fails, but for one more for each update that failed after its request;
\* and so it is with a user's lower limit.
LimitsKept ==
  /\ [](setting = "limits" => Limits!DailyLimitKept)
  /\ [][setting = "limits" => Limits!UsersGetTheLowerLimit]_MCVars

\* Once a response of the month has reported too few requests left, none is let
\* past the check, as long as requests do not overlap; and a report that speaks
\* of an earlier month stops nobody.
StopsAtTheReserve ==
  [][setting = "month" => Month!StopsOnceReported /\ Month!NotStoppedForNothing]_MCVars

\* After a load of a feed that was still, the stored schedule is the feed's; and
\* no load, whatever runs beside it, removes a game that was listed all the while
\* and kept its day.  (`together` has no moves: a game that moves into a stretch
\* the load has fetched, out of one it has not, is in no answer, and removed.)
LoadsAreTrue ==
  /\ [][setting = "whole" => Whole!LoadedWhole]_MCVars
  /\ [][setting = "together" => Together!KeepsListed]_MCVars

\* A link survives a pull, whoever has set it and whatever runs beside it; and
\* an item a pull has linked is linked to the one player with its number, as
\* long as pulls do not overlap and nobody links by hand.
LinksHold ==
  /\ [](setting = "pulls" => LinksAgree)
  /\ [][setting = "by_hand" => Beside!LinksSurvive]_MCVars

\* After an update every player is as the feed says, as long as updates do not overlap.
FeedIsTold == [][setting = "hurt" => Hurt!FeedIsTold]_MCVars

\* Nobody is declared healthy by a feed that is empty or names him as hurt.
NeverHealedUnseen == [][setting = "hurt" => Hurt!NeverHealedUnseen]_MCVars

\* How hurt a player is comes out the same on his page, in the list's filter and in
\* an update, but for a report without a status; and a team's figures, worked out in
\* one walk over the season, are those of its games.
TwinsAgree ==
  /\ setting = "whole" => Whole!FiguresAgree
  /\ setting = "hurt" => Hurt!PagesAgree

Symmetry == Permutations(Both)
=============================================================================
