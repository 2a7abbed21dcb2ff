------------------------------- MODULE MCLive -------------------------------
(***************************************************************************)
(* What must eventually happen, component by component, on small instances *)
(* for TLC.  The first state chooses the component the behaviour is of;    *)
(* the variables of the others stay at 0.                                  *)
(***************************************************************************)
EXTENDS Integers, TLC

CONSTANTS w1, w2, w3, p1, p2, n1, t1, i7, s1, u1,
  NoPlayer, Nobody, NoSalary, Absent, Unplaced, NoRow, OldRow, NoId, NoTeam

VARIABLES
  setting,
  now, runs, job,                                                \* of several
  players, snapshots, rowlock,                                   \* PlayerImport
  stats, gone,                                                   \* SeasonStats
  stamp, users, links,                                           \* Accounts
  day, remaining, quota, tally, made, undone, reported_low,              \* RapidApi
  published, player, news, logged, changes,                      \* News
  due, received                                                  \* PayAll

imports == <<players, snapshots, rowlock>>
uploads == <<stats, gone>>
accounts == <<stamp, users, links>>
api == <<day, remaining, quota, tally, made, undone, reported_low>>
newsfeed == <<published, player, news, logged, changes>>

paying == <<due, received>>

vars == <<setting, now, runs, job, imports, uploads, accounts, api, newsfeed, paying>>

One == {w1}
Both == {w1, w2}
All == {w1, w2, w3}

-----------------------------------------------------------------------------
\* One importer, killed at any time.
Imports == INSTANCE PlayerImport WITH
  Importers <- One, Players <- {1}, Salaries <- {s1}, RunningTimeout <- 2,
  MaxRuns <- 2, LastInstant <- 1

\* Two workers, two uploads of a season without stats.
Uploads == INSTANCE SeasonStats WITH
  Workers <- Both, Users <- {u1}, Runs <- 1..2, Players <- {p1, p2}, Seasons <- {s1}, Stored <- {},
  Sources <- {"web"}, Lifetime <- 0, LastInstant <- 0, MayFail <- FALSE, MayVanish <- FALSE

\* Three administrators demote each other.
ThreeAdmins == <<"admin", "admin", "admin">>
OwnAddresses == {<<1, "a">>, <<2, "a">>, <<3, "a">>}

Admins == INSTANCE Accounts WITH
  Workers <- All, People <- 1..3, InitialRoles <- ThreeAdmins, Addresses <- OwnAddresses,
  Kinds <- {"role"}, Grantable <- {"coach"},
  InvitationTimeout <- 2, ResetTimeout <- 1, MaxStamp <- 1, LastInstant <- 0, MaxLinks <- 0

\* Two updates or loads at a time, failing at any point.
Api == INSTANCE RapidApi WITH
  Workers <- Both, Features <- {"injuries", "schedule"}, Failing <- {"injuries", "schedule"},
  LowerLimit <- 1, HigherLimit <- 1, ScheduleLimit <- 1, NewsLimit <- 1, Ranges <- 1,
  Reserve <- 1, MonthlyLimit <- 2, MayForce <- FALSE, OthersLeave <- 9, MaxMade <- 2,
  MonthDays <- 1, LastDay <- 1

\* Two pulls at a time; a player comes after his news, or is given his number by
\* hand.
TwoItems ==
  1 :> [id |-> i7, name |-> n1, team |-> t1] @@ 2 :> [id |-> i7, name |-> n1, team |-> t1]

Pulls == INSTANCE News WITH
  pull <- job, Workers <- Both, Items <- 1..2, Players <- {p1}, Names <- {n1},
  Teams <- {t1}, Ids <- {i7}, NameOf <- p1 :> n1, Says <- TwoItems,
  Window <- 1, ByHand <- TRUE, MayFail <- FALSE, MaxChanges <- 1

\* Two requests over an account's two rosters.
Account == INSTANCE PayAll WITH
  Workers <- Both, Rosters <- 1..2, None <- 0, MaxGrants <- 2

ASSUME
  /\ Imports!ImportConstants /\ Uploads!StatsConstants /\ Admins!AccountConstants
  /\ Api!ApiConstants /\ Pulls!NewsConstants /\ Account!PayAllConstants

-----------------------------------------------------------------------------
NoImports == players = 0 /\ snapshots = 0 /\ rowlock = 0
NoUploads == stats = 0 /\ gone = 0
NoAccounts == stamp = 0 /\ users = 0 /\ links = 0
NoApi == /\ day = 0 /\ remaining = 0 /\ quota = 0 /\ tally = 0 /\ made = 0
         /\ undone = 0 /\ reported_low = 0
NoNews == published = 0 /\ player = 0 /\ news = 0 /\ logged = 0 /\ changes = 0
NoPaying == due = 0 /\ received = 0

Init ==
  \/ /\ setting = "imports" /\ Imports!Init
     /\ NoUploads /\ NoAccounts /\ NoApi /\ NoNews /\ NoPaying
  \/ /\ setting = "uploads" /\ Uploads!Init
     /\ NoImports /\ NoAccounts /\ NoApi /\ NoNews /\ NoPaying
  \/ /\ setting = "admins" /\ Admins!Init
     /\ runs = 0 /\ NoImports /\ NoUploads /\ NoApi /\ NoNews /\ NoPaying
  \/ /\ setting = "api" /\ Api!Init
     /\ now = 0 /\ runs = 0 /\ NoImports /\ NoUploads /\ NoAccounts /\ NoNews /\ NoPaying
  \/ /\ setting = "pulls" /\ Pulls!Init
     /\ now = 0 /\ runs = 0 /\ NoImports /\ NoUploads /\ NoAccounts /\ NoApi /\ NoPaying
  \/ /\ setting = "rosters" /\ Account!Init
     /\ now = 0 /\ runs = 0 /\ NoImports /\ NoUploads /\ NoAccounts /\ NoApi /\ NoNews

\* What a step of the setting's component leaves as it is.
Rest ==
  /\ UNCHANGED setting
  /\ CASE setting = "imports" -> UNCHANGED <<uploads, accounts, api, newsfeed, paying>>
       [] setting = "uploads" -> UNCHANGED <<imports, accounts, api, newsfeed, paying>>
       [] setting = "admins" -> UNCHANGED <<runs, imports, uploads, api, newsfeed, paying>>
       [] setting = "api" -> UNCHANGED <<now, runs, imports, uploads, accounts, newsfeed, paying>>
       [] setting = "pulls" -> UNCHANGED <<now, runs, imports, uploads, accounts, api, paying>>
       [] setting = "rosters" -> UNCHANGED <<now, runs, imports, uploads, accounts, api, newsfeed>>

\* Bound: two requests for the same administrator, one for another.
TwoAreDemoted ==
  \A w \in All : job[w].pc # "idle" => job[w].person = IF w = w3 THEN 3 ELSE 1

Next ==
  /\ Rest
  /\ \/ setting = "imports" /\ Imports!Next
     \/ setting = "uploads" /\ Uploads!Next
     \/ setting = "admins" /\ Admins!Next /\ TwoAreDemoted'
     \/ setting = "api" /\ Api!Next
     \/ setting = "pulls" /\ Pulls!Next
     \/ setting = "rosters" /\ Account!Next

\* The fairness of the components, as they state and justify it.  A behaviour is
\* of one setting, so fairness of the disjunction is fairness of each.
GoOn(w) ==
  /\ Rest
  /\ \/ setting = "uploads" /\ w \in Both /\ Uploads!Step(w)
     \/ setting = "admins" /\ Admins!GoOn(w)
     \/ setting = "api" /\ w \in Both /\ Api!GoOn(w)
     \/ setting = "pulls" /\ w \in Both /\ Pulls!Pull(w)
     \/ setting = "rosters" /\ w \in Both /\ Account!GoOn(w)

WakeUp(w) ==
  /\ Rest
  /\ \/ setting = "imports" /\ w \in One /\ Imports!Start(w)
     \/ setting = "uploads" /\ w \in Both /\ Uploads!Raise(w) /\ Uploads!InDeadlock(w)
     \/ setting = "pulls" /\ w \in Both /\ Pulls!Abort(w) /\ Pulls!InDeadlock(w)

Fairness ==
  /\ \A w \in All : SF_vars(GoOn(w)) /\ WF_vars(WakeUp(w))
  /\ WF_vars(Rest /\ setting = "imports" /\ Imports!Tick)

Spec == Init /\ [][Next]_vars /\ Fairness

-----------------------------------------------------------------------------
\* Runs, uploads, accounts, tallies, links and requests are well-formed.
TypeOK ==
  /\ setting = "imports" => Imports!TypeOK
  /\ setting = "uploads" => Uploads!TypeOK
  /\ setting = "admins" => Admins!TypeOK
  /\ setting = "api" => Api!TypeOK
  /\ setting = "pulls" => Pulls!TypeOK
  /\ setting = "rosters" => Account!TypeOK

\* A run whose worker was killed, or hangs, does not block the next import for
\* ever (RUNNING_TIMEOUT).
MayStart(w) == setting = "imports" /\ job[w].stage = "idle"
NotBlockedForEver == \A w \in One : MayStart(w) ~> ~MayStart(w)

\* Every request ends: confirmations of one season, demotions and requests over an
\* account's rosters that wait for each other in a circle are taken apart, and an
\* injury update that holds its locks while it waits for RapidAPI lets everybody else
\* go on.
Busy(w) == setting \in {"uploads", "admins", "api", "rosters"} /\ w \in DOMAIN job /\ job[w].pc # "idle"
RequestsEnd == \A w \in All : Busy(w) ~> ~Busy(w)

\* Of a season's imports only one at a time has closed the other previews, and a
\* roster is paid by one request at a time, which never pays what another has paid.
TakeTurns ==
  /\ setting = "uploads" => Uploads!ImportsTakeTurns
  /\ setting = "rosters" => Account!PaidUnderLock

\* "Items stored before their player was": an item that was stored without a
\* player, because a pull had read the players before he was there or his number was
\* filled in by hand later, is linked in the end once somebody has its number, or he
\* loses it again; whatever pulls run side by side.
Unlinked(i) == setting = "pulls" /\ Pulls!Linkable(i, p1)
LinkedInTheEnd == \A i \in DOMAIN TwoItems : Unlinked(i) ~> ~Unlinked(i)
=============================================================================
