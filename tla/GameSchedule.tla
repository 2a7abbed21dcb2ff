---------------------------- MODULE GameSchedule ----------------------------
(***************************************************************************)
(* The NBA schedule (nba/schedule.py): loads that ask a feed for one       *)
(* stretch of days after the other, while it changes, and store the season *)
(* as a whole; and what the team pages read off it (nba/team_schedule.py). *)
(* A store is a transaction of its own, here the step that commits it; it  *)
(* takes no time that the clock could tell.                                *)
(***************************************************************************)
EXTENDS Integers, FiniteSets, Folds

CONSTANTS
  Workers,
  Games,               \* ESPN's numbers
  Teams,
  Sides,               \* the two teams of each game
  RangeDays,           \* the longest stretch of days in one request
  LastDay,             \* the last day of the season
  NEXT_DAYS, GAME_LENGTH, REGULAR_SEASON_GAMES,
  MayFail,             \* whether requests fail and workers die
  Changes,             \* what the feed does: "add", "drop", "call_off", "move", "unplace"
  Still,               \* whether the feed changes only between loads
  MaxChanges           \* bound: how often it does

ScheduleConstants ==
  /\ Games \subseteq Nat /\ IsFiniteSet(Games) /\ Sides \in [Games -> SUBSET Teams]
  /\ {RangeDays, LastDay, NEXT_DAYS, GAME_LENGTH} \subseteq Nat \ {0}
  /\ REGULAR_SEASON_GAMES \in Nat /\ MaxChanges \in Nat
  /\ MayFail \in BOOLEAN /\ Still \in BOOLEAN

VARIABLES
  now,
  feed,                \* what the provider lists of each game
  changes,             \* how often it has changed
  stored,              \* Game rows
  job                  \* each worker's load

vars == <<now, feed, changes, stored, job>>

-----------------------------------------------------------------------------
Days == 1..LastDay

\* `listed`: the game is there.  `placed`: both its teams are ones we know.
\* `on`: it counts, being of the regular season and not called off.
Entry == [listed : BOOLEAN, day : Days, on : BOOLEAN, placed : BOOLEAN]
Unlisted == [listed |-> FALSE, day |-> 1, on |-> TRUE, placed |-> TRUE]

Idle == [pc |-> "idle", range |-> 0, got |-> [g \in Games |-> Unlisted], known |-> {}, steady |-> {}]

At(w, pc) == job[w].pc = pc
Loading == \E w \in Workers : ~At(w, "idle")

\* A slip: the last day of a stretch is left out.
RangeOfShort(n) == {d \in Days : (n - 1) * RangeDays < d /\ d < n * RangeDays}

\* ranges: the days of the n-th request.
RangeOf(n) == {d \in Days : (n - 1) * RangeDays < d /\ d <= n * RangeDays}

LastRange == CHOOSE n \in Days : (n - 1) * RangeDays < LastDay /\ LastDay <= n * RangeDays

-----------------------------------------------------------------------------
(* A load *)

\* `steady` are the games that the feed lists from the beginning to the end.
Begin(w) ==
  /\ At(w, "idle")
  /\ job' = [job EXCEPT ![w] = [Idle EXCEPT !.pc = "fetching", !.range = 1,
                                            !.steady = {g \in Games : feed[g].listed}]]
  /\ UNCHANGED <<now, feed, changes, stored>>

\* fetch_range: of a game in two answers the later one counts.
FetchRange(w) ==
  LET n == job[w].range
      here == {g \in Games : feed[g].listed /\ feed[g].day \in RangeOf(n)}
  IN /\ At(w, "fetching")
     /\ job' = [job EXCEPT ![w].got = [g \in Games |-> IF g \in here THEN feed[g] ELSE @[g]],
                           ![w].range = n + 1,
                           ![w].pc = IF n = LastRange THEN "fetched" ELSE "fetching"]
     /\ UNCHANGED <<now, feed, changes, stored>>

\* A slip: half a season is stored.
GivesUpAsFetched(w) == [job[w] EXCEPT !.pc = "fetched"]

GivesUp(w) == Idle

Fail(w) ==
  /\ MayFail /\ At(w, "fetching")
  /\ job' = [job EXCEPT ![w] = GivesUp(w)]
  /\ UNCHANGED <<now, feed, changes, stored>>

Crash(w) ==
  /\ MayFail /\ ~At(w, "idle")
  /\ job' = [job EXCEPT ![w] = Idle]
  /\ UNCHANGED <<now, feed, changes, stored>>

\* The games that are stored already, by their number.
LookUp(w) ==
  /\ At(w, "fetched")
  /\ job' = [job EXCEPT ![w].pc = "storing", ![w].known = {g \in Games : stored[g].listed}]
  /\ UNCHANGED <<now, feed, changes, stored>>

Seen(w) == {g \in Games : job[w].got[g].listed /\ job[w].got[g].placed}

Gone(w) == {g \in Games \ Seen(w) : stored[g].listed /\ stored[g].day > now}

\* _store.  A game that was not known is inserted: when another load has
\* inserted it meanwhile, its number is taken and the whole is rolled back.
Store(w) ==
  /\ At(w, "storing")
  /\ stored' = IF \E g \in Seen(w) \ job[w].known : stored[g].listed
               THEN stored
               ELSE [g \in Games |-> IF g \in Seen(w) THEN job[w].got[g]
                                     ELSE IF g \in Gone(w) THEN Unlisted ELSE stored[g]]
  /\ job' = [job EXCEPT ![w] = Idle]
  /\ UNCHANGED <<now, feed, changes>>

-----------------------------------------------------------------------------
(* The feed *)

Changed(kind, g, entry) ==
  /\ kind \in Changes /\ changes < MaxChanges /\ feed[g].listed = (kind # "add")
  /\ Still => ~Loading
  /\ feed' = [feed EXCEPT ![g] = entry]
  /\ changes' = changes + 1
  /\ job' = [w \in Workers |-> IF entry.listed /\ kind # "add" THEN job[w]
                               ELSE [job[w] EXCEPT !.steady = @ \ {g}]]
  /\ UNCHANGED <<now, stored>>

\* What is still to come is added, dropped, called off or moved; an entry's
\* team may be one nobody knows, as long as a cup game has no opponent.
FeedChanges ==
  \E g \in Games, d \in Days :
    /\ d > now /\ (feed[g].listed => feed[g].day > now)
    /\ \/ Changed("add", g, [Unlisted EXCEPT !.listed = TRUE, !.day = d])
       \/ d = feed[g].day /\ Changed("drop", g, Unlisted)
       \/ d = feed[g].day /\ Changed("call_off", g, [feed[g] EXCEPT !.on = FALSE])
       \/ d # feed[g].day /\ Changed("move", g, [feed[g] EXCEPT !.day = d])
       \/ d = feed[g].day /\ Changed("unplace", g, [feed[g] EXCEPT !.placed = ~@])

Tick ==
  /\ now < LastDay + GAME_LENGTH /\ \A w \in Workers : ~At(w, "storing")
  /\ now' = now + 1
  /\ UNCHANGED <<feed, changes, stored, job>>

-----------------------------------------------------------------------------
(* The team pages *)

Earlier(g, h) == stored[g].day < stored[h].day \/ (stored[g].day = stored[h].day /\ g < h)

\* A slip: the season from its end.
LastFromTheEnd(games) == CHOOSE g \in games : \A h \in games \ {g} : Earlier(g, h)

LastOf(games) == CHOOSE g \in games : \A h \in games \ {g} : Earlier(h, g)

SeasonGames == {g \in Games : stored[g].listed /\ stored[g].on}

NoGame == -1

PlayedBefore == now - GAME_LENGTH

\* One game of a team's entry.
Counted(entry, g) ==
  IF stored[g].day <= PlayedBefore
  THEN [entry EXCEPT !.played = @ + 1]
  ELSE [entry EXCEPT !.next_game = IF @ = NoGame THEN g ELSE @,
                     !.next_days = IF stored[g].day < now + NEXT_DAYS THEN @ + 1 ELSE @]

\* team_schedules: the games in the order of their tip-offs, the last one last.
TeamSchedule(t) ==
  MapThenFoldSet(LAMBDA g, entry : IF t \in Sides[g] THEN Counted(entry, g) ELSE entry,
                 [played |-> 0, next_days |-> 0, next_game |-> NoGame],
                 LAMBDA g : g, LastOf, SeasonGames)

Left(t) ==
  LET n == REGULAR_SEASON_GAMES - TeamSchedule(t).played IN IF n > 0 THEN n ELSE 0

-----------------------------------------------------------------------------
Init ==
  /\ now = 0 /\ changes = 0
  /\ feed = [g \in Games |-> Unlisted]
  /\ stored = [g \in Games |-> Unlisted]
  /\ job = [w \in Workers |-> Idle]

Next ==
  \/ \E w \in Workers : Begin(w) \/ FetchRange(w) \/ Fail(w) \/ Crash(w) \/ LookUp(w) \/ Store(w)
  \/ FeedChanges \/ Tick

Spec == Init /\ [][Next]_vars

-----------------------------------------------------------------------------
(* Properties *)

TypeOK ==
  /\ now \in 0..(LastDay + GAME_LENGTH) /\ changes \in 0..MaxChanges
  /\ feed \in [Games -> Entry] /\ stored \in [Games -> Entry]
  /\ \A t \in Teams : Left(t) \in 0..REGULAR_SEASON_GAMES
  /\ \A w \in Workers : job[w].got \in [Games -> Entry] /\ job[w].range \in 0..(LastDay + 1)

\* "a game still to come that the feed no longer lists is dropped", and no
\* other: a load never removes a game that was listed all the while, and it
\* "drops no game on the strength of half a season".
KeepsListed ==
  \A w \in Workers, g \in Games :
    At(w, "storing") /\ job'[w].pc = "idle" /\ stored[g].listed /\ ~stored'[g].listed
      => g \notin job[w].steady

\* "Every load is stored as a whole": after one, while the feed was still, the
\* stored schedule is the feed's, and of what it no longer lists it has the past.
LoadedWhole ==
  \A w \in Workers : At(w, "storing") /\ job'[w].pc = "idle" /\ stored' # stored =>
    \A g \in Games :
      stored'[g] = IF feed[g].listed THEN feed[g]
                   ELSE IF stored[g].day <= now THEN stored[g] ELSE Unlisted

\* What a team page says, worked out in one walk over the season, is what the
\* games say: how many of its games are over, how many of the rest are within the
\* next days, and which of them is the first.
FiguresAgree ==
  \A t \in Teams :
    LET entry == TeamSchedule(t)
        its == {g \in Games : stored[g].listed /\ stored[g].on /\ t \in Sides[g]}
        open == {g \in its : stored[g].day + GAME_LENGTH > now}
    IN /\ entry.played = Cardinality(its \ open)
       /\ entry.next_days = Cardinality({g \in open : stored[g].day < now + NEXT_DAYS})
       /\ entry.next_game = NoGame <=> open = {}
       /\ open # {} => entry.next_game \in open
       /\ \A g \in open : stored[entry.next_game].day <= stored[g].day
=============================================================================
