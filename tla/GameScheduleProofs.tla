------------------------- MODULE GameScheduleProofs -------------------------
(***************************************************************************)
(* Proofs about the loads of the NBA schedule, for any number of workers,  *)
(* games and days: a load of a feed that is still stores it as a whole,    *)
(* and no load removes a game that was listed all the while, whatever else *)
(* the feed does and whatever loads fail or run beside it.  What a team    *)
(* page reads off the schedule hangs together.  What is worked out twice   *)
(* comes out the same: a player's rest of the season, read off the         *)
(* schedule, and the salary outlook and the latest changes, read off the   *)
(* snapshots; a prediction is rebuilt as it was made, the news adds up,    *)
(* and the hotness follows its definition.                                 *)
(***************************************************************************)
EXTENDS RestOfSeason, FiniteSetTheorems, FunctionTheorems, SequenceTheorems, WellFoundedInduction, TLAPS

\* A game keeps its two teams.  In a feed that unplaces a listed game this game
\* would be dropped like one that is not listed.
Instance == ScheduleConstants /\ "unplace" \notin Changes

-----------------------------------------------------------------------------
(* Numbers *)

\* Every nonempty set of naturals has a least member.
LEMMA LeastNumber ==
  ASSUME NEW T \in SUBSET Nat, T # {}
  PROVE  \E m \in T : \A n \in T : m <= n
<1> DEFINE R == OpToRel(<, Nat)
<1>1. IsWellFoundedOn(R, Nat)
  BY NatLessThanWellFounded
<1>2. \A x, y \in Nat : y < x => <<y, x>> \in R
  BY DEF OpToRel
<1> HIDE DEF R
<1>3. PICK x \in T : \A y \in T : ~(<<y, x>> \in R)
  BY <1>1, WFMin
<1>4. \A y \in T : ~(y < x)
  BY <1>2, <1>3
<1> QED BY <1>4

\* Induction, carried by a set.
LEMMA SetInduction ==
  ASSUME NEW T, 0 \in T, \A n \in Nat : n \in T => n + 1 \in T
  PROVE  Nat \subseteq T
<1> SUFFICES ASSUME Nat \ T # {} PROVE FALSE
  OBVIOUS
<1>1. PICK m \in Nat \ T : \A n \in Nat \ T : m <= n
  <2> DEFINE U == Nat \ T
  <2> U \in SUBSET Nat /\ U # {}
    OBVIOUS
  <2> HIDE DEF U
  <2>1. \E x \in U : \A n \in U : x <= n
    BY LeastNumber
  <2> QED BY <2>1 DEF U
<1>2. m # 0
  OBVIOUS
<1>3. m - 1 \in Nat /\ m - 1 \in T
  BY <1>1, <1>2
<1> QED BY <1>1, <1>3

-----------------------------------------------------------------------------
(* The stretches of days *)

LEMMA Division ==
  ASSUME NEW a \in Int, NEW m \in Nat \ {0}
  PROVE  /\ a \div m \in Int /\ a % m \in Int
         /\ a = m * (a \div m) + (a % m) /\ 0 <= a % m /\ a % m < m
OBVIOUS

\* There is a last stretch, and it reaches the last day.
LEMMA TheLastRange ==
  ASSUME ScheduleConstants
  PROVE  LastRange \in Days /\ LastDay <= LastRange * RangeDays
<1> DEFINE R == RangeDays
           q == (LastDay - 1) \div R
           r == (LastDay - 1) % R
<1>1. R \in Nat \ {0} /\ LastDay \in Nat \ {0}
  BY DEF ScheduleConstants
<1>2. q \in Int /\ r \in Int /\ LastDay - 1 = R * q + r /\ 0 <= r /\ r < R
  <2>1. LastDay - 1 \in Int
    BY <1>1
  <2> QED BY <1>1, <2>1, Division
<1> HIDE DEF R, q, r
<1>3. R * q \in Int /\ (q + 1) * R = R * q + R /\ ((q + 1) - 1) * R = R * q
  BY <1>1, <1>2
<1>4. q >= 0
  <2>1. q <= -1 => R * q <= -R
    BY <1>1, <1>2
  <2> QED BY <1>1, <1>2, <1>3, <2>1
<1>5. q <= R * q
  BY <1>1, <1>2, <1>4
<1>6. q + 1 \in Days
  BY <1>1, <1>2, <1>3, <1>4, <1>5 DEF Days
<1>7. ((q + 1) - 1) * RangeDays < LastDay /\ LastDay <= (q + 1) * RangeDays
  BY <1>1, <1>2, <1>3 DEF R
<1>8. \E n \in Days : (n - 1) * RangeDays < LastDay /\ LastDay <= n * RangeDays
  BY <1>6, <1>7
<1> QED BY <1>8 DEF LastRange

\* What is not past the first n stretches is in the n-th or not past those before.
LEMMA RangesAdjoin ==
  ASSUME Instance, NEW n \in Nat, NEW d \in Days, d <= n * RangeDays
  PROVE  d \in RangeOf(n) \/ d <= (n - 1) * RangeDays
<1>1. RangeDays \in Nat /\ d \in Nat /\ n - 1 \in Int
  BY DEF Instance, ScheduleConstants, Days
<1>2. (n - 1) * RangeDays \in Int /\ n * RangeDays \in Int
  BY <1>1
<1> QED BY <1>1, <1>2 DEF RangeOf

\* No day is before the first stretch.
LEMMA NoneBefore ==
  ASSUME Instance, NEW d \in Days
  PROVE  ~(d <= (1 - 1) * RangeDays)
BY DEF Instance, ScheduleConstants, Days

-----------------------------------------------------------------------------
(* The inductive invariant *)

Load == [pc : {"idle", "fetching", "fetched", "storing"}, range : Nat, got : [Games -> Entry],
         known : SUBSET Games, steady : SUBSET Games]

Shape ==
  /\ now \in Nat
  /\ feed \in [Games -> Entry] /\ stored \in [Games -> Entry]
  /\ job \in [Workers -> Load]

\* What is listed has its teams; what is not stored has no row.
Clean ==
  /\ \A g \in Games : feed[g].placed
  /\ \A g \in Games : ~stored[g].listed => stored[g] = Unlisted

\* The days a load has asked for, all of them once it has its last answer.
Asked(j, d) == j.pc = "fetching" => d <= (j.range - 1) * RangeDays

\* What a load has got is what the feed listed: of the games that are listed all
\* the while those of the days it has asked for, and of a still feed no others.
Holds(j, lists) ==
  /\ \A g \in Games : j.got[g].listed => j.got[g].placed
  /\ j.pc # "idle" => \A g \in Games :
       /\ g \in j.steady => lists[g].listed
       /\ g \in j.steady /\ (Still \/ "move" \notin Changes) /\ Asked(j, lists[g].day) =>
            j.got[g].listed
       /\ Still /\ lists[g].listed => g \in j.steady
       /\ Still => j.got[g] = Unlisted \/ (j.got[g] = lists[g] /\ lists[g].listed)

LoadInv == Shape /\ Clean /\ \A w \in Workers : Holds(job[w], feed)

-----------------------------------------------------------------------------
(* The first state, and steps in general *)

LEMMA EntriesAre ==
  ASSUME ScheduleConstants
  PROVE  Unlisted \in Entry /\ ~Unlisted.listed /\ Unlisted.placed /\ 1 \in Days
BY DEF ScheduleConstants, Days, Entry, Unlisted

LEMMA IdleLoad ==
  ASSUME ScheduleConstants
  PROVE  Idle \in Load /\ Idle.pc = "idle" /\ \A lists : Holds(Idle, lists)
<1>1. Idle \in Load
  BY EntriesAre DEF Idle, Load
<1>2. Idle.pc = "idle" /\ \A g \in Games : Idle.got[g] = Unlisted
  BY DEF Idle
<1> QED BY <1>1, <1>2, EntriesAre DEF Holds

LEMMA InitLoads ==
  ASSUME Instance, Init
  PROVE  LoadInv
<1>1. Shape
  BY IdleLoad, EntriesAre DEF Instance, Init, Shape
<1>2. Clean
  BY EntriesAre DEF Instance, Init, Clean
<1> QED BY <1>1, <1>2, IdleLoad DEF Instance, Init, LoadInv

\* A load goes on with j.
LEMMA LoadStep ==
  ASSUME LoadInv, NEW w \in Workers, NEW j \in Load, Holds(j, feed),
         job' = [job EXCEPT ![w] = j], UNCHANGED <<now, feed, stored>>
  PROVE  LoadInv'
<1>1. \A v \in Workers : job'[v] = IF v = w THEN j ELSE job[v]
  BY DEF LoadInv, Shape
<1>2. Shape' /\ Clean'
  BY DEF LoadInv, Shape, Clean
<1> QED BY <1>1, <1>2 DEF LoadInv

LEMMA EndsLoad ==
  ASSUME Instance, LoadInv, NEW w \in Workers, job' = [job EXCEPT ![w] = Idle],
         UNCHANGED <<now, feed, stored>>
  PROVE  LoadInv'
BY IdleLoad, LoadStep DEF Instance

-----------------------------------------------------------------------------
(* A load *)

LEMMA BeginLoads ==
  ASSUME Instance, LoadInv, NEW w \in Workers, Begin(w)
  PROVE  LoadInv'
<1> DEFINE steady == {g \in Games : feed[g].listed}
           j == [Idle EXCEPT !.pc = "fetching", !.range = 1, !.steady = steady]
<1>1. job' = [job EXCEPT ![w] = j] /\ UNCHANGED <<now, feed, stored>>
  BY DEF Begin
<1>2. /\ j.pc = "fetching" /\ j.range = 1 /\ j.steady = steady
      /\ \A g \in Games : j.got[g] = Unlisted
  BY DEF Idle
<1>3. j \in Load
  BY IdleLoad DEF Instance, Load
<1> HIDE DEF j
<1>4. \A g \in Games : ~Asked(j, feed[g].day)
  BY <1>2, NoneBefore DEF Asked, LoadInv, Shape, Entry
<1>5. Holds(j, feed)
  BY <1>2, <1>4, EntriesAre DEF Instance, Holds
<1> QED BY <1>1, <1>3, <1>5, LoadStep

LEMMA FetchRangeLoads ==
  ASSUME Instance, LoadInv, NEW w \in Workers, FetchRange(w)
  PROVE  LoadInv'
<1> DEFINE n == job[w].range
           here == {g \in Games : feed[g].listed /\ feed[g].day \in RangeOf(n)}
           got == [g \in Games |-> IF g \in here THEN feed[g] ELSE job[w].got[g]]
           pc == IF n = LastRange THEN "fetched" ELSE "fetching"
           j == [job[w] EXCEPT !.got = got, !.range = n + 1, !.pc = pc]
<1>1. /\ job[w] \in Load /\ job[w].pc = "fetching" /\ Holds(job[w], feed)
      /\ feed \in [Games -> Entry] /\ \A g \in Games : feed[g].placed
      /\ job' = [job EXCEPT ![w] = j] /\ UNCHANGED <<now, feed, stored>>
  BY DEF FetchRange, LoadInv, Shape, Clean, At
<1>2. n \in Nat /\ got \in [Games -> Entry]
  BY <1>1 DEF Load
<1>3. /\ j \in Load /\ j.pc = pc /\ j.range = n + 1 /\ j.got = got
      /\ j.steady = job[w].steady
  <2> HIDE DEF got, n
  <2>1. pc \in {"fetched", "fetching"} /\ n + 1 \in Nat
    BY <1>2
  <2> HIDE DEF pc
  <2> QED BY <1>1, <1>2, <2>1 DEF Load
<1> HIDE DEF j
<1>4. ASSUME NEW g \in Games, Asked(j, feed[g].day)
      PROVE  feed[g].day \in RangeOf(n) \/ Asked(job[w], feed[g].day)
  <2>1. feed[g].day \in Days /\ (n + 1) - 1 = n
    BY <1>1, <1>2 DEF Entry
  <2>2. feed[g].day <= n * RangeDays
    <3>1. CASE n = LastRange
      <4>1. feed[g].day <= LastDay /\ LastDay \in Nat /\ n * RangeDays \in Int
        BY <1>2, <2>1 DEF Days, Instance, ScheduleConstants
      <4> QED BY <2>1, <3>1, <4>1, TheLastRange DEF Instance, Days
    <3>2. CASE n # LastRange
      BY <1>3, <1>4, <2>1, <3>2 DEF Asked
    <3> QED BY <3>1, <3>2
  <2> QED BY <1>1, <1>2, <2>1, <2>2, RangesAdjoin DEF Asked
<1>5. Holds(j, feed)
  <2>1. \A g \in Games : j.got[g] = IF g \in here THEN feed[g] ELSE job[w].got[g]
    BY <1>3
  <2>2. \A g \in Games : g \in here <=> feed[g].listed /\ feed[g].day \in RangeOf(n)
    OBVIOUS
  <2> HIDE DEF here, got, n, pc
  <2> QED BY <1>1, <1>3, <1>4, <2>1, <2>2 DEF Holds
<1> QED BY <1>1, <1>3, <1>5, LoadStep

LEMMA LookUpLoads ==
  ASSUME Instance, LoadInv, NEW w \in Workers, LookUp(w)
  PROVE  LoadInv'
<1> DEFINE known == {g \in Games : stored[g].listed}
           j == [job[w] EXCEPT !.pc = "storing", !.known = known]
<1>1. /\ job[w] \in Load /\ job[w].pc = "fetched" /\ Holds(job[w], feed)
      /\ job' = [job EXCEPT ![w] = j] /\ UNCHANGED <<now, feed, stored>>
  BY DEF LookUp, LoadInv, Shape, At
<1>2. known \in SUBSET Games
  OBVIOUS
<1> HIDE DEF known
<1>3. j \in Load /\ j.pc = "storing" /\ j.got = job[w].got /\ j.steady = job[w].steady
  BY <1>1, <1>2 DEF Load
<1> HIDE DEF j
<1>4. Holds(j, feed)
  BY <1>1, <1>3 DEF Holds, Asked
<1> QED BY <1>1, <1>3, <1>4, LoadStep

LEMMA StoreLoads ==
  ASSUME Instance, LoadInv, NEW w \in Workers, Store(w)
  PROVE  LoadInv'
<1>1. /\ job' = [job EXCEPT ![w] = Idle] /\ UNCHANGED <<now, feed>>
      /\ job \in [Workers -> Load] /\ stored \in [Games -> Entry]
  BY DEF Store, LoadInv, Shape
<1>2. \A v \in Workers : job'[v] = IF v = w THEN Idle ELSE job[v]
  BY <1>1
<1>3. /\ stored' \in [Games -> Entry]
      /\ \A g \in Games : ~stored'[g].listed => stored'[g] = Unlisted
  <2>1. job[w].got \in [Games -> Entry]
    BY <1>1 DEF Load
  <2>2. \/ stored' = stored
        \/ stored' = [g \in Games |-> IF g \in Seen(w) THEN job[w].got[g]
                                      ELSE IF g \in Gone(w) THEN Unlisted ELSE stored[g]]
    BY DEF Store
  <2>3. \A g \in Seen(w) : job[w].got[g].listed
    BY DEF Seen
  <2> QED BY <1>1, <2>1, <2>2, <2>3, EntriesAre DEF Instance, LoadInv, Clean
<1>4. Shape' /\ Clean'
  BY <1>1, <1>2, <1>3, IdleLoad DEF Instance, LoadInv, Shape, Clean
<1> QED BY <1>1, <1>2, <1>4, IdleLoad DEF Instance, LoadInv

-----------------------------------------------------------------------------
(* The feed changes *)

\* A game is no longer there all the while, when it was dropped or added.
LEMMA ChangedLoads ==
  ASSUME Instance, LoadInv, NEW kind, NEW g \in Games, NEW entry \in Entry,
         Changed(kind, g, entry), entry.placed,
         entry.day # feed[g].day => kind \in {"add", "drop", "move"},
         entry.listed <=> kind # "drop"
  PROVE  LoadInv'
<1>1. /\ feed \in [Games -> Entry] /\ job \in [Workers -> Load]
      /\ feed' = [feed EXCEPT ![g] = entry] /\ UNCHANGED <<now, stored>>
      /\ kind \in Changes /\ (Still => \A w \in Workers : job[w].pc = "idle")
  BY DEF Changed, LoadInv, Shape, Loading, At
<1>2. \A h \in Games : feed'[h] = IF h = g THEN entry ELSE feed[h]
  BY <1>1
<1>3. ASSUME NEW w \in Workers
      PROVE  /\ job'[w] \in Load /\ job'[w].pc = job[w].pc /\ job'[w].got = job[w].got
             /\ job'[w].range = job[w].range
             /\ job'[w].steady = IF entry.listed /\ kind # "add" THEN job[w].steady
                                 ELSE job[w].steady \ {g}
  <2>1. job[w] \in Load
    BY <1>1
  <2> DEFINE less == job[w].steady \ {g}
             j == [job[w] EXCEPT !.steady = less]
  <2>2. job'[w] = IF entry.listed /\ kind # "add" THEN job[w] ELSE j
    BY DEF Changed
  <2>3. less \in SUBSET Games
    BY <2>1 DEF Load
  <2> HIDE DEF less
  <2>4. /\ j \in Load /\ j.pc = job[w].pc /\ j.got = job[w].got /\ j.range = job[w].range
        /\ j.steady = less
    BY <2>1, <2>3 DEF Load
  <2> HIDE DEF j
  <2> QED BY <2>1, <2>2, <2>4 DEF less
<1>4. Shape'
  <2>1. job' \in [Workers -> Load]
    <3>1. job' = [w \in Workers |-> job'[w]]
      BY DEF Changed
    <3> QED BY <1>3, <3>1
  <2> QED BY <1>1, <2>1 DEF LoadInv, Shape
<1>5. Clean'
  BY <1>1, <1>2 DEF LoadInv, Clean
<1>6. ASSUME NEW w \in Workers
      PROVE  Holds(job'[w], feed')
  <2>1. Holds(job[w], feed)
    BY DEF LoadInv
  <2>2. CASE Still
    BY <1>1, <1>3, <2>1, <2>2 DEF Holds
  <2>3. CASE ~Still
    <3>1. ASSUME NEW h \in Games, h \in job'[w].steady, job[w].pc # "idle"
          PROVE  /\ h \in job[w].steady /\ feed'[h].listed
                 /\ "move" \notin Changes => feed'[h].day = feed[h].day
      <4>1. h \in job[w].steady /\ feed[h].listed
        BY <1>3, <2>1, <3>1 DEF Holds
      <4>2. h = g => entry.listed /\ kind # "add"
        BY <1>3, <3>1
      <4> QED BY <1>1, <1>2, <4>1, <4>2
    <3> QED BY <1>3, <2>1, <2>3, <3>1 DEF Holds, Asked
  <2> QED BY <2>2, <2>3
<1> QED BY <1>4, <1>5, <1>6 DEF LoadInv

LEMMA FeedChangesLoads ==
  ASSUME Instance, LoadInv, FeedChanges
  PROVE  LoadInv'
<1>1. PICK g \in Games, d \in Days :
        \/ Changed("add", g, [Unlisted EXCEPT !.listed = TRUE, !.day = d])
        \/ Changed("drop", g, Unlisted)
        \/ Changed("call_off", g, [feed[g] EXCEPT !.on = FALSE])
        \/ Changed("move", g, [feed[g] EXCEPT !.day = d])
        \/ Changed("unplace", g, [feed[g] EXCEPT !.placed = ~@])
  BY DEF FeedChanges
<1>2. feed[g] \in Entry /\ feed[g].placed
  BY DEF LoadInv, Shape, Clean
<1>3. CASE Changed("add", g, [Unlisted EXCEPT !.listed = TRUE, !.day = d])
  <2> DEFINE entry == [Unlisted EXCEPT !.listed = TRUE, !.day = d]
  <2>1. entry \in Entry /\ entry.placed /\ entry.listed
    BY EntriesAre DEF Instance, Entry, Unlisted
  <2> HIDE DEF entry
  <2> QED BY <1>3, <2>1, ChangedLoads DEF entry
<1>4. CASE Changed("drop", g, Unlisted)
  BY <1>4, EntriesAre, ChangedLoads DEF Instance
<1>5. CASE Changed("call_off", g, [feed[g] EXCEPT !.on = FALSE])
  <2> DEFINE entry == [feed[g] EXCEPT !.on = FALSE]
  <2>1. entry \in Entry /\ entry.placed /\ entry.listed = feed[g].listed /\ entry.day = feed[g].day
    BY <1>2 DEF Entry
  <2>2. feed[g].listed
    BY <1>5 DEF Changed
  <2> HIDE DEF entry
  <2> QED BY <1>5, <2>1, <2>2, ChangedLoads DEF entry
<1>6. CASE Changed("move", g, [feed[g] EXCEPT !.day = d])
  <2> DEFINE entry == [feed[g] EXCEPT !.day = d]
  <2>1. entry \in Entry /\ entry.placed /\ entry.listed = feed[g].listed
    BY <1>2 DEF Entry
  <2>2. feed[g].listed
    BY <1>6 DEF Changed
  <2> HIDE DEF entry
  <2> QED BY <1>6, <2>1, <2>2, ChangedLoads DEF entry
<1>7. ~Changed("unplace", g, [feed[g] EXCEPT !.placed = ~@])
  BY DEF Changed, Instance
<1> QED BY <1>1, <1>3, <1>4, <1>5, <1>6, <1>7

LEMMA NextLoads ==
  ASSUME Instance, LoadInv, [Next]_vars
  PROVE  LoadInv'
<1>1. ASSUME NEW w \in Workers, Fail(w) \/ Crash(w)
      PROVE  LoadInv'
  BY <1>1, EndsLoad DEF Fail, Crash, GivesUp
<1>2. CASE Tick
  BY <1>2 DEF Tick, LoadInv, Shape, Clean
<1>3. CASE UNCHANGED vars
  BY <1>3 DEF vars, LoadInv, Shape, Clean
<1> QED BY <1>1, <1>2, <1>3, BeginLoads, FetchRangeLoads, LookUpLoads, StoreLoads,
           FeedChangesLoads DEF Next

-----------------------------------------------------------------------------
(* What a store does *)

\* Who was about to store and is done has stored, or was killed.
LEMMA Storing ==
  ASSUME Instance, LoadInv, [Next]_vars, NEW w \in Workers, At(w, "storing"),
         job'[w].pc = "idle"
  PROVE  Store(w) \/ stored' = stored
<1>1. job \in [Workers -> Load]
  BY DEF LoadInv, Shape
<1>2. ASSUME NEW v \in Workers, Store(v), v # w
      PROVE  FALSE
  BY <1>1, <1>2 DEF Store, At
<1> QED BY <1>2 DEF Next, Begin, FetchRange, Fail, Crash, LookUp, FeedChanges, Changed, Tick, vars

LEMMA StoreKeepsListed ==
  ASSUME Instance, Still \/ "move" \notin Changes, LoadInv, [Next]_vars
  PROVE  KeepsListed
<1> SUFFICES ASSUME NEW w \in Workers, NEW g \in Games, At(w, "storing"), job'[w].pc = "idle",
                    stored[g].listed, ~stored'[g].listed, g \in job[w].steady
             PROVE  FALSE
  BY DEF KeepsListed
<1>1. Store(w)
  BY Storing
<1>2. job[w].got[g].listed /\ job[w].got[g].placed
  BY DEF LoadInv, Holds, Asked, At
<1>3. g \in Seen(w)
  BY <1>2 DEF Seen
<1> QED BY <1>1, <1>2, <1>3 DEF Store

LEMMA StoreIsWhole ==
  ASSUME Instance, Still, LoadInv, [Next]_vars
  PROVE  LoadedWhole
<1> SUFFICES ASSUME NEW w \in Workers, At(w, "storing"), job'[w].pc = "idle", stored' # stored,
                    NEW g \in Games
             PROVE  stored'[g] = IF feed[g].listed THEN feed[g]
                                 ELSE IF stored[g].day <= now THEN stored[g] ELSE Unlisted
  BY DEF LoadedWhole
<1>1. stored' = [h \in Games |-> IF h \in Seen(w) THEN job[w].got[h]
                                 ELSE IF h \in Gone(w) THEN Unlisted ELSE stored[h]]
  BY Storing DEF Store
<1>2. Holds(job[w], feed) /\ job[w].pc = "storing"
  BY DEF LoadInv, At
<1>3. CASE feed[g].listed
  <2>1. job[w].got[g].listed /\ job[w].got[g].placed /\ job[w].got[g] = feed[g]
    BY <1>2, <1>3, EntriesAre DEF Instance, Holds, Asked
  <2>2. g \in Seen(w)
    BY <2>1 DEF Seen
  <2> QED BY <1>1, <1>3, <2>1, <2>2
<1>4. CASE ~feed[g].listed
  <2>1. job[w].got[g] = Unlisted
    BY <1>2, <1>4 DEF Holds
  <2>2. g \notin Seen(w)
    BY <2>1, EntriesAre DEF Instance, Seen
  <2>3. g \in Gone(w) <=> stored[g].listed /\ stored[g].day > now
    BY <2>2 DEF Gone
  <2>4. ~stored[g].listed => stored[g] = Unlisted
    BY DEF LoadInv, Clean
  <2>5. stored[g].day > now <=> ~(stored[g].day <= now)
    BY DEF LoadInv, Shape, Entry, Days
  <2> QED BY <1>1, <1>4, <2>2, <2>3, <2>4, <2>5
<1> QED BY <1>3, <1>4

\* A load never removes a game that was listed all the while, nor does it drop
\* one on the strength of half a season (nba/schedule.py:9-16), whatever else the
\* feed does, fails or runs beside it: unless a game moves while it loads.
THEOREM NoListedGameIsDropped ==
  Instance /\ (Still \/ "move" \notin Changes) => (Spec => [][KeepsListed]_vars)
<1> SUFFICES ASSUME Instance, Still \/ "move" \notin Changes PROVE Spec => [][KeepsListed]_vars
  OBVIOUS
<1>1. Init => LoadInv
  BY InitLoads
<1>2. LoadInv /\ [Next]_vars => LoadInv'
  BY NextLoads
<1>3. LoadInv /\ [Next]_vars => [KeepsListed]_vars
  BY StoreKeepsListed
<1> QED BY <1>1, <1>2, <1>3, PTL DEF Spec

\* "Every load is stored as a whole": after one, of a feed that was still, the
\* stored schedule is the feed's and what is past of the rest, however many loads
\* run at the same time, fail or are killed.
THEOREM LoadsAreWhole == Instance /\ Still => (Spec => [][LoadedWhole]_vars)
<1> SUFFICES ASSUME Instance, Still PROVE Spec => [][LoadedWhole]_vars
  OBVIOUS
<1>1. Init => LoadInv
  BY InitLoads
<1>2. LoadInv /\ [Next]_vars => LoadInv'
  BY NextLoads
<1>3. LoadInv /\ [Next]_vars => [LoadedWhole]_vars
  BY StoreIsWhole
<1> QED BY <1>1, <1>2, <1>3, PTL DEF Spec
-----------------------------------------------------------------------------
(* The types of the loads, whatever the feed does *)

\* A load asks for the stretches one after the other, for none after the last.
GoodLoad ==
  {j \in Load : j.range <= LastDay + 1 /\ (j.pc = "fetching" => j.range \in 1..LastRange)}

LoadTypes ==
  /\ now \in 0..(LastDay + GAME_LENGTH) /\ changes \in 0..MaxChanges
  /\ feed \in [Games -> Entry] /\ stored \in [Games -> Entry]
  /\ job \in [Workers -> GoodLoad]

LEMMA IdleIsGood ==
  ASSUME ScheduleConstants
  PROVE  Idle \in GoodLoad /\ LastDay \in Nat \ {0} /\ GAME_LENGTH \in Nat /\ MaxChanges \in Nat
<1>1. Idle.range = 0 /\ Idle.pc = "idle" /\ LastDay \in Nat \ {0} /\ GAME_LENGTH \in Nat
      /\ MaxChanges \in Nat
  BY DEF Idle, ScheduleConstants
<1> QED BY <1>1, IdleLoad DEF GoodLoad

LEMMA InitTypes ==
  ASSUME ScheduleConstants, Init
  PROVE  LoadTypes
BY IdleIsGood, EntriesAre DEF Init, LoadTypes

\* A load goes on with j.
LEMMA GoodStep ==
  ASSUME LoadTypes, NEW w \in Workers, NEW j \in GoodLoad, job' = [job EXCEPT ![w] = j],
         UNCHANGED <<now, feed, changes>>, stored' \in [Games -> Entry]
  PROVE  LoadTypes'
BY DEF LoadTypes

LEMMA BeginTypes ==
  ASSUME ScheduleConstants, LoadTypes, NEW w \in Workers, Begin(w)
  PROVE  LoadTypes'
<1> DEFINE steady == {g \in Games : feed[g].listed}
           j == [Idle EXCEPT !.pc = "fetching", !.range = 1, !.steady = steady]
<1>1. job' = [job EXCEPT ![w] = j] /\ UNCHANGED <<now, feed, changes, stored>>
  BY DEF Begin
<1>2. LastRange \in Days /\ LastDay \in Nat
  BY TheLastRange, IdleIsGood
<1>3. steady \in SUBSET Games
  OBVIOUS
<1> HIDE DEF steady
<1>4. j \in Load /\ j.range = 1
  BY <1>3, IdleLoad DEF Load
<1> HIDE DEF j
<1>5. j \in GoodLoad
  BY <1>2, <1>4 DEF GoodLoad, Days
<1> QED BY <1>1, <1>5, GoodStep DEF LoadTypes

LEMMA FetchRangeTypes ==
  ASSUME ScheduleConstants, LoadTypes, NEW w \in Workers, FetchRange(w)
  PROVE  LoadTypes'
<1> DEFINE n == job[w].range
           here == {g \in Games : feed[g].listed /\ feed[g].day \in RangeOf(n)}
           got == [g \in Games |-> IF g \in here THEN feed[g] ELSE job[w].got[g]]
           pc == IF n = LastRange THEN "fetched" ELSE "fetching"
           j == [job[w] EXCEPT !.got = got, !.range = n + 1, !.pc = pc]
<1>1. /\ job[w] \in GoodLoad /\ job[w].pc = "fetching" /\ feed \in [Games -> Entry]
      /\ job' = [job EXCEPT ![w] = j] /\ UNCHANGED <<now, feed, changes, stored>>
  BY DEF FetchRange, LoadTypes, At
<1>2. LastRange \in Days /\ LastDay \in Nat /\ job[w] \in Load /\ n \in 1..LastRange
  BY <1>1, TheLastRange, IdleIsGood DEF GoodLoad
<1>3. got \in [Games -> Entry]
  BY <1>1, <1>2 DEF Load
<1>4. j \in Load /\ j.pc = pc /\ j.range = n + 1
  <2> HIDE DEF got, n
  <2>1. pc \in {"fetched", "fetching"} /\ n + 1 \in Nat
    BY <1>2 DEF Days
  <2> HIDE DEF pc
  <2> QED BY <1>2, <1>3, <2>1 DEF Load
<1> HIDE DEF j, n
<1>5. j \in GoodLoad
  BY <1>2, <1>4 DEF GoodLoad, Days
<1> QED BY <1>1, <1>5, GoodStep DEF LoadTypes

LEMMA LookUpTypes ==
  ASSUME ScheduleConstants, LoadTypes, NEW w \in Workers, LookUp(w)
  PROVE  LoadTypes'
<1> DEFINE known == {g \in Games : stored[g].listed}
           j == [job[w] EXCEPT !.pc = "storing", !.known = known]
<1>1. /\ job[w] \in GoodLoad /\ job[w] \in Load
      /\ job' = [job EXCEPT ![w] = j] /\ UNCHANGED <<now, feed, changes, stored>>
  BY DEF LookUp, LoadTypes, GoodLoad
<1>2. known \in SUBSET Games
  OBVIOUS
<1> HIDE DEF known
<1>3. j \in Load /\ j.pc = "storing" /\ j.range = job[w].range
  BY <1>1, <1>2 DEF Load
<1> HIDE DEF j
<1>4. j \in GoodLoad
  BY <1>1, <1>3 DEF GoodLoad
<1> QED BY <1>1, <1>4, GoodStep DEF LoadTypes

LEMMA StoreTypes ==
  ASSUME ScheduleConstants, LoadTypes, NEW w \in Workers, Store(w)
  PROVE  LoadTypes'
<1>1. job' = [job EXCEPT ![w] = Idle] /\ UNCHANGED <<now, feed, changes>>
  BY DEF Store
<1>2. job[w].got \in [Games -> Entry] /\ stored \in [Games -> Entry]
  BY DEF LoadTypes, GoodLoad, Load
<1>3. stored' \in [Games -> Entry]
  BY <1>2, EntriesAre DEF Store
<1> QED BY <1>1, <1>3, IdleIsGood, GoodStep

LEMMA ChangedTypes ==
  ASSUME ScheduleConstants, LoadTypes, NEW kind, NEW g \in Games, NEW entry \in Entry,
         Changed(kind, g, entry)
  PROVE  LoadTypes'
<1>1. ASSUME NEW w \in Workers PROVE job'[w] \in GoodLoad
  <2> DEFINE less == job[w].steady \ {g}
             j == [job[w] EXCEPT !.steady = less]
  <2>1. job[w] \in GoodLoad /\ job[w] \in Load
    BY DEF LoadTypes, GoodLoad
  <2>2. job'[w] = IF entry.listed /\ kind # "add" THEN job[w] ELSE j
    BY DEF Changed
  <2>3. less \in SUBSET Games
    BY <2>1 DEF Load
  <2> HIDE DEF less
  <2>4. j \in Load /\ j.pc = job[w].pc /\ j.range = job[w].range
    BY <2>1, <2>3 DEF Load
  <2> HIDE DEF j
  <2> QED BY <2>1, <2>2, <2>4 DEF GoodLoad
<1>2. job' = [w \in Workers |-> job'[w]]
  BY DEF Changed
<1>3. job' \in [Workers -> GoodLoad]
  BY <1>1, <1>2
<1>4. changes' \in 0..MaxChanges /\ feed' \in [Games -> Entry] /\ UNCHANGED <<now, stored>>
  BY IdleIsGood DEF Changed, LoadTypes
<1> QED BY <1>3, <1>4 DEF LoadTypes

LEMMA FeedChangesTypes ==
  ASSUME ScheduleConstants, LoadTypes, FeedChanges
  PROVE  LoadTypes'
<1>1. PICK g \in Games, d \in Days :
        \/ Changed("add", g, [Unlisted EXCEPT !.listed = TRUE, !.day = d])
        \/ Changed("drop", g, Unlisted)
        \/ Changed("call_off", g, [feed[g] EXCEPT !.on = FALSE])
        \/ Changed("move", g, [feed[g] EXCEPT !.day = d])
        \/ Changed("unplace", g, [feed[g] EXCEPT !.placed = ~@])
  BY DEF FeedChanges
<1>2. feed[g] \in Entry
  BY DEF LoadTypes
<1>3. /\ [Unlisted EXCEPT !.listed = TRUE, !.day = d] \in Entry
      /\ [feed[g] EXCEPT !.on = FALSE] \in Entry /\ [feed[g] EXCEPT !.day = d] \in Entry
      /\ [feed[g] EXCEPT !.placed = ~@] \in Entry
  BY <1>2, EntriesAre DEF Entry
<1> QED BY <1>1, <1>3, EntriesAre, ChangedTypes

LEMMA NextTypes ==
  ASSUME ScheduleConstants, LoadTypes, [Next]_vars
  PROVE  LoadTypes'
<1>1. ASSUME NEW w \in Workers, Fail(w) \/ Crash(w)
      PROVE  LoadTypes'
  BY <1>1, IdleIsGood, GoodStep DEF Fail, Crash, GivesUp, LoadTypes
<1>2. CASE Tick
  BY <1>2, IdleIsGood DEF Tick, LoadTypes
<1>3. CASE UNCHANGED vars
  BY <1>3 DEF vars, LoadTypes
<1> QED BY <1>1, <1>2, <1>3, BeginTypes, FetchRangeTypes, LookUpTypes, StoreTypes,
           FeedChangesTypes DEF Next

-----------------------------------------------------------------------------
(* What the team pages say: the order of the games *)

Schedule == stored \in [Games -> Entry]

LEMMA GamesAreNumbered ==
  ASSUME ScheduleConstants, Schedule
  PROVE  /\ NoGame \notin Games /\ IsFiniteSet(Games)
         /\ \A g \in Games : g \in Nat /\ stored[g].day \in Nat
BY DEF ScheduleConstants, Schedule, Entry, Days, NoGame

\* Of two games one is the earlier one, and only one.
LEMMA GamesAreInOrder ==
  ASSUME ScheduleConstants, Schedule, NEW g \in Games, NEW h \in Games
  PROVE  /\ g # h => Earlier(g, h) \/ Earlier(h, g)
         /\ ~(Earlier(g, h) /\ Earlier(h, g))
         /\ Earlier(g, h) => stored[g].day <= stored[h].day
         /\ \A k \in Games : Earlier(g, h) /\ Earlier(h, k) => Earlier(g, k)
BY GamesAreNumbered DEF Earlier

First(g, T) == g \in T /\ \A h \in T \ {g} : Earlier(g, h)
Last(g, T) == g \in T /\ \A h \in T \ {g} : Earlier(h, g)

\* Of any games there is a first one.
LEMMA ThereIsAFirst ==
  ASSUME ScheduleConstants, Schedule, NEW T \in SUBSET Games, T # {}
  PROVE  \E g \in T : First(g, T)
<1> DEFINE days == {stored[g].day : g \in T}
<1>1. days \in SUBSET Nat /\ days # {}
  BY GamesAreNumbered
<1>2. PICK d \in days : \A e \in days : d <= e
  <2> HIDE DEF days
  <2> QED BY <1>1, LeastNumber
<1> DEFINE those == {g \in T : stored[g].day = d}
<1>3. those \in SUBSET Nat /\ those # {}
  BY <1>2, GamesAreNumbered
<1>4. PICK g \in those : \A h \in those : g <= h
  <2> HIDE DEF those
  <2> QED BY <1>3, LeastNumber
<1>5. ASSUME NEW h \in T, h # g PROVE Earlier(g, h)
  <2>1. stored[h].day \in days /\ stored[g].day = d /\ d <= stored[h].day
    BY <1>2, <1>4
  <2>2. g \in Nat /\ h \in Nat /\ stored[g].day \in Nat /\ stored[h].day \in Nat
    BY <1>4, GamesAreNumbered
  <2>3. stored[h].day = d => g <= h
    BY <1>4
  <2> QED BY <1>5, <2>1, <2>2, <2>3 DEF Earlier
<1> QED BY <1>4, <1>5 DEF First

\* And of finitely many a last one.
LEMMA ThereIsALast ==
  ASSUME ScheduleConstants, Schedule, NEW T \in SUBSET Games, T # {}
  PROVE  \E g \in T : Last(g, T)
<1> DEFINE Have(S) == S # {} => \E g \in S : Last(g, S)
           U == {n \in Nat : \A S \in SUBSET Games : Cardinality(S) = n => Have(S)}
<1>1. ASSUME NEW S \in SUBSET Games PROVE IsFiniteSet(S) /\ Cardinality(S) \in Nat
  BY GamesAreNumbered, FS_Subset, FS_CardinalityType
<1>2. 0 \in U
  BY <1>1, FS_EmptySet
<1>3. ASSUME NEW n \in Nat, n \in U PROVE n + 1 \in U
  <2> SUFFICES ASSUME NEW S \in SUBSET Games, Cardinality(S) = n + 1, S # {}
               PROVE  \E g \in S : Last(g, S)
    OBVIOUS
  <2>1. PICK x \in S : TRUE
    OBVIOUS
  <2> DEFINE others == S \ {x}
  <2>2. others \in SUBSET Games /\ Cardinality(others) = n
    BY <1>1, FS_RemoveElement
  <2>3. CASE others = {}
    BY <2>3 DEF Last
  <2>4. CASE others # {}
    <3>1. PICK m \in others : Last(m, others)
      <4>1. Have(others)
        BY <1>3, <2>2
      <4> QED BY <2>4, <4>1
    <3>2. x \in Games /\ m \in Games /\ m # x
      BY <2>1
    <3>3. CASE Earlier(x, m)
      BY <3>1, <3>3 DEF Last
    <3>4. CASE Earlier(m, x)
      <4>1. ASSUME NEW h \in S, h # x PROVE Earlier(h, x)
        BY <3>1, <3>2, <3>4, <4>1, GamesAreInOrder DEF Last
      <4> QED BY <2>1, <4>1 DEF Last
    <3> QED BY <3>2, <3>3, <3>4, GamesAreInOrder
  <2> QED BY <2>3, <2>4
<1>4. Nat \subseteq U
  <2> HIDE DEF U
  <2> QED BY <1>2, <1>3, SetInduction
<1>5. Have(T)
  BY <1>1, <1>4
<1> QED BY <1>5

LEMMA LastOfIsLast ==
  ASSUME ScheduleConstants, Schedule, NEW T \in SUBSET Games, T # {}
  PROVE  Last(LastOf(T), T)
<1>1. \E g \in T : \A h \in T \ {g} : Earlier(h, g)
  BY ThereIsALast DEF Last
<1> QED BY <1>1 DEF LastOf, Last

-----------------------------------------------------------------------------
(* What the team pages say: the entry of a team, game by game *)

Over(t, T) == {g \in T : t \in Sides[g] /\ stored[g].day <= PlayedBefore}
Open(t, T) == {g \in T : t \in Sides[g] /\ ~(stored[g].day <= PlayedBefore)}
Soon(t, T) == {g \in Open(t, T) : stored[g].day < now + NEXT_DAYS}

FirstOf(T) == IF T = {} THEN NoGame ELSE CHOOSE g \in T : First(g, T)

EntryOf(t, T) ==
  [played |-> Cardinality(Over(t, T)), next_days |-> Cardinality(Soon(t, T)),
   next_game |-> FirstOf(Open(t, T))]

Nothing == [played |-> 0, next_days |-> 0, next_game |-> NoGame]

OneMore(t, g, entry) == IF t \in Sides[g] THEN Counted(entry, g) ELSE entry

LEMMA FirstOfIsFirst ==
  ASSUME ScheduleConstants, Schedule, NEW T \in SUBSET Games
  PROVE  /\ T = {} => FirstOf(T) = NoGame
         /\ T # {} => FirstOf(T) \in T /\ FirstOf(T) # NoGame /\ First(FirstOf(T), T)
         /\ \A g \in T : First(g, T) => FirstOf(T) = g
<1>1. T # {} => FirstOf(T) \in T /\ First(FirstOf(T), T)
  BY ThereIsAFirst DEF FirstOf
<1>2. ASSUME NEW g \in T, First(g, T) PROVE FirstOf(T) = g
  BY <1>1, <1>2, GamesAreInOrder DEF First
<1> QED BY <1>1, <1>2, GamesAreNumbered DEF FirstOf

LEMMA OneMoreGame ==
  ASSUME NEW S, IsFiniteSet(S), NEW x \in S
  PROVE  Cardinality(S) = Cardinality(S \ {x}) + 1 /\ Cardinality(S \ {x}) \in Nat
BY FS_RemoveElement, FS_CardinalityType

\* The last game of any is counted as the code counts it.
LEMMA TheLastCounts ==
  ASSUME ScheduleConstants, Schedule, NEW t, NEW T \in SUBSET Games, NEW x \in T, Last(x, T)
  PROVE  EntryOf(t, T) = OneMore(t, x, EntryOf(t, T \ {x}))
<1> DEFINE R == T \ {x}
<1>1. /\ IsFiniteSet(Over(t, T)) /\ IsFiniteSet(Soon(t, T))
      /\ Over(t, T) \in SUBSET Games /\ Open(t, T) \in SUBSET Games /\ Open(t, R) \in SUBSET Games
  BY GamesAreNumbered, FS_Subset DEF Over, Open, Soon
<1>2. CASE t \notin Sides[x]
  <2>1. Over(t, T) = Over(t, R) /\ Open(t, T) = Open(t, R) /\ Soon(t, T) = Soon(t, R)
    BY <1>2 DEF Over, Open, Soon
  <2> QED BY <1>2, <2>1 DEF EntryOf, OneMore
<1>3. CASE t \in Sides[x] /\ stored[x].day <= PlayedBefore
  <2>1. x \in Over(t, T) /\ Over(t, R) = Over(t, T) \ {x}
        /\ Open(t, T) = Open(t, R) /\ Soon(t, T) = Soon(t, R)
    BY <1>3 DEF Over, Open, Soon
  <2>2. Cardinality(Over(t, T)) = Cardinality(Over(t, R)) + 1
    BY <1>1, <2>1, OneMoreGame
  <2> QED BY <1>3, <2>1, <2>2 DEF EntryOf, OneMore, Counted
<1>4. CASE t \in Sides[x] /\ ~(stored[x].day <= PlayedBefore)
  <2>1. x \in Open(t, T) /\ Open(t, R) = Open(t, T) \ {x} /\ Over(t, T) = Over(t, R)
    BY <1>4 DEF Over, Open
  <2>2. Cardinality(Soon(t, T)) = IF stored[x].day < now + NEXT_DAYS
                                  THEN Cardinality(Soon(t, R)) + 1 ELSE Cardinality(Soon(t, R))
    <3>1. CASE stored[x].day < now + NEXT_DAYS
      <4>1. x \in Soon(t, T) /\ Soon(t, R) = Soon(t, T) \ {x}
        BY <2>1, <3>1 DEF Soon
      <4> QED BY <1>1, <3>1, <4>1, OneMoreGame
    <3>2. CASE ~(stored[x].day < now + NEXT_DAYS)
      <4>1. Soon(t, R) = Soon(t, T)
        BY <2>1, <3>2 DEF Soon
      <4> QED BY <3>2, <4>1
    <3> QED BY <3>1, <3>2
  <2>3. FirstOf(Open(t, T)) = IF FirstOf(Open(t, R)) = NoGame THEN x ELSE FirstOf(Open(t, R))
    <3>1. CASE Open(t, R) = {}
      <4>1. First(x, Open(t, T))
        BY <2>1, <3>1 DEF First
      <4>2. FirstOf(Open(t, T)) = x
        BY <1>1, <2>1, <4>1, FirstOfIsFirst
      <4>3. FirstOf(Open(t, R)) = NoGame
        BY <1>1, <3>1, FirstOfIsFirst
      <4> QED BY <4>2, <4>3
    <3>2. CASE Open(t, R) # {}
      <4> DEFINE f == FirstOf(Open(t, R))
      <4>1. f \in Open(t, R) /\ f # NoGame /\ First(f, Open(t, R))
        BY <1>1, <3>2, FirstOfIsFirst
      <4>2. f \in T \ {x} /\ Earlier(f, x) /\ f \in Open(t, T)
        BY <2>1, <4>1 DEF Last, Open
      <4>3. First(f, Open(t, T))
        BY <2>1, <4>1, <4>2 DEF First
      <4>4. FirstOf(Open(t, T)) = f
        <5> HIDE DEF f
        <5> QED BY <1>1, <4>2, <4>3, FirstOfIsFirst
      <4> HIDE DEF f
      <4> QED BY <4>1, <4>4 DEF f
    <3> QED BY <3>1, <3>2
  <2> DEFINE e == EntryOf(t, R)
  <2>4. e.played = Cardinality(Over(t, R)) /\ e.next_days = Cardinality(Soon(t, R))
        /\ e.next_game = FirstOf(Open(t, R))
    BY DEF EntryOf
  <2>5. OneMore(t, x, e) = [e EXCEPT !.next_game = IF @ = NoGame THEN x ELSE @,
                                     !.next_days = IF stored[x].day < now + NEXT_DAYS THEN @ + 1 ELSE @]
    <3> HIDE DEF e
    <3> QED BY <1>4 DEF OneMore, Counted
  <2>6. OneMore(t, x, e) = [played |-> Cardinality(Over(t, T)), next_days |-> Cardinality(Soon(t, T)),
                            next_game |-> FirstOf(Open(t, T))]
    BY <2>1, <2>2, <2>3, <2>5 DEF EntryOf
  <2> QED BY <2>6 DEF EntryOf
<1> QED BY <1>2, <1>3, <1>4

-----------------------------------------------------------------------------
(* What the team pages say: the fold *)

Without(T) == T \ {LastOf(T)}

EntriesAreCounted(f, t) ==
  f = [T \in SUBSET SeasonGames |-> IF T = {} THEN Nothing ELSE OneMore(t, LastOf(T), f[Without(T)])]

TheEntries(t) == CHOOSE f : EntriesAreCounted(f, t)

\* The fold of the library.
LEMMA TeamScheduleIs ==
  ASSUME NEW t
  PROVE  TeamSchedule(t) = TheEntries(t)[SeasonGames]
BY Zenon DEF TeamSchedule, MapThenFoldSet, TheEntries, EntriesAreCounted, Without, OneMore, Nothing

\* However far it has come: the games that are over and those of the next days
\* are counted, and the next game is the first that is not over.
LEMMA TheEntryOfATeam ==
  ASSUME ScheduleConstants, Schedule, NEW t
  PROVE  TeamSchedule(t) = EntryOf(t, SeasonGames)
<1> DEFINE S == SeasonGames
           A == [T \in SUBSET S |-> EntryOf(t, T)]
           f == TheEntries(t)
<1>1. S \in SUBSET Games
  BY DEF SeasonGames
<1> HIDE DEF S
<1>2. ASSUME NEW T \in SUBSET S, T # {}
      PROVE  Last(LastOf(T), T) /\ LastOf(T) \in T /\ Without(T) \in SUBSET S
  <2>1. Last(LastOf(T), T)
    BY <1>1, <1>2, LastOfIsLast
  <2> QED BY <2>1 DEF Last, Without
<1>3. EntryOf(t, {}) = Nothing
  <2>1. Over(t, {}) = {} /\ Open(t, {}) = {} /\ Soon(t, {}) = {}
    BY DEF Over, Open, Soon
  <2>2. Cardinality({}) = 0 /\ FirstOf({}) = NoGame
    BY FS_EmptySet DEF FirstOf
  <2> QED BY <2>1, <2>2 DEF EntryOf, Nothing
<1>4. ASSUME NEW T \in SUBSET S
      PROVE  A[T] = IF T = {} THEN Nothing ELSE OneMore(t, LastOf(T), A[Without(T)])
  <2>1. CASE T = {}
    BY <1>3, <2>1
  <2>2. CASE T # {}
    <3>1. LastOf(T) \in T /\ Last(LastOf(T), T) /\ Without(T) \in SUBSET S /\ T \in SUBSET Games
      BY <1>1, <1>2, <2>2
    <3>2. EntryOf(t, T) = OneMore(t, LastOf(T), EntryOf(t, T \ {LastOf(T)}))
      BY <3>1, TheLastCounts
    <3>3. A[T] = EntryOf(t, T) /\ A[Without(T)] = EntryOf(t, T \ {LastOf(T)})
      BY <3>1 DEF Without
    <3> HIDE DEF A
    <3> QED BY <2>2, <3>2, <3>3
  <2> QED BY <2>1, <2>2
<1> DEFINE step(h) == [T \in SUBSET S |-> IF T = {} THEN Nothing
                                          ELSE OneMore(t, LastOf(T), h[Without(T)])]
<1>5. EntriesAreCounted(A, t)
  <2>1. \A T \in SUBSET S : A[T] = step(A)[T]
    BY <1>4
  <2>2. A = [T \in SUBSET S |-> A[T]] /\ step(A) = [T \in SUBSET S |-> step(A)[T]]
    OBVIOUS
  <2>3. A = step(A)
    <3> HIDE DEF A, step
    <3> QED BY <2>1, <2>2
  <2> HIDE DEF A
  <2> QED BY <2>3 DEF EntriesAreCounted, S
<1>6. EntriesAreCounted(f, t)
  <2> HIDE DEF A
  <2> QED BY <1>5 DEF TheEntries
<1> HIDE DEF f
<1>7. ASSUME NEW T \in SUBSET S
      PROVE  f[T] = IF T = {} THEN Nothing ELSE OneMore(t, LastOf(T), f[Without(T)])
  <2>1. f = step(f)
    BY <1>6 DEF EntriesAreCounted, S
  <2>2. step(f)[T] = IF T = {} THEN Nothing ELSE OneMore(t, LastOf(T), f[Without(T)])
    OBVIOUS
  <2> HIDE DEF step
  <2> QED BY <2>1, <2>2
<1>8. ASSUME NEW T \in SUBSET S PROVE IsFiniteSet(T) /\ Cardinality(T) \in Nat
  BY <1>1, GamesAreNumbered, FS_Subset, FS_CardinalityType
<1>9. A[S] = EntryOf(t, S)
  OBVIOUS
<1> HIDE DEF A
<1> DEFINE U == {n \in Nat : \A T \in SUBSET S : Cardinality(T) = n => f[T] = A[T]}
<1>10. 0 \in U
  <2> SUFFICES ASSUME NEW T \in SUBSET S, Cardinality(T) = 0 PROVE f[T] = A[T]
    OBVIOUS
  <2>1. T = {}
    BY <1>8, FS_EmptySet
  <2> QED BY <1>4, <1>7, <2>1
<1>11. ASSUME NEW n \in Nat, n \in U PROVE n + 1 \in U
  <2> SUFFICES ASSUME NEW T \in SUBSET S, Cardinality(T) = n + 1 PROVE f[T] = A[T]
    OBVIOUS
  <2>1. T # {}
    BY FS_EmptySet
  <2>2. LastOf(T) \in T /\ Without(T) \in SUBSET S
    BY <1>2, <2>1
  <2>3. Cardinality(Without(T)) = n
    <3>1. IsFiniteSet(T) /\ LastOf(T) \in T
      BY <1>8, <2>2
    <3>2. Cardinality(T \ {LastOf(T)}) = Cardinality(T) - 1
      BY <3>1, FS_RemoveElement
    <3> QED BY <3>2 DEF Without
  <2>4. f[Without(T)] = A[Without(T)]
    BY <1>11, <2>2, <2>3
  <2> QED BY <1>4, <1>7, <2>1, <2>4
<1>12. Nat \subseteq U
  <2> HIDE DEF U
  <2> QED BY <1>10, <1>11, SetInduction
<1>13. f[S] = A[S]
  BY <1>8, <1>12
<1> QED BY <1>9, <1>13, TeamScheduleIs DEF f, S

LEMMA TheFiguresOfATeam ==
  ASSUME ScheduleConstants, Schedule, NEW t
  PROVE  TeamSchedule(t).played \in Nat /\ TeamSchedule(t).next_days \in Nat
         /\ Left(t) \in 0..REGULAR_SEASON_GAMES
<1>1. IsFiniteSet(Over(t, SeasonGames)) /\ IsFiniteSet(Soon(t, SeasonGames))
  BY GamesAreNumbered, FS_Subset DEF SeasonGames, Over, Soon, Open
<1>2. TeamSchedule(t).played \in Nat /\ TeamSchedule(t).next_days \in Nat
  BY <1>1, TheEntryOfATeam, FS_CardinalityType DEF EntryOf
<1> QED BY <1>2 DEF Left, ScheduleConstants

LEMMA TheFiguresOfTheTeamsAgree ==
  ASSUME ScheduleConstants, Schedule, now \in Nat
  PROVE  FiguresAgree
<1> SUFFICES ASSUME NEW t \in Teams
             PROVE  LET entry == TeamSchedule(t)
                        its == {g \in Games : stored[g].listed /\ stored[g].on /\ t \in Sides[g]}
                        open == {g \in its : stored[g].day + GAME_LENGTH > now}
                    IN /\ entry.played = Cardinality(its \ open)
                       /\ entry.next_days = Cardinality({g \in open : stored[g].day < now + NEXT_DAYS})
                       /\ entry.next_game = NoGame <=> open = {}
                       /\ open # {} => entry.next_game \in open
                       /\ \A g \in open : stored[entry.next_game].day <= stored[g].day
  BY DEF FiguresAgree
<1> DEFINE entry == TeamSchedule(t)
           its == {g \in Games : stored[g].listed /\ stored[g].on /\ t \in Sides[g]}
           open == {g \in its : stored[g].day + GAME_LENGTH > now}
           soon == {g \in open : stored[g].day < now + NEXT_DAYS}
<1>1. open = Open(t, SeasonGames) /\ its \ open = Over(t, SeasonGames)
  <2>1. \A g \in Games : stored[g].day + GAME_LENGTH > now <=> ~(stored[g].day <= PlayedBefore)
    <3>1. GAME_LENGTH \in Nat /\ now \in Nat
      BY DEF ScheduleConstants
    <3> QED BY <3>1, GamesAreNumbered DEF PlayedBefore
  <2> QED BY <2>1 DEF Open, Over, SeasonGames
<1>2. open \in SUBSET Games /\ soon = Soon(t, SeasonGames)
  <2>1. open \in SUBSET Games
    OBVIOUS
  <2> QED BY <1>1, <2>1 DEF Soon
<1>3. /\ entry.next_game = FirstOf(open) /\ entry.next_days = Cardinality(soon)
      /\ entry.played = Cardinality(its \ open)
  <2> HIDE DEF its, open, soon
  <2> QED BY <1>1, <1>2, TheEntryOfATeam DEF EntryOf
<1> HIDE DEF its, open, soon, entry
<1>4. entry.next_game = NoGame <=> open = {}
  BY <1>2, <1>3, FirstOfIsFirst
<1>5. ASSUME NEW g \in open
      PROVE  entry.next_game \in open /\ stored[entry.next_game].day <= stored[g].day
  <2>1. FirstOf(open) \in open /\ First(FirstOf(open), open)
    BY <1>2, FirstOfIsFirst
  <2> QED BY <1>2, <1>3, <2>1, GamesAreInOrder, GamesAreNumbered DEF First
<1> QED BY <1>3, <1>4, <1>5 DEF entry, its, open, soon

\* Whatever the feed does and however many loads run, fail or are killed: what
\* team_schedules works out in one walk is what the games say, how many are over,
\* how many are coming up, and which of those is first; and never fewer than no and
\* never more than a season's games are left.
THEOREM TheTeamPagesAgree == ScheduleConstants => (Spec => [](TypeOK /\ FiguresAgree))
<1> SUFFICES ASSUME ScheduleConstants PROVE Spec => [](TypeOK /\ FiguresAgree)
  OBVIOUS
<1>1. Init => LoadTypes
  BY InitTypes
<1>2. LoadTypes /\ [Next]_vars => LoadTypes'
  BY NextTypes
<1>3. ASSUME LoadTypes PROVE TypeOK /\ FiguresAgree
  <2>1. Schedule /\ now \in Nat /\ LastDay \in Nat
    BY <1>3, IdleIsGood DEF LoadTypes, Schedule
  <2>2. \A t \in Teams : Left(t) \in 0..REGULAR_SEASON_GAMES
    BY <2>1, TheFiguresOfATeam
  <2>3. \A w \in Workers : job[w].got \in [Games -> Entry] /\ job[w].range \in 0..(LastDay + 1)
    BY <1>3, <2>1 DEF LoadTypes, GoodLoad, Load
  <2> QED BY <1>3, <2>1, <2>2, <2>3, TheFiguresOfTheTeamsAgree DEF TypeOK, LoadTypes
<1> QED BY <1>1, <1>2, <1>3, PTL DEF Spec

-----------------------------------------------------------------------------
(* A player's rest of the season *)

RestVars == <<vars, rest>>

RestInv ==
  /\ now \in Nat /\ stored \in [Games -> Entry]
  /\ report \in Reports \union {NoReport} /\ fp_per_game \in PerGame \union {NoPoints}

LEMMA RestHolds == ScheduleConstants => (RestInit /\ [][RestNext]_RestVars => []RestInv)
<1> SUFFICES ASSUME ScheduleConstants PROVE RestInit /\ [][RestNext]_RestVars => []RestInv
  OBVIOUS
<1>1. RestInit => RestInv
  BY DEF RestInit, RestInv
<1>2. RestInv /\ [RestNext]_RestVars => RestInv'
  BY DEF RestInv, RestNext, RestVars, vars, rest
<1> QED BY <1>1, <1>2, PTL

\* With a blank status read as the lists read it, both sides leave the same games out, or
\* none.
LEMMA SameReturn ==
  ASSUME RestConstants
  PROVE  /\ (ListedState = "injured" /\ ExpectedReturn(ListedState) # NoDate) <=> OutUntilReturn
         /\ OutUntilReturn => ExpectedReturn(ListedState) = ExpectedReturnDate
<1>1. CASE report = NoReport
  <2>1. ListedState = "healthy" /\ ExpectedReturnDate = NoDate
    BY <1>1 DEF ListedState, BlankStatus, InjuryState, ExpectedReturnDate
  <2> QED BY <2>1 DEF OutUntilReturn
<1>2. CASE report # NoReport /\ report.status \in Healthy
  <2>1. ListedState = "healthy" /\ ExpectedReturnDate = NoDate
    BY <1>2 DEF RestConstants, BlankIsNeither, ListedState, BlankStatus, InjuryState, ExpectedReturnDate
  <2> QED BY <2>1 DEF OutUntilReturn
<1>3. CASE report # NoReport /\ report.status \notin Healthy /\ report.status # ""
  <2>1. ListedState = IF report.status \in DayToDay THEN "day_to_day" ELSE "injured"
    BY <1>3 DEF ListedState, BlankStatus, InjuryState
  <2>2. /\ ExpectedReturn(ListedState) = report.return_date
        /\ ExpectedReturnDate = report.return_date
    BY <1>3, <2>1 DEF ExpectedReturn, ExpectedReturnDate
  <2> QED BY <2>1, <2>2 DEF OutUntilReturn
<1>4. CASE report # NoReport /\ report.status = ""
  <2>1. ListedState = "injured" /\ ExpectedReturn(ListedState) = report.return_date
    BY <1>4 DEF ListedState, BlankStatus, ExpectedReturn
  <2>2. ExpectedReturnDate = report.return_date /\ report.status \notin DayToDay
    BY <1>4 DEF RestConstants, BlankIsNeither, ExpectedReturnDate
  <2> QED BY <2>1, <2>2 DEF OutUntilReturn
<1> QED BY <1>1, <1>2, <1>3, <1>4

\* The games that the lists leave a player are those his page would, were a blank status
\* what they take it for; those of the next days too.
LEMMA TheGamesLeft ==
  ASSUME RestConstants, RestInv
  PROVE  with_rest_of_season =
           IF TeamGames = {} /\ SeasonGames # {} THEN [NoFigures EXCEPT !.games_missed = 0]
           ELSE RestIn(ListedState)
<1> DEFINE missed == MissedOnPage(ListedState)
           soon == {g \in missed : stored[g].day < now + NEXT_DAYS}
           out(until) == IF OutUntilReturn THEN MissedBeforeReturn(until) ELSE 0
<1>1. missed = IF OutUntilReturn
               THEN {g \in TeamGames : /\ stored[g].day > now - GAME_LENGTH
                                       /\ DateOf(stored[g].day) < ExpectedReturnDate}
               ELSE {}
  BY SameReturn DEF MissedOnPage
<1>2. TeamGames \subseteq SeasonGames /\ SeasonGames \subseteq Games
  BY DEF TeamGames, SeasonGames
<1>3. Cardinality(missed) = out(Endless)
  <2>1. CASE OutUntilReturn
    <3>1. \A g \in TeamGames : stored[g].day < Endless
      <4> SUFFICES ASSUME NEW g \in TeamGames PROVE stored[g].day < LastDay + 1
        BY DEF Endless
      <4>1. stored[g].day \in 1..LastDay /\ LastDay \in Nat
        BY <1>2 DEF RestInv, Entry, Days, RestConstants, ScheduleConstants
      <4> QED BY <4>1
    <3>2. missed = {g \in TeamGames : /\ stored[g].day > now - GAME_LENGTH
                                      /\ stored[g].day < Endless
                                      /\ DateOf(stored[g].day) < ExpectedReturnDate}
      BY <1>1, <2>1, <3>1
    <3> QED BY <2>1, <3>2 DEF MissedBeforeReturn
  <2>2. CASE ~OutUntilReturn
    BY <1>1, <2>2, FS_EmptySet
  <2> QED BY <2>1, <2>2
<1>4. Cardinality(soon) = out(now + NEXT_DAYS)
  <2>1. CASE OutUntilReturn
    <3>1. soon = {g \in TeamGames : /\ stored[g].day > now - GAME_LENGTH
                                    /\ stored[g].day < now + NEXT_DAYS
                                    /\ DateOf(stored[g].day) < ExpectedReturnDate}
      BY <1>1, <2>1
    <3> QED BY <2>1, <3>1 DEF MissedBeforeReturn
  <2>2. CASE ~OutUntilReturn
    <3>1. soon = {}
      BY <1>1, <2>2
    <3> QED BY <2>2, <3>1, FS_EmptySet
  <2> QED BY <2>1, <2>2
<1>5. team = NoTeam => TeamGames = {}
  BY <1>2 DEF TeamGames, RestConstants, ScheduleConstants
<1>6. TeamGames = {} => missed = {}
  BY <1>1
<1>7. RestIn(ListedState) =
        IF team = NoTeam \/ TeamGames = {} THEN NoFigures
        ELSE [games_missed |-> Cardinality(missed),
              games_expected |-> NotBelowZero(Left(team) - Cardinality(missed)),
              next_days |-> NotBelowZero(TeamSchedule(team).next_days - Cardinality(soon))]
  BY DEF RestIn
<1>8. with_rest_of_season =
        IF SeasonGames = {} THEN NoFigures
        ELSE IF TeamGames = {} THEN [NoFigures EXCEPT !.games_missed = out(Endless)]
        ELSE [games_missed |-> out(Endless),
              games_expected |-> NotBelowZero(Left(team) - out(Endless)),
              next_days |-> NotBelowZero(TeamSchedule(team).next_days - out(now + NEXT_DAYS))]
  BY DEF with_rest_of_season
<1> HIDE DEF missed, soon, out
<1>9. CASE TeamGames = {}
  <2>1. out(Endless) = 0
    BY <1>3, <1>6, <1>9, FS_EmptySet
  <2> QED BY <1>2, <1>7, <1>8, <1>9, <2>1
<1>10. CASE TeamGames # {}
  <2>1. SeasonGames # {} /\ team # NoTeam
    BY <1>2, <1>5, <1>10
  <2> QED BY <1>3, <1>4, <1>7, <1>8, <1>10, <2>1
<1> QED BY <1>9, <1>10

\* Python rounds to even, PostgreSQL away from zero: of any amount they make the
\* same number, above and below zero, unless it lies half way between two.
LEMMA OnlyTiesRoundApart ==
  \A x \in Int : RoundEven(x) # RoundAway(x) => x % One = One \div 2
<1> SUFFICES ASSUME NEW x \in Int, x % One # One \div 2
             PROVE  RoundEven(x) = RoundAway(x)
  OBVIOUS
<1> DEFINE n == x \div 10000  r == x % 10000
<1>1. /\ n \in Int /\ r \in Int /\ x = 10000 * n + r /\ 0 <= r /\ r < 10000 /\ r # 5000
  BY DEF One
<1>2. RoundEven(x) = IF r * 2 < 10000 \/ (r * 2 = 10000 /\ n % 2 = 0) THEN n ELSE n + 1
  BY DEF RoundEven, One
<1>3. RoundAway(x) = IF x < 0 THEN -((-x + 5000) \div 10000) ELSE (x + 5000) \div 10000
  BY DEF RoundAway, One
<1> HIDE DEF n, r
<1>4. CASE r < 5000
  <2>1. RoundEven(x) = n
    BY <1>1, <1>2, <1>4
  <2>2. (x + 5000) \div 10000 = n /\ (-x + 5000) \div 10000 = -n
    BY <1>1, <1>4
  <2> QED BY <1>1, <1>3, <2>1, <2>2
<1>5. CASE r > 5000
  <2>1. RoundEven(x) = n + 1
    BY <1>1, <1>2, <1>5
  <2>2. (x + 5000) \div 10000 = n + 1 /\ (-x + 5000) \div 10000 = -n - 1
    BY <1>1, <1>5
  <2> QED BY <1>1, <1>3, <2>1, <2>2
<1> QED BY <1>1, <1>4, <1>5

\* What a team has left, less what a player misses, is a number.
LEMMA ExpectedGames ==
  ASSUME RestConstants, RestInv, NEW state, RestIn(state) # NoFigures
  PROVE  RestIn(state).games_expected \in Nat
<1> DEFINE missed == MissedOnPage(state)
           expected == NotBelowZero(Left(team) - Cardinality(missed))
<1>1. RestIn(state).games_expected = expected /\ TeamGames # {}
  BY DEF RestIn
<1>2. IsFiniteSet(missed)
  <2>1. missed \in SUBSET Games /\ IsFiniteSet(Games)
    BY DEF MissedOnPage, TeamGames, SeasonGames, RestConstants, ScheduleConstants
  <2> HIDE DEF missed
  <2> QED BY <2>1, FS_Subset
<1>3. team \in Teams
  BY <1>1 DEF TeamGames, SeasonGames, RestConstants, ScheduleConstants
<1>4. Left(team) \in 0..REGULAR_SEASON_GAMES /\ REGULAR_SEASON_GAMES \in Nat
  BY <1>3, TheFiguresOfATeam DEF RestInv, Schedule, RestConstants, ScheduleConstants
<1> HIDE DEF missed
<1>5. Cardinality(missed) \in Nat
  BY <1>2, FS_CardinalityType
<1> QED BY <1>1, <1>4, <1>5 DEF NotBelowZero

\* For any schedule, report, average and moment: the page of a player, worked out
\* in Python, and the lists, worked out in SQL, leave him the same games, and they
\* project the same points unless those lie half way between two.  There are just two
\* exceptions, and the theorem says what comes out of them: the lists hold a player out
\* until its date when a report has a blank status, where the page takes him for healthy,
\* and they say of a player without a team, or of a team without games, that he misses
\* none, where the page says nothing.
THEOREM ThePagesAndTheListsAgree ==
  RestConstants => (RestInit /\ [][RestNext]_RestVars => []RestAgrees)
<1> SUFFICES ASSUME RestConstants
             PROVE  RestInit /\ [][RestNext]_RestVars => []RestAgrees
  OBVIOUS
<1>1. ScheduleConstants
  BY DEF RestConstants
<1>2. RestInit /\ [][RestNext]_RestVars => []RestInv
  BY <1>1, RestHolds
<1>3. ASSUME RestInv PROVE RestAgrees
  <2> DEFINE page == rest_of_season
             list == with_rest_of_season
  <2>1. list = IF TeamGames = {} /\ SeasonGames # {} THEN [NoFigures EXCEPT !.games_missed = 0]
               ELSE RestIn(ListedState)
    BY <1>3, TheGamesLeft
  <2>2. ASSUME ~BlankStatus, ProjectedOnPage # ProjectedInLists
        PROVE  Exact(page.games_expected) % One = One \div 2
    <3> DEFINE x == Exact(page.games_expected)
    <3>1. page = RestIn(ListedState)
      BY <2>2 DEF rest_of_season, ListedState
    <3>2. page = NoFigures => list.games_expected = NoGame
      BY <2>1, <3>1 DEF NoFigures
    <3>3. page # NoFigures => list = page
      <4>1. TeamGames = {} => page = NoFigures
        BY <3>1 DEF RestIn
      <4> QED BY <2>1, <3>1, <4>1
    <3>4. page # NoFigures => page.games_expected \in Nat
      BY <1>3, <3>1, ExpectedGames
    <3>5. fp_per_game # NoPoints /\ page # NoFigures
      <4>1. NoGame \notin Nat
        BY DEF NoGame
      <4> QED BY <2>2, <3>2, <3>3, <3>4, <4>1 DEF ProjectedOnPage, ProjectedInLists
    <3>6. ProjectedOnPage = RoundEven(x) /\ ProjectedInLists = RoundAway(x)
      <4>1. list.games_expected # NoGame
        BY <3>3, <3>4, <3>5 DEF NoGame
      <4> QED BY <3>3, <3>5, <4>1 DEF ProjectedOnPage, ProjectedInLists
    <3>7. x \in Int
      <4>1. fp_per_game \in Int /\ EXPECTED_AVAILABILITY \in Int
        BY <1>3, <3>5 DEF RestInv, RestConstants
      <4>2. page.games_expected \in Int
        BY <3>4, <3>5
      <4> HIDE DEF page
      <4> QED BY <4>1, <4>2 DEF Exact
    <3> HIDE DEF x
    <3>8. RoundEven(x) # RoundAway(x)
      BY <2>2, <3>6
    <3> QED BY <3>7, <3>8, OnlyTiesRoundApart DEF x
  <2> QED BY <2>1, <2>2 DEF RestAgrees
<1> QED BY <1>2, <1>3, PTL

-----------------------------------------------------------------------------
(* What is read off the snapshots *)

CONSTANTS
  Players, Figures, None, SeasonOpens, SeasonCloses, TradeMarketOpens, Week, Curve, MIN_SALARY,
  HOTNESS_GAMES, LastInstant, MaxImports

VARIABLES season, snapshots, mirror, said

Look == INSTANCE Outlook

Amount == Int \union {None}

Reading == [salary : Int, fp_per_game : Amount, games_played : Nat, total_fp : Int]

Row == [player : Players, season : Look!Seasons, as_of : Look!Instants, salary : Int,
        fp_per_game : Amount, games_played : Nat, total_fp : Int]

Baseline == [kind : {"preseason", "update"}, season : Look!Seasons, moment : Nat]

\* NULL is neither a snapshot nor a baseline.
LookConstants == Look!OutlookConstants /\ None \notin Row \union Baseline

-----------------------------------------------------------------------------
(* Instants *)

\* A set of instants has a last one.
LEMMA LastOfInstants ==
  ASSUME LookConstants, NEW S \in SUBSET Look!Instants, S # {}
  PROVE  \E m \in S : \A n \in S : n <= m
<1> DEFINE back == {LastInstant - n : n \in S}
<1>1. \A n \in S : n \in Nat /\ LastInstant - n \in Nat
  BY DEF LookConstants, Look!OutlookConstants, Look!Instants
<1>2. back \in SUBSET Nat /\ back # {}
  BY <1>1
<1>3. PICK b \in back : \A c \in back : b <= c
  <2> HIDE DEF back
  <2> QED BY <1>2, LeastNumber
<1>4. PICK m \in S : b = LastInstant - m
  BY <1>3
<1>5. ASSUME NEW n \in S PROVE n <= m
  <2>1. LastInstant - n \in back
    OBVIOUS
  <2>2. LastInstant - m <= LastInstant - n
    BY <1>3, <1>4, <2>1
  <2>3. LastInstant \in Nat
    BY DEF LookConstants, Look!OutlookConstants
  <2> QED BY <1>1, <2>2, <2>3
<1> QED BY <1>5

\* Max finds it.
LEMMA MaxOfInstants ==
  ASSUME LookConstants, NEW S \in SUBSET Look!Instants, S # {}
  PROVE  Look!Max(S) \in S /\ \A n \in S : n <= Look!Max(S)
<1>1. \A n \in S : n \in Nat
  BY DEF LookConstants, Look!OutlookConstants, Look!Instants
<1>2. PICK m \in S : \A n \in S : n <= m
  BY LastOfInstants
<1>3. \A n \in S : m >= n
  BY <1>1, <1>2
<1>4. Look!Max(S) = CHOOSE x \in S : \A y \in S : x >= y
  BY DEF Look!Max
<1>5. Look!Max(S) \in S /\ \A n \in S : Look!Max(S) >= n
  BY <1>3, <1>4
<1> QED BY <1>1, <1>5

-----------------------------------------------------------------------------
(* Snapshots *)

FiguresOf(x) ==
  [salary |-> x.salary, fp_per_game |-> x.fp_per_game, games_played |-> x.games_played,
   total_fp |-> x.total_fp]

\* Of one player at most one a moment.
OneAMoment(rows) ==
  /\ \A x \in rows : x.as_of \in Look!Instants /\ x.as_of \in Nat
  /\ \A x, y \in rows : x.as_of = y.as_of => x = y

\* The newest of some snapshots is one of them.
LEMMA NewestIs ==
  ASSUME LookConstants, NEW rows, OneAMoment(rows), rows # {}
  PROVE  Look!Newest(rows) \in rows /\ \A x \in rows : x.as_of <= Look!Newest(rows).as_of
<1> DEFINE stamps == {x.as_of : x \in rows}
<1>1. stamps \in SUBSET Look!Instants /\ stamps # {}
  BY DEF OneAMoment
<1>2. PICK m \in stamps : \A n \in stamps : n <= m
  <2> HIDE DEF stamps
  <2> QED BY <1>1, LastOfInstants
<1>3. PICK z \in rows : z.as_of = m
  BY <1>2
<1>4. \A x \in rows : x.as_of \in stamps /\ x.as_of \in Nat
  BY DEF OneAMoment
<1>5. \A x \in rows : z.as_of >= x.as_of
  <2> HIDE DEF stamps
  <2> QED BY <1>2, <1>3, <1>4
<1>6. Look!Newest(rows) = CHOOSE x \in rows : \A y \in rows : x.as_of >= y.as_of
  BY DEF Look!Newest
<1>7. Look!Newest(rows) \in rows /\ \A y \in rows : Look!Newest(rows).as_of >= y.as_of
  BY <1>5, <1>6
<1> QED BY <1>4, <1>7

\* So is the oldest.
LEMMA OldestIs ==
  ASSUME LookConstants, NEW rows, OneAMoment(rows), rows # {}
  PROVE  Look!Oldest(rows) \in rows /\ \A x \in rows : Look!Oldest(rows).as_of <= x.as_of
<1> DEFINE stamps == {x.as_of : x \in rows}
<1>1. stamps \in SUBSET Nat /\ stamps # {}
  BY DEF OneAMoment
<1>2. PICK m \in stamps : \A n \in stamps : m <= n
  <2> HIDE DEF stamps
  <2> QED BY <1>1, LeastNumber
<1>3. PICK z \in rows : z.as_of = m
  BY <1>2
<1>4. \A x \in rows : x.as_of \in stamps
  OBVIOUS
<1>5. \A x \in rows : z.as_of <= x.as_of
  <2> HIDE DEF stamps
  <2> QED BY <1>2, <1>3, <1>4
<1>6. Look!Oldest(rows) = CHOOSE x \in rows : \A y \in rows : x.as_of <= y.as_of
  BY DEF Look!Oldest
<1> QED BY <1>5, <1>6

\* The one that nothing is newer than, and the one that nothing is older than.
LEMMA TheNewest ==
  ASSUME LookConstants, NEW rows, OneAMoment(rows), NEW x \in rows, \A y \in rows : y.as_of <= x.as_of
  PROVE  Look!Newest(rows) = x
<1>1. Look!Newest(rows) \in rows /\ \A y \in rows : y.as_of <= Look!Newest(rows).as_of
  BY NewestIs
<1>2. Look!Newest(rows).as_of = x.as_of
  BY <1>1 DEF OneAMoment
<1> QED BY <1>1, <1>2 DEF OneAMoment

LEMMA TheOldest ==
  ASSUME LookConstants, NEW rows, OneAMoment(rows), NEW x \in rows, \A y \in rows : x.as_of <= y.as_of
  PROVE  Look!Oldest(rows) = x
<1>1. Look!Oldest(rows) \in rows /\ \A y \in rows : Look!Oldest(rows).as_of <= y.as_of
  BY OldestIs
<1>2. Look!Oldest(rows).as_of = x.as_of
  BY <1>1 DEF OneAMoment
<1> QED BY <1>1, <1>2 DEF OneAMoment

\* It holds of a part of them.
LEMMA SomeOfThem ==
  ASSUME NEW rows, OneAMoment(rows), NEW part \in SUBSET rows
  PROVE  OneAMoment(part)
BY DEF OneAMoment

-----------------------------------------------------------------------------
(* The inductive invariant *)

OutlookShape ==
  /\ now \in Look!Instants /\ season \in Look!Seasons
  /\ snapshots \subseteq Row
  /\ mirror \in [Players -> Reading \union {Look!Unread}]

\* Imports follow one another, each in the season of its day, and list nobody twice.
InTurn ==
  /\ \A x \in snapshots : x.as_of <= now /\ x.season <= season
  /\ \A x, y \in snapshots : x.player = y.player /\ x.as_of = y.as_of => x = y
  /\ \A x, y \in snapshots : x.season < y.season => x.as_of < y.as_of

\* The columns of a player are the figures of his newest snapshot.
MirrorIsNewest ==
  \A x \in snapshots :
    (\A y \in snapshots : y.player = x.player => y.as_of <= x.as_of) => mirror[x.player] = FiguresOf(x)

\* What is known of a player of a season when a snapshot of his is the newest.
Known(x) == {y \in snapshots : y.player = x.player /\ y.season = x.season /\ y.as_of <= x.as_of}

\* What his page says then.
UpdatesBy(x) == {m \in Look!AllMoments(x.season) : m <= x.as_of}

BaselineBy(x) ==
  IF Look!AllMoments(x.season) # {} /\ \A m \in Look!AllMoments(x.season) : m <= x.as_of THEN None
  ELSE IF UpdatesBy(x) # {} THEN Look!AfterUpdate(x.season, Look!Max(UpdatesBy(x)))
  ELSE Look!Preseason(x.season)

SnapshotBy(rows, b) ==
  LET before == {y \in rows : y.as_of < b.moment}
      after == {y \in rows : y.as_of >= b.moment}
  IN IF b.kind = "preseason"
     THEN IF before = {} THEN None ELSE Look!Newest(before)
     ELSE IF after = {} THEN None ELSE Look!Oldest(after)

PremiumBy(rows, b) ==
  LET x == SnapshotBy(rows, b)
  IN IF x = None THEN None ELSE Look!pick_premium(x, b.kind = "preseason")

SalaryBy(x, rows) ==
  IF BaselineBy(x) = None THEN None
  ELSE Look!predicted_salary(x.fp_per_game, PremiumBy(rows, BaselineBy(x)))

SaidOf(x) == [player |-> x.player, as_of |-> x.as_of, salary |-> SalaryBy(x, Known(x))]

\* A page is looked at before anything else happens, and what it said is kept.
PagesSaid ==
  /\ \A t \in said : \E x \in snapshots : x.as_of = t.as_of
  /\ \A x \in snapshots : (x.as_of = now /\ x.season = season /\ x \in Look!Unsaid) \/ SaidOf(x) \in said

OutlookInv == OutlookShape /\ InTurn /\ MirrorIsNewest /\ PagesSaid

-----------------------------------------------------------------------------
(* The first state, and steps in general *)

\* What the constants are.
LEMMA LookTypes ==
  ASSUME LookConstants
  PROVE  /\ LastInstant \in Nat /\ None \notin Int /\ 1 \in Look!Seasons
         /\ Look!Instants \subseteq Nat /\ Look!Seasons \subseteq Nat /\ 0 \in Look!Instants
         /\ \A s \in Look!Seasons : SeasonOpens[s] \in Nat /\ SeasonCloses[s] \in Nat
         /\ \A p \in Players : \A f \in Figures[p] : f \in Reading
         /\ \A x \in Row : x.as_of \in Nat /\ x.season \in Nat
<1>1. Look!Seasons \subseteq Nat /\ Look!Instants \subseteq Nat /\ 0 \in Look!Instants
  BY DEF LookConstants, Look!OutlookConstants, Look!Instants, Look!Seasons
<1>2. \A x \in Row : x.as_of \in Nat /\ x.season \in Nat
  BY <1>1 DEF Row
<1>3. \A p \in Players : \A f \in Figures[p] : f \in Reading
  BY DEF LookConstants, Look!OutlookConstants, Reading, Amount
<1> QED BY <1>1, <1>2, <1>3 DEF LookConstants, Look!OutlookConstants

\* At first nothing has been read.
LEMMA InitOutlook ==
  ASSUME LookConstants, Look!Init
  PROVE  OutlookInv
<1>1. OutlookShape
  BY LookTypes DEF Look!Init, OutlookShape
<1>2. snapshots = {} /\ said = {}
  BY DEF Look!Init
<1> QED BY <1>1, <1>2 DEF OutlookInv, InTurn, MirrorIsNewest, PagesSaid

\* The snapshots of one player, of one season, up to a moment.
LEMMA RowsOfAPlayer ==
  ASSUME LookConstants, OutlookShape, InTurn, NEW p
  PROVE  /\ OneAMoment({x \in snapshots : x.player = p})
         /\ \A s : OneAMoment(Look!Of(p, s))
<1>1. \A x \in snapshots : x.as_of \in Look!Instants /\ x.as_of \in Nat
  BY LookTypes DEF OutlookShape, Row
<1>2. OneAMoment({x \in snapshots : x.player = p})
  BY <1>1 DEF OneAMoment, InTurn
<1>3. \A s : Look!Of(p, s) \subseteq {x \in snapshots : x.player = p}
  BY DEF Look!Of
<1> QED BY <1>2, <1>3, SomeOfThem

\* What is known of a player includes the snapshot it is known with.
LEMMA KnownRows ==
  ASSUME LookConstants, OutlookShape, InTurn, NEW x \in snapshots
  PROVE  OneAMoment(Known(x)) /\ x \in Known(x)
<1>1. Known(x) \subseteq Look!Of(x.player, x.season)
  BY DEF Known, Look!Of
<1>2. x.as_of <= x.as_of
  BY LookTypes DEF OutlookShape
<1> QED BY <1>1, <1>2, RowsOfAPlayer, SomeOfThem DEF Known

-----------------------------------------------------------------------------
(* An import *)

NewRow(p, read) ==
  [player |-> p, season |-> season, as_of |-> now, salary |-> read[p].salary,
   fp_per_game |-> read[p].fp_per_game, games_played |-> read[p].games_played,
   total_fp |-> read[p].total_fp]

NewRows(present, read) == {NewRow(p, read) : p \in present}

\* What an import adds, and what it leaves alone.
LEMMA ImportRows ==
  ASSUME LookConstants, OutlookShape, NEW present \in SUBSET Players, NEW read,
         \A p \in present : read[p] \in Figures[p], Look!Import(present, read)
  PROVE  /\ snapshots' = snapshots \union NewRows(present, read)
         /\ \A x \in snapshots : x.as_of < now
         /\ \A x \in NewRows(present, read) :
              /\ x \in Row /\ x.player \in present /\ x.as_of = now /\ x.season = season
              /\ FiguresOf(x) = read[x.player]
         /\ \A x, y \in NewRows(present, read) : x.player = y.player => x = y
         /\ \A p \in present : NewRow(p, read) \in NewRows(present, read)
         /\ \A p \in present : mirror'[p] = read[p]
         /\ \A p \in Players \ present : mirror'[p] = mirror[p]
         /\ mirror' \in [Players -> Reading \union {Look!Unread}]
         /\ UNCHANGED <<now, season, said>>
<1>1. /\ snapshots' = snapshots \union NewRows(present, read)
      /\ \A x \in snapshots : x.as_of < now
      /\ UNCHANGED <<now, season, said>>
      /\ mirror' = [p \in Players |-> IF p \in present THEN read[p] ELSE mirror[p]]
  BY DEF Look!Import, NewRow, NewRows
<1>2. \A p \in present : p \in Players /\ read[p] \in Reading
  BY LookTypes
<1>3. ASSUME NEW p \in present
      PROVE  /\ NewRow(p, read) \in Row /\ NewRow(p, read).player = p
             /\ NewRow(p, read).as_of = now /\ NewRow(p, read).season = season
             /\ FiguresOf(NewRow(p, read)) = read[p]
  <2>1. read[p] \in Reading /\ p \in Players
    BY <1>2
  <2>2. NewRow(p, read) \in Row
    BY <2>1 DEF NewRow, Row, Reading, OutlookShape
  <2>3. FiguresOf(NewRow(p, read)) = read[p]
    BY <2>1 DEF NewRow, FiguresOf, Reading
  <2> QED BY <2>2, <2>3 DEF NewRow
<1>4. mirror' \in [Players -> Reading \union {Look!Unread}]
  BY <1>1, <1>2 DEF OutlookShape
<1>5. /\ \A p \in present : mirror'[p] = read[p]
      /\ \A p \in Players \ present : mirror'[p] = mirror[p]
  BY <1>1
<1>6. \A x \in NewRows(present, read) : \E p \in present : x = NewRow(p, read)
  BY DEF NewRows
<1>7. \A p \in present : NewRow(p, read) \in NewRows(present, read)
  BY DEF NewRows
<1> QED BY <1>1, <1>3, <1>4, <1>5, <1>6, <1>7

\* It comes after all others, and moves the columns of those it lists.
LEMMA ImportInTurn ==
  ASSUME LookConstants, OutlookInv, NEW present \in SUBSET Players, NEW read,
         \A p \in present : read[p] \in Figures[p], Look!Import(present, read)
  PROVE  OutlookShape' /\ InTurn' /\ MirrorIsNewest'
<1> DEFINE new == NewRows(present, read)
<1>1. /\ snapshots' = snapshots \union new
      /\ \A x \in snapshots : x.as_of < now
      /\ \A x \in new : /\ x \in Row /\ x.player \in present /\ x.as_of = now /\ x.season = season
                        /\ FiguresOf(x) = read[x.player]
      /\ \A x, y \in new : x.player = y.player => x = y
      /\ \A p \in present : mirror'[p] = read[p]
      /\ \A p \in Players \ present : mirror'[p] = mirror[p]
      /\ mirror' \in [Players -> Reading \union {Look!Unread}]
      /\ UNCHANGED <<now, season, said>>
  BY ImportRows DEF OutlookInv
<1>2. OutlookShape /\ InTurn /\ MirrorIsNewest
  BY DEF OutlookInv
<1>3. now \in Nat /\ season \in Nat
  BY <1>2, LookTypes DEF OutlookShape
<1>4. \A x \in snapshots : x.as_of \in Nat /\ x.season \in Nat /\ x.player \in Players
  BY <1>2, LookTypes DEF OutlookShape, Row
<1>m. \A p \in present : \E x \in new : x.player = p /\ x.as_of = now
  <2>1. \A p \in present : NewRow(p, read) \in new /\ NewRow(p, read).player = p
                           /\ NewRow(p, read).as_of = now
    BY DEF NewRow, NewRows
  <2> QED BY <2>1
<1> HIDE DEF new
<1>5. OutlookShape'
  BY <1>1, <1>2 DEF OutlookShape
<1>6. InTurn'
  <2>1. \A x \in snapshots' : x.as_of <= now /\ x.season <= season
    BY <1>1, <1>2, <1>3, <1>4 DEF InTurn
  <2>2. \A x, y \in snapshots' : x.player = y.player /\ x.as_of = y.as_of => x = y
    BY <1>1, <1>2, <1>3, <1>4 DEF InTurn
  <2>3. \A x, y \in snapshots' : x.season < y.season => x.as_of < y.as_of
    BY <1>1, <1>2, <1>3, <1>4 DEF InTurn
  <2> QED BY <1>1, <2>1, <2>2, <2>3 DEF InTurn
<1>7. MirrorIsNewest'
  <2> SUFFICES ASSUME NEW x \in snapshots', \A y \in snapshots' : y.player = x.player => y.as_of <= x.as_of
               PROVE  mirror'[x.player] = FiguresOf(x)
    BY DEF MirrorIsNewest, FiguresOf
  <2>1. CASE x \in new
    BY <1>1, <2>1
  <2>2. CASE x \notin new
    <3>1. x \in snapshots
      BY <1>1, <2>2
    <3>2. x.player \notin present
      <4> SUFFICES ASSUME x.player \in present PROVE FALSE
        OBVIOUS
      <4>1. PICK y \in new : y.player = x.player /\ y.as_of = now
        BY <1>m
      <4> QED BY <1>1, <1>3, <1>4, <3>1, <4>1
    <3>3. mirror[x.player] = FiguresOf(x)
      BY <1>1, <1>2, <3>1 DEF MirrorIsNewest
    <3> QED BY <1>1, <1>4, <3>1, <3>2, <3>3
  <2> QED BY <2>1, <2>2
<1> QED BY <1>5, <1>6, <1>7

\* What has been known of a player stays what was known then.
LEMMA ImportPages ==
  ASSUME LookConstants, OutlookInv, NEW present \in SUBSET Players, NEW read,
         \A p \in present : read[p] \in Figures[p], Look!Import(present, read)
  PROVE  PagesSaid'
<1> DEFINE new == NewRows(present, read)
<1>1. /\ snapshots' = snapshots \union new
      /\ \A x \in snapshots : x.as_of < now
      /\ \A x \in new : x.as_of = now /\ x.season = season
      /\ UNCHANGED <<now, season, said>>
  BY ImportRows DEF OutlookInv
<1> HIDE DEF new
<1>2. OutlookShape /\ InTurn /\ PagesSaid
  BY DEF OutlookInv
<1>3. now \in Nat /\ \A x \in snapshots : x.as_of \in Nat
  BY <1>2, LookTypes DEF OutlookShape
<1>4. \A t \in said' : \E x \in snapshots' : x.as_of = t.as_of
  BY <1>1, <1>2 DEF PagesSaid
<1>5. ASSUME NEW x \in snapshots PROVE Known(x)' = Known(x)
  BY <1>1, <1>3 DEF Known
<1>6. ASSUME NEW x \in snapshots PROVE SaidOf(x) \in said
  <2>1. x.as_of # now
    BY <1>1, <1>3
  <2> QED BY <1>2, <2>1 DEF PagesSaid
<1>7. ASSUME NEW x \in snapshots PROVE SaidOf(x)' \in said'
  <2>1. SaidOf(x)' = SaidOf(x)
    BY <1>5 DEF SaidOf, SalaryBy, BaselineBy, UpdatesBy, PremiumBy, SnapshotBy
  <2> QED BY <1>1, <1>6, <2>1
<1>8. ASSUME NEW x \in new PROVE x.as_of = now' /\ x.season = season' /\ x \in Look!Unsaid'
  <2>1. \A t \in said : t.as_of # x.as_of
    BY <1>1, <1>2, <1>3 DEF PagesSaid
  <2> QED BY <1>1, <2>1 DEF Look!Unsaid
<1> QED BY <1>1, <1>4, <1>7, <1>8 DEF PagesSaid

-----------------------------------------------------------------------------
(* The pages, the calendar, and all steps *)

\* The updates of a season are moments of the run.
LEMMA MomentsAreInstants ==
  ASSUME NEW s
  PROVE  Look!AllMoments(s) \subseteq Look!Instants
BY DEF Look!AllMoments, Look!UpdateMoments

\* While a snapshot is the newest, the baseline is that of its moment.
LEMMA BaselineWhenNewest ==
  ASSUME LookConstants, OutlookShape, InTurn, NEW x \in snapshots, x.as_of = now, x.season = season
  PROVE  /\ Look!salary_baseline = BaselineBy(x)
         /\ BaselineBy(x) = None \/ BaselineBy(x).season = season
<1> DEFINE updates == Look!AllMoments(season)
           read == {m \in updates : \E y \in snapshots : y.season = season /\ m <= y.as_of}
<1>1. now \in Nat /\ \A y \in snapshots : y.as_of \in Nat /\ y.as_of <= now
  BY LookTypes DEF OutlookShape, InTurn
<1>2. \A m \in updates : m \in Nat
  BY LookTypes, MomentsAreInstants
<1>3. read = {m \in updates : m <= now}
  BY <1>1, <1>2
<1>4. read = UpdatesBy(x)
  BY <1>3 DEF UpdatesBy
<1>5. Look!salary_baseline =
        IF updates # {} /\ \A m \in updates : m <= now THEN None
        ELSE IF read # {} THEN Look!AfterUpdate(season, Look!Max(read))
        ELSE Look!Preseason(season)
  BY DEF Look!salary_baseline
<1>6. BaselineBy(x) =
        IF updates # {} /\ \A m \in updates : m <= now THEN None
        ELSE IF UpdatesBy(x) # {} THEN Look!AfterUpdate(season, Look!Max(UpdatesBy(x)))
        ELSE Look!Preseason(season)
  BY DEF BaselineBy
<1> HIDE DEF updates, read
<1>7. Look!salary_baseline = BaselineBy(x)
  BY <1>4, <1>5, <1>6
<1>8. BaselineBy(x) = None \/ BaselineBy(x).season = season
  BY <1>6 DEF Look!AfterUpdate, Look!Preseason
<1> QED BY <1>7, <1>8

\* A page looked at right after an import says what is said of its snapshot.
LEMMA PageWhenNewest ==
  ASSUME LookConstants, OutlookShape, InTurn, MirrorIsNewest,
         NEW x \in snapshots, x.as_of = now, x.season = season
  PROVE  Look!salary_outlook(x.player).salary = SalaryBy(x, Known(x))
<1> DEFINE p == x.player
           b == BaselineBy(x)
           salary == IF b = None THEN None
                     ELSE Look!predicted_salary(mirror[p].fp_per_game, Look!premium_at(p, b))
<1>1. now \in Nat /\ \A y \in snapshots : y.as_of \in Nat /\ y.as_of <= now
  BY LookTypes DEF OutlookShape, InTurn
<1>2. Look!Of(p, season) = Known(x)
  BY <1>1 DEF Look!Of, Known
<1>3. mirror[p] = FiguresOf(x)
  BY <1>1 DEF MirrorIsNewest
<1>4. mirror[p].fp_per_game = x.fp_per_game /\ mirror[p].salary = x.salary /\ x.salary \in Int
  BY <1>3 DEF FiguresOf, OutlookShape, Row
<1>5. Look!salary_baseline = b /\ (b = None \/ b.season = season)
  BY BaselineWhenNewest
<1>6. b # None => Look!premium_at(p, b) = PremiumBy(Known(x), b)
  BY <1>2, <1>5 DEF Look!premium_at, Look!baseline_snapshot, PremiumBy, SnapshotBy
<1>7. salary = SalaryBy(x, Known(x))
  BY <1>4, <1>6 DEF SalaryBy
<1> DEFINE premium == IF b = None THEN None ELSE Look!premium_at(p, b)
<1>8. Look!predicted_salary(mirror[p].fp_per_game, premium) = salary
  BY DEF Look!predicted_salary
<1>9. Look!salary_outlook(p) =
        IF mirror[p].salary = None \/ salary = None THEN Look!NoOutlook
        ELSE [premium |-> premium, salary |-> salary, change |-> salary - mirror[p].salary]
  <2> DEFINE guess == Look!predicted_salary(mirror[p].fp_per_game, premium)
  <2>1. Look!salary_outlook(p) =
          IF mirror[p].salary = None \/ guess = None THEN Look!NoOutlook
          ELSE [premium |-> premium, salary |-> guess, change |-> guess - mirror[p].salary]
    BY <1>5 DEF Look!salary_outlook
  <2>2. guess = salary
    BY <1>8
  <2> HIDE DEF guess, salary, premium
  <2> QED BY <2>1, <2>2
<1>10. mirror[p].salary # None
  BY <1>4, LookTypes
<1> HIDE DEF salary, premium, b, p
<1>11. CASE salary = None
  BY <1>9, <1>11, <1>7 DEF Look!NoOutlook, p
<1>12. CASE salary # None
  BY <1>9, <1>10, <1>12, <1>7 DEF p
<1> QED BY <1>11, <1>12

\* Only pages of the last import are still to be looked at.
LEMMA UnsaidIsNewest ==
  ASSUME PagesSaid, NEW x \in Look!Unsaid
  PROVE  x \in snapshots /\ x.as_of = now /\ x.season = season
<1>1. x \in snapshots /\ ~\E t \in said : t.player = x.player /\ t.as_of = x.as_of
  BY DEF Look!Unsaid
<1>2. SaidOf(x).player = x.player /\ SaidOf(x).as_of = x.as_of
  BY DEF SaidOf
<1> QED BY <1>1, <1>2 DEF PagesSaid

\* Looking at them.
LEMMA ShowPagesKeeps ==
  ASSUME LookConstants, OutlookInv, Look!ShowPages
  PROVE  OutlookInv'
<1> DEFINE new == {[player |-> x.player, as_of |-> x.as_of, salary |-> Look!salary_outlook(x.player).salary]
                   : x \in Look!Unsaid}
<1>1. said' = said \union new /\ UNCHANGED <<now, season, snapshots, mirror>>
  BY DEF Look!ShowPages
<1>2. OutlookShape /\ InTurn /\ MirrorIsNewest /\ PagesSaid
  BY DEF OutlookInv
<1>3. (OutlookShape /\ InTurn /\ MirrorIsNewest)'
  BY <1>1, <1>2 DEF OutlookShape, InTurn, MirrorIsNewest
<1>4. ASSUME NEW x \in Look!Unsaid PROVE SaidOf(x) \in new
  <2>1. x \in snapshots /\ x.as_of = now /\ x.season = season
    BY <1>2, UnsaidIsNewest
  <2>2. Look!salary_outlook(x.player).salary = SalaryBy(x, Known(x))
    BY <1>2, <2>1, PageWhenNewest
  <2> QED BY <2>2 DEF SaidOf
<1>5. \A t \in new : \E x \in snapshots : x.as_of = t.as_of
  BY DEF Look!Unsaid
<1> HIDE DEF new
<1>6. ASSUME NEW x \in snapshots PROVE SaidOf(x)' = SaidOf(x)
  BY <1>1 DEF SaidOf, SalaryBy, Known, BaselineBy, UpdatesBy, PremiumBy, SnapshotBy
<1>7. ASSUME NEW x \in snapshots PROVE SaidOf(x) \in said'
  BY <1>1, <1>2, <1>4 DEF PagesSaid
<1>8. PagesSaid'
  BY <1>1, <1>2, <1>5, <1>6, <1>7 DEF PagesSaid
<1> QED BY <1>3, <1>8 DEF OutlookInv

\* The calendar moves once every page has been looked at.
LEMMA CalendarKeeps ==
  ASSUME LookConstants, OutlookInv, Look!NextSeason \/ Look!Tick
  PROVE  OutlookInv'
<1>1. /\ Look!Unsaid = {} /\ UNCHANGED <<snapshots, mirror, said>>
      /\ \/ season' = season + 1 /\ season + 1 \in Look!Seasons /\ now' = now
         \/ now' = now + 1 /\ now < LastInstant /\ season' = season
  BY DEF Look!NextSeason, Look!Tick
<1>2. OutlookShape /\ InTurn /\ MirrorIsNewest /\ PagesSaid
  BY DEF OutlookInv
<1>3. now \in Nat /\ season \in Nat /\ LastInstant \in Nat
  BY <1>2, LookTypes DEF OutlookShape
<1>4. OutlookShape'
  <2>1. now' \in Look!Instants
    BY <1>1, <1>2, <1>3 DEF OutlookShape, Look!Instants
  <2>2. season' \in Look!Seasons
    BY <1>1, <1>2 DEF OutlookShape
  <2> QED BY <1>1, <1>2, <2>1, <2>2 DEF OutlookShape
<1>5. InTurn'
  <2>1. now <= now' /\ season <= season' /\ now' \in Nat /\ season' \in Nat
    BY <1>1, <1>3
  <2>2. \A x \in snapshots : x.as_of \in Nat /\ x.season \in Nat
    BY <1>2, LookTypes DEF OutlookShape
  <2> QED BY <1>1, <1>2, <1>3, <2>1, <2>2 DEF InTurn
<1>6. MirrorIsNewest'
  BY <1>1, <1>2 DEF MirrorIsNewest
<1>7. \A x \in snapshots : SaidOf(x) \in said
  BY <1>1, <1>2 DEF PagesSaid
<1>8. ASSUME NEW x \in snapshots PROVE SaidOf(x)' = SaidOf(x)
  BY <1>1 DEF SaidOf, SalaryBy, Known, BaselineBy, UpdatesBy, PremiumBy, SnapshotBy
<1>9. PagesSaid'
  BY <1>1, <1>2, <1>7, <1>8 DEF PagesSaid
<1> QED BY <1>4, <1>5, <1>6, <1>9 DEF OutlookInv

\* No step leaves the invariant.
LEMMA NextOutlook ==
  ASSUME LookConstants, OutlookInv, [Look!Next]_(Look!vars)
  PROVE  OutlookInv'
<1>1. CASE Look!ShowPages
  BY <1>1, ShowPagesKeeps
<1>2. CASE Look!NextSeason \/ Look!Tick
  BY <1>2, CalendarKeeps
<1>3. ASSUME NEW present \in SUBSET Players, NEW read, \A p \in present : read[p] \in Figures[p],
             Look!Import(present, read)
      PROVE  OutlookInv'
  BY <1>3, ImportInTurn, ImportPages DEF OutlookInv
<1>4. CASE UNCHANGED Look!vars
  <2>1. UNCHANGED <<now, season, snapshots, mirror, said>>
    BY <1>4 DEF Look!vars
  <2>2. \A x \in snapshots : SaidOf(x)' = SaidOf(x)
    BY <2>1 DEF SaidOf, SalaryBy, Known, BaselineBy, UpdatesBy, PremiumBy, SnapshotBy
  <2> QED BY <2>1, <2>2 DEF OutlookInv, OutlookShape, InTurn, MirrorIsNewest, PagesSaid, Look!Unsaid
<1> QED BY <1>1, <1>2, <1>3, <1>4 DEF Look!Next

\* Whatever imports list, leave out or correct, and however seasons follow one another:
\* snapshots come in turn, the columns hold the newest, and a page, once looked at, has
\* said what follows from what was known then.
THEOREM OutlookHolds == LookConstants => (Look!Spec => []OutlookInv)
<1> SUFFICES ASSUME LookConstants PROVE Look!Spec => []OutlookInv
  OBVIOUS
<1>1. Look!Init => OutlookInv
  BY InitOutlook
<1>2. OutlookInv /\ [Look!Next]_(Look!vars) => OutlookInv'
  BY NextOutlook
<1> QED BY <1>1, <1>2, PTL DEF Look!Spec

-----------------------------------------------------------------------------
(* A past prediction, rebuilt *)

TheMoments == Look!UpdateMoments(season, Look!salary_baseline.moment)

ToldOf(p) == {m \in TheMoments : Look!ReadInItsWeek(p, m, TheMoments)}

EarlierTold(p, m) == {t \in ToldOf(p) : t < m}

PreviousTold(p, m) ==
  IF EarlierTold(p, m) = {} THEN Look!Preseason(season)
  ELSE Look!AfterUpdate(season, Look!Max(EarlierTold(p, m)))

\* A row of the past updates.
LEMMA APastUpdate ==
  ASSUME NEW p, NEW row \in Look!PastUpdates(p)
  PROVE  /\ Look!salary_baseline # None /\ Look!salary_baseline.kind # "preseason"
         /\ \E m \in ToldOf(p) :
              /\ Look!BeforeMoment(p, m) # {}
              /\ row.before = Look!Newest(Look!BeforeMoment(p, m)).as_of
              /\ row.predicted = Look!predicted_salary(Look!Newest(Look!BeforeMoment(p, m)).fp_per_game,
                                                       Look!premium_at(p, PreviousTold(p, m)))
<1>1. Look!salary_baseline # None /\ Look!salary_baseline.kind # "preseason"
  BY DEF Look!PastUpdates
<1>2. Look!PastUpdates(p) =
        {[moment |-> m, before |-> Look!Newest(Look!BeforeMoment(p, m)).as_of,
          predicted |-> Look!predicted_salary(Look!Newest(Look!BeforeMoment(p, m)).fp_per_game,
                                              Look!premium_at(p, PreviousTold(p, m)))]
         : m \in {t \in ToldOf(p) : Look!BeforeMoment(p, t) # {}}}
  BY <1>1 DEF Look!PastUpdates, PreviousTold, EarlierTold, ToldOf, TheMoments
<1> QED BY <1>1, <1>2

\* The updates a page tells of: those up to the last one that anything was read after.
LEMMA MomentsTold ==
  ASSUME LookConstants, OutlookShape, InTurn,
         Look!salary_baseline # None, Look!salary_baseline.kind # "preseason"
  PROVE  /\ TheMoments \subseteq Look!AllMoments(season)
         /\ \A m \in TheMoments : m <= now /\ m \in Nat
         /\ \A m \in TheMoments : \A k \in Look!AllMoments(season) : k < m => k \in TheMoments
<1> DEFINE b == Look!salary_baseline
           updates == Look!AllMoments(season)
           read == {m \in updates : \E x \in snapshots : x.season = season /\ m <= x.as_of}
<1>0. SeasonCloses[season] \in Nat /\ updates \subseteq Nat
  BY LookTypes, MomentsAreInstants DEF OutlookShape
<1>1. b = Look!AfterUpdate(season, Look!Max(read)) /\ read # {}
  <2>1. b = IF updates # {} /\ \A m \in updates : m <= now THEN None
            ELSE IF read # {} THEN Look!AfterUpdate(season, Look!Max(read))
            ELSE Look!Preseason(season)
    BY DEF Look!salary_baseline
  <2>2. Look!Preseason(season).kind = "preseason"
    BY DEF Look!Preseason
  <2> HIDE DEF updates, read
  <2> QED BY <2>1, <2>2
<1>2. Look!Max(read) \in read /\ b.moment = Look!Max(read)
  <2>1. read \subseteq Look!Instants
    BY MomentsAreInstants
  <2> HIDE DEF read
  <2> QED BY <1>1, <2>1, MaxOfInstants DEF Look!AfterUpdate
<1>3. b.moment \in updates /\ \E x \in snapshots : b.moment <= x.as_of
  BY <1>2
<1>4. b.moment \in Nat /\ b.moment <= SeasonCloses[season]
  BY <1>0, <1>3 DEF Look!AllMoments, Look!UpdateMoments
<1>5. b.moment <= now
  BY <1>3, <1>4, LookTypes DEF OutlookShape, InTurn
<1>6. TheMoments = {m \in updates : m <= b.moment}
  <2>1. \A m \in Look!Instants : m \in Nat
    BY LookTypes
  <2>2. \A m \in Look!Instants : m <= b.moment => m <= SeasonCloses[season]
    BY <1>0, <1>4, <2>1
  <2> QED BY <1>0, <2>1, <2>2 DEF TheMoments, Look!AllMoments, Look!UpdateMoments
<1>7. now \in Nat
  BY LookTypes DEF OutlookShape
<1> HIDE DEF b, updates, read
<1> QED BY <1>0, <1>4, <1>5, <1>6, <1>7 DEF updates

\* The last snapshot before an update that is told.
IsLastBefore(x, p, m) ==
  /\ x \in Look!Of(p, season) /\ x.as_of < m
  /\ \A y \in Look!Of(p, season) : y.as_of < m => y.as_of <= x.as_of

\* It is there.
LEMMA LastBefore ==
  ASSUME LookConstants, OutlookShape, InTurn, NEW p, NEW m, Look!BeforeMoment(p, m) # {}
  PROVE  IsLastBefore(Look!Newest(Look!BeforeMoment(p, m)), p, m)
<1> DEFINE rows == Look!BeforeMoment(p, m)
<1>1. rows = {x \in Look!Of(p, season) : x.as_of < m}
  BY DEF Look!BeforeMoment
<1>2. OneAMoment(rows)
  BY <1>1, RowsOfAPlayer, SomeOfThem
<1> HIDE DEF rows
<1>3. Look!Newest(rows) \in rows /\ \A x \in rows : x.as_of <= Look!Newest(rows).as_of
  BY <1>2, NewestIs DEF rows
<1>4. IsLastBefore(Look!Newest(rows), p, m)
  BY <1>1, <1>3 DEF IsLastBefore
<1> QED BY <1>4 DEF rows

\* What is of a player and the season.
LEMMA OfAPlayer ==
  ASSUME LookConstants, OutlookShape, NEW p, NEW y \in Look!Of(p, season)
  PROVE  y \in snapshots /\ y.player = p /\ y.season = season /\ y.as_of \in Nat
BY LookTypes DEF OutlookShape, Look!Of

\* Of the updates before, the last one that his own snapshots tell of is the last one
\* that anybody's snapshot had told of when his last snapshot was the newest.
LEMMA ThePreviousIsTheBaseline ==
  ASSUME LookConstants, OutlookShape, InTurn, NEW p, NEW m \in ToldOf(p), NEW x, IsLastBefore(x, p, m),
         Look!salary_baseline # None, Look!salary_baseline.kind # "preseason"
  PROVE  PreviousTold(p, m) = BaselineBy(x)
<1>1. /\ TheMoments \subseteq Look!AllMoments(season)
      /\ \A t \in TheMoments : t <= now /\ t \in Nat
      /\ \A t \in TheMoments : \A k \in Look!AllMoments(season) : k < t => k \in TheMoments
  BY MomentsTold
<1>2. m \in TheMoments /\ m \in Look!AllMoments(season) /\ m \in Nat
  BY <1>1 DEF ToldOf
<1>3. /\ x \in Look!Of(p, season) /\ x.as_of < m /\ x.as_of \in Nat /\ x.season = season
      /\ \A y \in Look!Of(p, season) : y.as_of \in Nat /\ (y.as_of < m => y.as_of <= x.as_of)
  BY OfAPlayer DEF IsLastBefore
<1>4. \A k \in Look!AllMoments(season) : k \in Nat
  BY LookTypes, MomentsAreInstants
<1>5. ASSUME NEW t, OneAMoment(Look!AfterMoment(p, t))
      PROVE  Look!AfterMoment(p, t) # {} =>
               /\ Look!Oldest(Look!AfterMoment(p, t)) \in Look!AfterMoment(p, t)
               /\ \A y \in Look!AfterMoment(p, t) : Look!Oldest(Look!AfterMoment(p, t)).as_of <= y.as_of
  BY <1>5, OldestIs
<1>6. ASSUME NEW t PROVE OneAMoment(Look!AfterMoment(p, t))
  <2>1. Look!AfterMoment(p, t) \subseteq Look!Of(p, season)
    BY DEF Look!AfterMoment
  <2> QED BY <2>1, RowsOfAPlayer, SomeOfThem
<1>7. ASSUME NEW t \in ToldOf(p), t < m PROVE t \in UpdatesBy(x)
  <2>1. /\ t \in TheMoments /\ Look!AfterMoment(p, t) # {}
        /\ \A later \in TheMoments : later > t => Look!Oldest(Look!AfterMoment(p, t)).as_of < later
    BY DEF ToldOf, Look!ReadInItsWeek
  <2>2. PICK o \in Look!AfterMoment(p, t) : o = Look!Oldest(Look!AfterMoment(p, t))
    BY <1>5, <1>6, <2>1
  <2>3. o \in Look!Of(p, season) /\ o.as_of >= t
    BY <2>2 DEF Look!AfterMoment
  <2>4. t \in Nat /\ m > t
    BY <1>1, <1>2, <1>7, <2>1
  <2>5. o.as_of < m
    BY <1>2, <2>1, <2>2, <2>4
  <2>6. o.as_of <= x.as_of /\ o.as_of \in Nat
    BY <1>3, <2>3, <2>5
  <2>7. t <= x.as_of
    BY <1>3, <2>3, <2>4, <2>6
  <2> QED BY <1>1, <1>3, <2>1, <2>7 DEF UpdatesBy
<1>8. ASSUME NEW k \in UpdatesBy(x), \A t \in UpdatesBy(x) : t <= k
      PROVE  k \in ToldOf(p) /\ k < m
  <2>1. k \in Look!AllMoments(season) /\ k <= x.as_of /\ k \in Nat
    BY <1>3, <1>4 DEF UpdatesBy
  <2>2. k < m
    BY <1>2, <1>3, <2>1
  <2>3. k \in TheMoments
    BY <1>1, <1>2, <2>1, <2>2
  <2>4. x \in Look!AfterMoment(p, k)
    BY <1>3, <2>1 DEF Look!AfterMoment
  <2>5. /\ Look!Oldest(Look!AfterMoment(p, k)) \in Look!AfterMoment(p, k)
        /\ Look!Oldest(Look!AfterMoment(p, k)).as_of <= x.as_of
    BY <1>5, <1>6, <2>4
  <2>6. Look!Oldest(Look!AfterMoment(p, k)).as_of \in Nat
    BY <1>3, <2>5 DEF Look!AfterMoment
  <2>7. ASSUME NEW later \in TheMoments, later > k PROVE x.as_of < later
    <3>1. later \in Look!AllMoments(season) /\ later \in Nat
      BY <1>1
    <3>2. later \notin UpdatesBy(x)
      BY <1>8, <2>1, <2>7, <3>1
    <3>3. ~(later <= x.as_of)
      BY <1>3, <3>1, <3>2 DEF UpdatesBy
    <3> QED BY <1>3, <3>1, <3>3
  <2>8. ASSUME NEW later \in TheMoments, later > k
        PROVE  Look!Oldest(Look!AfterMoment(p, k)).as_of < later
    BY <1>1, <1>3, <2>5, <2>6, <2>7, <2>8
  <2>9. Look!ReadInItsWeek(p, k, TheMoments)
    BY <2>4, <2>8 DEF Look!ReadInItsWeek
  <2> QED BY <2>2, <2>3, <2>9 DEF ToldOf
<1>9. UpdatesBy(x) \subseteq Look!Instants
  BY <1>3, MomentsAreInstants DEF UpdatesBy
<1>10. ~(m <= x.as_of)
  BY <1>2, <1>3
<1>11. BaselineBy(x) = IF UpdatesBy(x) # {} THEN Look!AfterUpdate(season, Look!Max(UpdatesBy(x)))
                       ELSE Look!Preseason(season)
  BY <1>2, <1>3, <1>10 DEF BaselineBy
<1>12. CASE UpdatesBy(x) = {}
  <2>1. EarlierTold(p, m) = {}
    BY <1>7, <1>12 DEF EarlierTold
  <2> QED BY <1>11, <1>12, <2>1 DEF PreviousTold
<1>13. CASE UpdatesBy(x) # {}
  <2> DEFINE k == Look!Max(UpdatesBy(x))
             e == EarlierTold(p, m)
  <2>1. k \in UpdatesBy(x) /\ \A t \in UpdatesBy(x) : t <= k
    BY <1>9, <1>13, MaxOfInstants
  <2>2. k \in e
    BY <1>8, <2>1 DEF EarlierTold
  <2>3. e \subseteq UpdatesBy(x)
    BY <1>7 DEF EarlierTold
  <2>4. e \subseteq Look!Instants
    BY <1>9, <2>3
  <2>5. \A t \in Look!Instants : t \in Nat
    BY LookTypes
  <2> HIDE DEF k, e
  <2>6. Look!Max(e) \in e /\ \A t \in e : t <= Look!Max(e)
    BY <2>2, <2>4, MaxOfInstants
  <2>7. Look!Max(e) = k
    BY <2>1, <2>2, <2>3, <2>4, <2>5, <2>6
  <2> QED BY <1>11, <1>13, <2>2, <2>7 DEF PreviousTold, k, e
<1> QED BY <1>12, <1>13

\* What came later does not change where a baseline points.
LEMMA ThePremiumStays ==
  ASSUME LookConstants, OutlookShape, InTurn, NEW x \in snapshots, x.season = season,
         BaselineBy(x) # None
  PROVE  Look!premium_at(x.player, BaselineBy(x)) = PremiumBy(Known(x), BaselineBy(x))
<1> DEFINE p == x.player
           b == BaselineBy(x)
           all == Look!Of(p, season)
           rows == Known(x)
<1>1. OneAMoment(all) /\ OneAMoment(rows)
  BY RowsOfAPlayer, KnownRows
<1>2. rows = {y \in all : y.as_of <= x.as_of} /\ x \in rows
  BY KnownRows DEF Known, Look!Of
<1>3. \A y \in all : y.as_of \in Nat /\ y \in Row
  BY OfAPlayer DEF OutlookShape
<1>4. /\ \/ b = Look!Preseason(season)
         \/ b = Look!AfterUpdate(season, Look!Max(UpdatesBy(x))) /\ UpdatesBy(x) # {}
  BY DEF BaselineBy
<1>5. CASE b = Look!AfterUpdate(season, Look!Max(UpdatesBy(x))) /\ UpdatesBy(x) # {}
  <2> DEFINE k == Look!Max(UpdatesBy(x))
             then == {y \in rows : y.as_of >= k}
             after == {y \in all : y.as_of >= k}
  <2>1. k \in UpdatesBy(x)
    <3>1. UpdatesBy(x) \subseteq Look!Instants
      BY MomentsAreInstants DEF UpdatesBy
    <3> QED BY <1>5, <3>1, MaxOfInstants
  <2>2. k \in Nat /\ k <= x.as_of
    BY <2>1, LookTypes, MomentsAreInstants DEF UpdatesBy
  <2> HIDE DEF k, all, rows
  <2>3. x \in then
    BY <1>2, <1>3, <2>2
  <2>4. OneAMoment(then) /\ OneAMoment(after)
    BY <1>1, SomeOfThem
  <2>5. Look!Oldest(then) \in then /\ \A y \in then : Look!Oldest(then).as_of <= y.as_of
    <3> HIDE DEF then
    <3> QED BY <2>3, <2>4, OldestIs
  <2>6. Look!Oldest(then) \in after
    BY <1>2, <2>5
  <2>7. ASSUME NEW y \in after PROVE Look!Oldest(then).as_of <= y.as_of
    <3>1. CASE y \in rows
      BY <2>5, <3>1
    <3>2. CASE y \notin rows
      <4>1. y.as_of > x.as_of /\ y.as_of \in Nat /\ x.as_of \in Nat
        BY <1>2, <1>3, <3>2
      <4>2. Look!Oldest(then).as_of \in Nat /\ Look!Oldest(then).as_of <= x.as_of
        BY <1>3, <2>3, <2>5, <2>6
      <4> QED BY <4>1, <4>2
    <3> QED BY <3>1, <3>2
  <2>8. Look!Oldest(after) = Look!Oldest(then)
    <3> HIDE DEF then, after
    <3> QED BY <2>4, <2>6, <2>7, TheOldest
  <2>9. b.kind = "update" /\ b.moment = k /\ b.season = season
    BY <1>5 DEF Look!AfterUpdate, k
  <2>10. Look!baseline_snapshot(p, b) = Look!Oldest(after)
    <3>1. Look!Of(p, b.season) = all
      BY <2>9 DEF all
    <3> HIDE DEF b, p
    <3> QED BY <2>3, <2>6, <2>9, <3>1 DEF Look!baseline_snapshot
  <2>11. SnapshotBy(rows, b) = Look!Oldest(then)
    <3> HIDE DEF b, p
    <3> QED BY <2>3, <2>9 DEF SnapshotBy
  <2> HIDE DEF then, after
  <2> QED BY <2>8, <2>10, <2>11 DEF Look!premium_at, PremiumBy, rows
<1>6. CASE b = Look!Preseason(season)
  <2> DEFINE o == SeasonOpens[season]
             then == {y \in rows : y.as_of < o}
             before == {y \in all : y.as_of < o}
  <2>1. o \in Nat
    BY LookTypes DEF OutlookShape
  <2>2. b.kind = "preseason" /\ b.moment = o /\ b.season = season
    BY <1>6 DEF Look!Preseason
  <2> HIDE DEF all, rows, b, p, o
  <2>3. then = {} <=> before = {}
    <3>1. then \subseteq before
      BY <1>2
    <3>2. ASSUME NEW y \in before PROVE x \in then \/ y \in then
      <4>1. y.as_of \in Nat /\ x.as_of \in Nat /\ y.as_of < o
        BY <1>2, <1>3
      <4>2. CASE y.as_of <= x.as_of
        BY <1>2, <4>2
      <4>3. CASE x.as_of < y.as_of
        BY <1>2, <2>1, <4>1, <4>3
      <4> QED BY <4>1, <4>2, <4>3
    <3> HIDE DEF then, before
    <3> QED BY <3>1, <3>2
  <2>4. OneAMoment(then) /\ OneAMoment(before)
    BY <1>1, <1>2, SomeOfThem
  <2>5. before \subseteq Row /\ then \subseteq Row
    BY <1>2, <1>3
  <2>6. Look!baseline_snapshot(p, b) = IF before = {} THEN None ELSE Look!Newest(before)
    <3>1. Look!Of(p, b.season) = all
      BY <2>2 DEF all
    <3> QED BY <2>2, <3>1 DEF Look!baseline_snapshot
  <2>7. SnapshotBy(rows, b) = IF then = {} THEN None ELSE Look!Newest(then)
    BY <2>2 DEF SnapshotBy
  <2> HIDE DEF then, before
  <2>8. before # {} => Look!Newest(before) # None /\ Look!Newest(then) # None
    BY <2>3, <2>4, <2>5, NewestIs DEF LookConstants
  <2>9. Look!premium_at(p, b) = IF before = {} THEN None ELSE 0
    BY <2>2, <2>6, <2>8 DEF Look!premium_at, Look!pick_premium
  <2>10. PremiumBy(rows, b) = IF before = {} THEN None ELSE 0
    BY <2>2, <2>3, <2>7, <2>8 DEF PremiumBy, Look!pick_premium
  <2> QED BY <2>9, <2>10 DEF rows, b, p
<1> QED BY <1>4, <1>5, <1>6

\* A rebuilt prediction is one that was shown.
LEMMA TheRebuiltWasSaid ==
  ASSUME LookConstants, OutlookInv, NEW p, NEW row \in Look!PastUpdates(p)
  PROVE  [player |-> p, as_of |-> row.before, salary |-> row.predicted] \in said
<1>1. OutlookShape /\ InTurn /\ PagesSaid
  BY DEF OutlookInv
<1>2. Look!salary_baseline # None /\ Look!salary_baseline.kind # "preseason"
  BY APastUpdate
<1>3. PICK m \in ToldOf(p) :
        /\ Look!BeforeMoment(p, m) # {}
        /\ row.before = Look!Newest(Look!BeforeMoment(p, m)).as_of
        /\ row.predicted = Look!predicted_salary(Look!Newest(Look!BeforeMoment(p, m)).fp_per_game,
                                                 Look!premium_at(p, PreviousTold(p, m)))
  BY APastUpdate
<1> DEFINE x == Look!Newest(Look!BeforeMoment(p, m))
<1>4. IsLastBefore(x, p, m)
  BY <1>1, <1>3, LastBefore
<1> HIDE DEF x
<1>5. x \in snapshots /\ x.player = p /\ x.season = season /\ x.as_of \in Nat /\ x.as_of < m
  BY <1>1, <1>4, OfAPlayer DEF IsLastBefore
<1>6. m <= now /\ m \in Nat /\ m \in Look!AllMoments(season)
  BY <1>1, <1>2, MomentsTold DEF ToldOf
<1>7. SaidOf(x) \in said
  <2>1. x.as_of # now
    BY <1>1, <1>5, <1>6, LookTypes DEF OutlookShape
  <2> QED BY <1>1, <1>5, <2>1 DEF PagesSaid
<1>8. PreviousTold(p, m) = BaselineBy(x)
  BY <1>1, <1>2, <1>4, ThePreviousIsTheBaseline
<1>9. BaselineBy(x) # None
  <2>1. Look!Preseason(season) \in Baseline
    BY <1>1, LookTypes DEF OutlookShape, Look!Preseason, Baseline
  <2>2. CASE EarlierTold(p, m) = {}
    BY <1>8, <2>1, <2>2 DEF PreviousTold, LookConstants
  <2>3. CASE EarlierTold(p, m) # {}
    <3>1. EarlierTold(p, m) \subseteq Look!Instants
      BY <1>1, <1>2, MomentsTold, MomentsAreInstants DEF EarlierTold, ToldOf
    <3>2. Look!Max(EarlierTold(p, m)) \in Nat
      BY <2>3, <3>1, MaxOfInstants, LookTypes
    <3>3. Look!AfterUpdate(season, Look!Max(EarlierTold(p, m))) \in Baseline
      BY <1>1, <3>2 DEF OutlookShape, Look!AfterUpdate, Baseline
    <3> QED BY <1>8, <2>3, <3>3 DEF PreviousTold, LookConstants
  <2> QED BY <2>2, <2>3
<1>10. Look!premium_at(p, BaselineBy(x)) = PremiumBy(Known(x), BaselineBy(x))
  BY <1>1, <1>5, <1>9, ThePremiumStays
<1>11. row.predicted = SalaryBy(x, Known(x)) /\ row.before = x.as_of
  BY <1>3, <1>8, <1>9, <1>10 DEF SalaryBy, x
<1> QED BY <1>5, <1>7, <1>11 DEF SaidOf

\* A past update shows the prediction that the player's page showed before it
\* (past_updates), for any imports between, any updates nothing was read after, and
\* any number of seasons.
THEOREM PredictionsAreRebuilt == LookConstants => (Look!Spec => []Look!PredictionsRebuilt)
<1> SUFFICES ASSUME LookConstants PROVE Look!Spec => []Look!PredictionsRebuilt
  OBVIOUS
<1>1. OutlookInv => Look!PredictionsRebuilt
  BY TheRebuiltWasSaid DEF Look!PredictionsRebuilt
<1> QED BY <1>1, OutlookHolds, PTL

-----------------------------------------------------------------------------
(* The curve, two ways *)

\* Every linear recurrence has a solution, in integers.
Solves(f, n, start, factor, term) ==
  /\ f \in [0..n -> Int] /\ f[0] = start
  /\ \A i \in 1..n : f[i] = f[i - 1] * factor + term[i]

LEMMA RecurrencesHaveSolutions ==
  ASSUME NEW N \in Nat, NEW start \in Int, NEW factor \in Int, NEW term,
         \A i \in 1..N : term[i] \in Int
  PROVE  \E f : Solves(f, N, start, factor, term)
<1> DEFINE T == {n \in Nat : n <= N => \E f : Solves(f, n, start, factor, term)}
<1>1. 0 \in T
  <2>1. Solves([i \in 0..0 |-> start], 0, start, factor, term)
    BY DEF Solves
  <2> QED BY <2>1
<1>2. ASSUME NEW n \in Nat, n \in T PROVE n + 1 \in T
  <2> SUFFICES ASSUME n + 1 <= N PROVE \E f : Solves(f, n + 1, start, factor, term)
    OBVIOUS
  <2>1. PICK f : Solves(f, n, start, factor, term)
    BY <1>2
  <2> DEFINE c == f[n] * factor + term[n + 1]
             g == [i \in 0..(n + 1) |-> IF i <= n THEN f[i] ELSE c]
  <2>2. f \in [0..n -> Int] /\ f[0] = start /\ \A i \in 1..n : f[i] = f[i - 1] * factor + term[i]
    BY <2>1 DEF Solves
  <2>3. c \in Int
    BY <2>2
  <2>c. c = f[n] * factor + term[n + 1]
    OBVIOUS
  <2> HIDE DEF c
  <2>4. g \in [0..(n + 1) -> Int] /\ g[0] = start
    BY <2>2, <2>3
  <2>5. ASSUME NEW i \in 1..(n + 1) PROVE g[i] = g[i - 1] * factor + term[i]
    <3>1. CASE i <= n
      <4>1. g[i] = f[i] /\ g[i - 1] = f[i - 1]
        BY <3>1
      <4> QED BY <2>2, <3>1, <4>1
    <3>2. CASE i = n + 1
      <4>1. g[i] = c /\ g[i - 1] = f[n]
        BY <3>2
      <4> QED BY <2>c, <3>2, <4>1
    <3> QED BY <3>1, <3>2
  <2>6. Solves(g, n + 1, start, factor, term)
    BY <2>4, <2>5 DEF Solves
  <2> QED BY <2>6
<1>3. Nat \subseteq T
  <2> HIDE DEF T
  <2> QED BY <1>1, <1>2, SetInduction
<1> QED BY <1>3

\* The recursive functions of the two definitions.
HornerIs(f, x) == f = [i \in 0..Len(Curve) |-> IF i = 0 THEN 0 ELSE f[i - 1] * x + Curve[i]]
PowerIs(f, x) == f = [n \in 0..Len(Curve) |-> IF n = 0 THEN 1 ELSE x * f[n - 1]]
SumIs(f, power) ==
  f = [i \in 0..Len(Curve) |-> IF i = 0 THEN 0 ELSE Curve[i] * power[Len(Curve) - i] + f[i - 1]]

TheHorner(x) == CHOOSE f : HornerIs(f, x)
ThePower(x) == CHOOSE f : PowerIs(f, x)
TheSum(x) == CHOOSE f : SumIs(f, ThePower(x))

\* The coefficients.
LEMMA TheCurve ==
  ASSUME LookConstants
  PROVE  /\ Len(Curve) \in Nat /\ \A i \in 1..Len(Curve) : Curve[i] \in Int
         /\ MIN_SALARY \in Int
BY DEF LookConstants, Look!OutlookConstants

\* Horner's scheme, in Python.
LEMMA HornerSolves ==
  ASSUME LookConstants, NEW x \in Int
  PROVE  Solves(TheHorner(x), Len(Curve), 0, x, Curve)
<1> DEFINE N == Len(Curve)
<1>1. N \in Nat /\ \A i \in 1..N : Curve[i] \in Int
  BY TheCurve
<1> HIDE DEF N
<1>2. PICK f : Solves(f, N, 0, x, Curve)
  BY <1>1, RecurrencesHaveSolutions
<1>3. f \in [0..N -> Int] /\ f[0] = 0 /\ \A i \in 1..N : f[i] = f[i - 1] * x + Curve[i]
  BY <1>2 DEF Solves
<1>4. f = [i \in 0..N |-> IF i = 0 THEN 0 ELSE f[i - 1] * x + Curve[i]]
  BY <1>1, <1>3
<1>5. HornerIs(f, x)
  BY <1>4 DEF HornerIs, N
<1> DEFINE h == TheHorner(x)
<1>6. HornerIs(h, x)
  BY <1>5 DEF TheHorner
<1> HIDE DEF h
<1>7. h = [i \in 0..N |-> IF i = 0 THEN 0 ELSE h[i - 1] * x + Curve[i]]
  BY <1>6 DEF HornerIs, N
<1>8. h[0] = 0 /\ \A i \in 1..N : h[i] = h[i - 1] * x + Curve[i]
  <2> DEFINE C == [i \in 0..N |-> IF i = 0 THEN 0 ELSE h[i - 1] * x + Curve[i]]
  <2>1. \A i \in 0..N : C[i] = IF i = 0 THEN 0 ELSE h[i - 1] * x + Curve[i]
    OBVIOUS
  <2>2. h = C
    BY <1>7
  <2> HIDE DEF C
  <2> QED BY <1>1, <2>1, <2>2
<1> DEFINE T == {n \in Nat : n <= N => h[n] = f[n]}
<1>9. 0 \in T
  BY <1>3, <1>8
<1>10. ASSUME NEW n \in Nat, n \in T PROVE n + 1 \in T
  <2> SUFFICES ASSUME n + 1 <= N PROVE h[n + 1] = f[n + 1]
    OBVIOUS
  <2>1. h[n] = f[n] /\ n + 1 \in 1..N /\ (n + 1) - 1 = n
    BY <1>10, <1>1
  <2> QED BY <1>3, <1>8, <2>1
<1>11. Nat \subseteq T
  <2> HIDE DEF T
  <2> QED BY <1>9, <1>10, SetInduction
<1>12. \A i \in 0..N : h[i] = f[i]
  BY <1>1, <1>11
<1>13. h = f
  <2>1. h = [i \in 0..N |-> h[i]]
    <3> DEFINE C == [i \in 0..N |-> IF i = 0 THEN 0 ELSE h[i - 1] * x + Curve[i]]
    <3>1. C = [i \in 0..N |-> C[i]]
      OBVIOUS
    <3>2. h = C
      BY <1>7
    <3> HIDE DEF C
    <3> QED BY <3>1, <3>2
  <2> QED BY <1>3, <1>12, <2>1
<1> QED BY <1>2, <1>13 DEF h, N

\* The powers of a figure.
LEMMA PowerSolves ==
  ASSUME LookConstants, NEW x \in Int
  PROVE  /\ \A n \in 0..Len(Curve) : ThePower(x)[n] \in Int
         /\ ThePower(x)[0] = 1
         /\ \A n \in 1..Len(Curve) : ThePower(x)[n] = x * ThePower(x)[n - 1]
<1> DEFINE N == Len(Curve)
           zero == [i \in 1..N |-> 0]
<1>1. N \in Nat /\ \A i \in 1..N : zero[i] = 0
  BY TheCurve
<1> HIDE DEF N, zero
<1>2. PICK f : Solves(f, N, 1, x, zero)
  BY <1>1, RecurrencesHaveSolutions
<1>3. f \in [0..N -> Int] /\ f[0] = 1 /\ \A i \in 1..N : f[i] = f[i - 1] * x + zero[i]
  BY <1>2 DEF Solves
<1>4. \A i \in 1..N : f[i] = x * f[i - 1]
  <2> SUFFICES ASSUME NEW i \in 1..N PROVE f[i] = x * f[i - 1]
    OBVIOUS
  <2>1. f[i - 1] \in Int
    BY <1>1, <1>3
  <2>2. f[i] = f[i - 1] * x + 0
    BY <1>1, <1>3
  <2>3. f[i - 1] * x + 0 = x * f[i - 1]
    BY <2>1
  <2> QED BY <2>2, <2>3
<1>5. f = [n \in 0..N |-> IF n = 0 THEN 1 ELSE x * f[n - 1]]
  BY <1>1, <1>3, <1>4
<1>6. PowerIs(f, x)
  BY <1>5 DEF PowerIs, N
<1> DEFINE w == ThePower(x)
<1>7. PowerIs(w, x)
  BY <1>6 DEF ThePower
<1> HIDE DEF w
<1>8. w = [n \in 0..N |-> IF n = 0 THEN 1 ELSE x * w[n - 1]]
  BY <1>7 DEF PowerIs, N
<1>9. w[0] = 1 /\ \A n \in 1..N : w[n] = x * w[n - 1]
  <2> DEFINE C == [n \in 0..N |-> IF n = 0 THEN 1 ELSE x * w[n - 1]]
  <2>1. \A n \in 0..N : C[n] = IF n = 0 THEN 1 ELSE x * w[n - 1]
    OBVIOUS
  <2>2. w = C
    BY <1>8
  <2> HIDE DEF C
  <2> QED BY <1>1, <2>1, <2>2
<1> DEFINE T == {n \in Nat : n <= N => w[n] \in Int}
<1>10. 0 \in T
  BY <1>9
<1>11. ASSUME NEW n \in Nat, n \in T PROVE n + 1 \in T
  <2> SUFFICES ASSUME n + 1 <= N PROVE w[n + 1] \in Int
    OBVIOUS
  <2>1. w[n] \in Int /\ n + 1 \in 1..N /\ (n + 1) - 1 = n
    BY <1>11, <1>1
  <2>2. w[n + 1] = x * w[n]
    BY <1>9, <2>1
  <2> QED BY <2>1, <2>2
<1>12. Nat \subseteq T
  <2> HIDE DEF T
  <2> QED BY <1>10, <1>11, SetInduction
<1>13. \A n \in 0..N : w[n] \in Int
  BY <1>1, <1>12
<1> QED BY <1>9, <1>13 DEF w, N

\* The terms added up, in SQL.
LEMMA SumSolves ==
  ASSUME LookConstants, NEW x \in Int
  PROVE  /\ \A i \in 0..Len(Curve) : TheSum(x)[i] \in Int
         /\ TheSum(x)[0] = 0
         /\ \A i \in 1..Len(Curve) :
              TheSum(x)[i] = Curve[i] * ThePower(x)[Len(Curve) - i] + TheSum(x)[i - 1]
<1> DEFINE N == Len(Curve)
           w == ThePower(x)
           term == [i \in 1..N |-> Curve[i] * w[N - i]]
<1>1. N \in Nat /\ \A i \in 1..N : Curve[i] \in Int
  BY TheCurve
<1>2. \A n \in 0..N : w[n] \in Int
  BY PowerSolves
<1> HIDE DEF N, w
<1>3. \A i \in 1..N : term[i] = Curve[i] * w[N - i] /\ term[i] \in Int
  <2> SUFFICES ASSUME NEW i \in 1..N PROVE Curve[i] * w[N - i] \in Int
    OBVIOUS
  <2>1. w[N - i] \in Int /\ Curve[i] \in Int
    BY <1>1, <1>2
  <2> QED BY <2>1
<1> HIDE DEF term
<1>4. PICK f : Solves(f, N, 0, 1, term)
  <2>1. 0 \in Int /\ 1 \in Int /\ N \in Nat /\ \A i \in 1..N : term[i] \in Int
    BY <1>1, <1>3
  <2> QED BY ONLY <2>1, RecurrencesHaveSolutions, Zenon
<1>5. f \in [0..N -> Int] /\ f[0] = 0 /\ \A i \in 1..N : f[i] = f[i - 1] * 1 + term[i]
  BY <1>4 DEF Solves
<1>6. \A i \in 1..N : f[i] = Curve[i] * w[N - i] + f[i - 1]
  <2> SUFFICES ASSUME NEW i \in 1..N PROVE f[i] = Curve[i] * w[N - i] + f[i - 1]
    OBVIOUS
  <2>1. f[i - 1] \in Int /\ term[i] \in Int /\ f[i] = f[i - 1] * 1 + term[i]
    BY <1>1, <1>3, <1>5
  <2>2. f[i] = term[i] + f[i - 1]
    BY <2>1
  <2> QED BY <1>3, <2>2
<1>7. f = [i \in 0..N |-> IF i = 0 THEN 0 ELSE Curve[i] * w[N - i] + f[i - 1]]
  BY <1>1, <1>5, <1>6
<1>8. SumIs(f, w)
  BY <1>7 DEF SumIs, N
<1> DEFINE s == TheSum(x)
<1>9. SumIs(s, w)
  BY <1>8 DEF TheSum, w
<1> HIDE DEF s
<1>10. s = [i \in 0..N |-> IF i = 0 THEN 0 ELSE Curve[i] * w[N - i] + s[i - 1]]
  BY <1>9 DEF SumIs, N
<1>11. s[0] = 0 /\ \A i \in 1..N : s[i] = Curve[i] * w[N - i] + s[i - 1]
  <2> DEFINE C == [i \in 0..N |-> IF i = 0 THEN 0 ELSE Curve[i] * w[N - i] + s[i - 1]]
  <2>1. \A i \in 0..N : C[i] = IF i = 0 THEN 0 ELSE Curve[i] * w[N - i] + s[i - 1]
    OBVIOUS
  <2>2. s = C
    BY <1>10
  <2> HIDE DEF C
  <2> QED BY <1>1, <2>1, <2>2
<1> DEFINE T == {n \in Nat : n <= N => s[n] \in Int}
<1>12. 0 \in T
  BY <1>11
<1>13. ASSUME NEW n \in Nat, n \in T PROVE n + 1 \in T
  <2> SUFFICES ASSUME n + 1 <= N PROVE s[n + 1] \in Int
    OBVIOUS
  <2>1. s[n] \in Int /\ n + 1 \in 1..N /\ (n + 1) - 1 = n
    BY <1>13, <1>1
  <2>2. s[n + 1] = term[n + 1] + s[n]
    BY <1>3, <1>11, <2>1
  <2>3. term[n + 1] \in Int
    BY <1>3, <2>1
  <2> QED BY <2>1, <2>2, <2>3
<1>14. Nat \subseteq T
  <2> HIDE DEF T
  <2> QED BY <1>12, <1>13, SetInduction
<1>15. \A i \in 0..N : s[i] \in Int
  BY <1>1, <1>14
<1> QED BY <1>11, <1>15 DEF s, w, N

\* Term by term or by Horner's scheme: the same.
LEMMA TheCurveIsTheCurve ==
  ASSUME LookConstants, NEW x \in Int
  PROVE  /\ TheHorner(x)[Len(Curve)] = TheSum(x)[Len(Curve)]
         /\ TheSum(x)[Len(Curve)] \in Int
<1> DEFINE N == Len(Curve)
           h == TheHorner(x)
           w == ThePower(x)
           s == TheSum(x)
<1>1. N \in Nat /\ \A i \in 1..N : Curve[i] \in Int
  BY TheCurve
<1>2. h \in [0..N -> Int] /\ h[0] = 0 /\ \A i \in 1..N : h[i] = h[i - 1] * x + Curve[i]
  BY HornerSolves DEF Solves
<1>3. /\ \A n \in 0..N : w[n] \in Int
      /\ w[0] = 1 /\ \A n \in 1..N : w[n] = x * w[n - 1]
  BY PowerSolves
<1>4. /\ \A i \in 0..N : s[i] \in Int
      /\ s[0] = 0 /\ \A i \in 1..N : s[i] = Curve[i] * w[N - i] + s[i - 1]
  BY SumSolves
<1> HIDE DEF N, h, w, s
<1> DEFINE T == {n \in Nat : n <= N => s[n] = h[n] * w[N - n]}
<1>5. 0 \in T
  <2>1. w[N - 0] \in Int /\ h[0] = 0 /\ s[0] = 0
    BY <1>1, <1>2, <1>3, <1>4
  <2>2. s[0] = h[0] * w[N - 0]
    BY <2>1
  <2> QED BY <2>2
<1>6. ASSUME NEW n \in Nat, n \in T PROVE n + 1 \in T
  <2> SUFFICES ASSUME n + 1 <= N PROVE s[n + 1] = h[n + 1] * w[N - (n + 1)]
    OBVIOUS
  <2> DEFINE a == h[n]
             c == Curve[n + 1]
             v == w[N - (n + 1)]
  <2>1. n + 1 \in 1..N /\ (n + 1) - 1 = n /\ N - n \in 1..N /\ (N - n) - 1 = N - (n + 1)
        /\ N - (n + 1) \in 0..N /\ n \in 0..N
    BY <1>1
  <2>2. a \in Int /\ c \in Int /\ v \in Int
    BY <1>1, <1>2, <1>3, <2>1
  <2>3. h[n + 1] = a * x + c /\ s[n + 1] = c * v + s[n]
    BY <1>2, <1>4, <2>1
  <2>4. w[N - n] = x * v
    BY <1>3, <2>1
  <2>5. s[n] = a * (x * v)
    BY <1>6, <2>1, <2>4
  <2> HIDE DEF a, c, v
  <2>6. c * v + a * (x * v) = (a * x + c) * v
    BY <2>2
  <2> QED BY <2>3, <2>5, <2>6 DEF v
<1>7. Nat \subseteq T
  <2> HIDE DEF T
  <2> QED BY <1>5, <1>6, SetInduction
<1>8. s[N] = h[N] * w[N - N]
  BY <1>1, <1>7
<1>9. h[N] \in Int /\ w[N - N] = 1 /\ s[N] \in Int
  BY <1>1, <1>2, <1>3, <1>4
<1> QED BY <1>8, <1>9 DEF N, h, s

\* Both give a salary for every figure, the same one.
LEMMA ExpectedAmountsAgree ==
  ASSUME LookConstants, NEW x \in Amount
  PROVE  /\ Look!expected_amount(x) = Look!expected_salary_expression(x)
         /\ x # None => Look!expected_amount(x) \in Int
<1>1. Look!predict_salary(x) = IF x < 0 THEN MIN_SALARY \div 10
                               ELSE Look!Rounded(Look!AtLeast(MIN_SALARY, TheHorner(x)[Len(Curve)]))
  BY Zenon DEF Look!predict_salary, TheHorner, HornerIs
<1>2. Look!Polynomial(x) = TheSum(x)[Len(Curve)]
  BY Zenon DEF Look!Polynomial, TheSum, SumIs, ThePower, PowerIs
<1>3. CASE x = None
  BY <1>3 DEF Look!expected_amount, Look!expected_salary_expression
<1>4. CASE x # None
  <2>1. x \in Int
    BY <1>4 DEF Amount
  <2>2. TheHorner(x)[Len(Curve)] = Look!Polynomial(x) /\ Look!Polynomial(x) \in Int
    BY <1>2, <2>1, TheCurveIsTheCurve
  <2>3. Look!expected_amount(x) = Look!expected_salary_expression(x)
    BY <1>1, <1>4, <2>2 DEF Look!expected_amount, Look!expected_salary_expression
  <2>4. Look!predict_salary(x) \in Int
    BY <1>1, <2>2, TheCurve DEF Look!Rounded, Look!AtLeast
  <2> QED BY <1>4, <2>3, <2>4 DEF Look!expected_amount
<1> QED BY <1>3, <1>4

-----------------------------------------------------------------------------
(* Figures worked out twice *)

\* A baseline points at a snapshot or at none.
LEMMA SnapshotsPointedAt ==
  ASSUME LookConstants, OutlookShape, InTurn, NEW p, NEW b
  PROVE  Look!baseline_snapshot(p, b) = None \/ Look!baseline_snapshot(p, b) \in snapshots
<1> DEFINE rows == Look!Of(p, b.season)
           before == {x \in rows : x.as_of < b.moment}
           after == {x \in rows : x.as_of >= b.moment}
<1>1. OneAMoment(before) /\ OneAMoment(after)
  BY RowsOfAPlayer, SomeOfThem
<1>2. before \subseteq snapshots /\ after \subseteq snapshots
  BY DEF Look!Of
<1>3. Look!baseline_snapshot(p, b) =
        IF b.kind = "preseason"
        THEN IF before = {} THEN None ELSE Look!Newest(before)
        ELSE IF after = {} THEN None ELSE Look!Oldest(after)
  BY DEF Look!baseline_snapshot
<1> HIDE DEF rows, before, after
<1>4. before # {} => Look!Newest(before) \in before
  BY <1>1, NewestIs
<1>5. after # {} => Look!Oldest(after) \in after
  BY <1>1, OldestIs
<1> QED BY <1>2, <1>3, <1>4, <1>5

\* What the columns hold.
LEMMA MirrorTypes ==
  ASSUME LookConstants, OutlookShape, NEW p \in Players
  PROVE  /\ mirror[p].salary \in Amount
         /\ mirror[p].fp_per_game \in Amount
<1>1. mirror[p] \in Reading \/ mirror[p] = Look!Unread
  BY DEF OutlookShape
<1>2. CASE mirror[p] \in Reading
  BY <1>2 DEF Reading, Amount
<1>3. CASE mirror[p] = Look!Unread
  BY <1>3 DEF Look!Unread, Amount
<1> QED BY <1>1, <1>2, <1>3

\* Where a salary is heading, on the page and in the lists.
LEMMA TheOutlooksAgree ==
  ASSUME LookConstants, OutlookShape, InTurn, NEW p \in Players
  PROVE  Look!salary_outlook(p) = IF Look!with_salary_outlook(p).salary = None THEN Look!NoOutlook
                                  ELSE Look!with_salary_outlook(p)
<1> DEFINE b == Look!salary_baseline
           x == IF b = None THEN None ELSE Look!baseline_snapshot(p, b)
           premium == IF b = None THEN None ELSE Look!premium_at(p, b)
           listed == CASE x = None -> None
                       [] x # None /\ b.kind = "preseason" -> 0
                       [] OTHER -> IF x.fp_per_game = None THEN None
                                   ELSE x.salary - Look!expected_salary_expression(x.fp_per_game)
           m == mirror[p]
           least == MIN_SALARY \div 10
<1>0. None \notin Int /\ least \in Int
  BY LookTypes, TheCurve
<1>1. m.salary \in Amount /\ m.fp_per_game \in Amount
  BY MirrorTypes
<1>2. x = None \/ (x.salary \in Int /\ x.fp_per_game \in Amount)
  BY SnapshotsPointedAt DEF OutlookShape, Row
<1>3. premium = IF x = None THEN None ELSE Look!pick_premium(x, b.kind = "preseason")
  BY DEF Look!premium_at
<1>4. listed = IF x = None THEN None ELSE IF b.kind = "preseason" THEN 0
               ELSE IF x.fp_per_game = None THEN None
               ELSE x.salary - Look!expected_salary_expression(x.fp_per_game)
  BY Zenon
<1> HIDE DEF x, listed, least
<1>5. premium = listed
  <2>1. CASE x = None
    BY <1>3, <1>4, <2>1
  <2>2. CASE x # None
    <3>1. Look!expected_amount(x.fp_per_game) = Look!expected_salary_expression(x.fp_per_game)
      BY <1>2, <2>2, ExpectedAmountsAgree
    <3> HIDE DEF premium
    <3> QED BY <1>3, <1>4, <2>2, <3>1 DEF Look!pick_premium
  <2> QED BY <2>1, <2>2
<1>6. premium \in Amount
  <2>1. CASE x = None
    BY <1>3, <2>1 DEF Amount
  <2>2. CASE x # None
    <3>1. x.fp_per_game # None => Look!expected_amount(x.fp_per_game) \in Int
      BY <1>2, <2>2, ExpectedAmountsAgree
    <3> HIDE DEF premium
    <3> QED BY <1>2, <1>3, <2>2, <3>1 DEF Look!pick_premium, Amount
  <2> QED BY <2>1, <2>2
<1>7. Look!with_salary_outlook(p) =
        IF Look!complete(p, listed)
        THEN LET salary == IF listed = None THEN least
                           ELSE Look!AtLeast(least, Look!expected_salary_expression(m.fp_per_game) + listed)
             IN [premium |-> listed, salary |-> salary, change |-> salary - m.salary]
        ELSE [Look!NoOutlook EXCEPT !.premium = listed]
  BY Zenon DEF Look!with_salary_outlook, x, listed, least
<1>8. Look!salary_outlook(p) =
        LET salary == Look!predicted_salary(m.fp_per_game, premium)
        IN IF m.salary = None \/ salary = None THEN Look!NoOutlook
           ELSE [premium |-> premium, salary |-> salary, change |-> salary - m.salary]
  BY DEF Look!salary_outlook
<1>9. [Look!NoOutlook EXCEPT !.premium = listed].salary = None
  BY DEF Look!NoOutlook
<1>10. Look!expected_amount(m.fp_per_game) = Look!expected_salary_expression(m.fp_per_game)
       /\ (m.fp_per_game # None => Look!expected_amount(m.fp_per_game) \in Int)
  BY <1>1, ExpectedAmountsAgree
<1>11. Look!complete(p, listed) <=> m.salary # None /\ m.fp_per_game # None /\ premium # None
  BY <1>5 DEF Look!complete
<1> HIDE DEF premium, m, b
<1>12. CASE m.fp_per_game = None \/ premium = None
  <2>1. Look!predicted_salary(m.fp_per_game, premium) = None
    BY <1>12 DEF Look!predicted_salary
  <2>2. Look!salary_outlook(p) = Look!NoOutlook
    BY <1>8, <2>1
  <2>3. Look!with_salary_outlook(p).salary = None
    BY <1>7, <1>9, <1>11, <1>12
  <2> QED BY <2>2, <2>3
<1>13. CASE m.fp_per_game # None /\ premium # None
  <2> DEFINE s == Look!AtLeast(least, Look!expected_salary_expression(m.fp_per_game) + listed)
  <2>1. Look!predicted_salary(m.fp_per_game, premium) = s
    BY <1>5, <1>10, <1>13 DEF Look!predicted_salary, least
  <2>2. s \in Int
    BY <1>0, <1>5, <1>6, <1>10, <1>13 DEF Amount, Look!AtLeast
  <2>3. s # None
    BY <1>0, <2>2
  <2> HIDE DEF s
  <2>4. listed # None /\ premium = listed
    BY <1>5, <1>13
  <2>5. Look!salary_outlook(p) = IF m.salary = None THEN Look!NoOutlook
                                 ELSE [premium |-> listed, salary |-> s, change |-> s - m.salary]
    BY <1>8, <2>1, <2>3, <2>4
  <2>6. Look!with_salary_outlook(p) =
          IF m.salary = None THEN [Look!NoOutlook EXCEPT !.premium = listed]
          ELSE [premium |-> listed, salary |-> s, change |-> s - m.salary]
    BY <1>7, <1>11, <1>13, <2>4 DEF s
  <2>7. (Look!with_salary_outlook(p).salary = None) <=> m.salary = None
    BY <1>9, <2>3, <2>6
  <2> QED BY <2>5, <2>6, <2>7
<1> QED BY <1>12, <1>13

\* A player's snapshots are finitely many.
LEMMA RowsAreFinite ==
  ASSUME LookConstants, NEW rows, OneAMoment(rows)
  PROVE  IsFiniteSet(rows)
<1>1. LastInstant \in Nat
  BY LookTypes
<1>2. IsFiniteSet(0..LastInstant)
  BY <1>1, FS_Interval
<1> DEFINE f == [x \in rows |-> x.as_of]
<1>3. f \in Injection(rows, 0..LastInstant)
  BY DEF OneAMoment, Injection, IsInjective, Look!Instants
<1> QED BY <1>2, <1>3, FS_Injection

\* Fewer than two of them: one.
LEMMA FewerThanTwo ==
  ASSUME LookConstants, NEW rows, OneAMoment(rows), NEW x \in rows
  PROVE  Look!Cardinality(rows) < 2 <=> rows = {x}
<1>1. IsFiniteSet(rows)
  BY RowsAreFinite
<1>2. Look!Cardinality(rows) = Cardinality(rows)
  BY Zenon DEF Look!Cardinality, Cardinality
<1>3. Cardinality(rows) \in Nat /\ Cardinality(rows) # 0
  BY <1>1, FS_CardinalityType, FS_EmptySet
<1>4. IsFiniteSet(rows \ {x}) /\ Cardinality(rows \ {x}) = Cardinality(rows) - 1
  BY <1>1, FS_RemoveElement
<1>5. Cardinality(rows \ {x}) = 0 <=> rows \ {x} = {}
  BY <1>4, FS_EmptySet
<1> QED BY <1>2, <1>3, <1>4, <1>5

\* What a player gained since the snapshot before.
LEMMA TheChangesAgree ==
  ASSUME LookConstants, OutlookShape, InTurn, MirrorIsNewest, NEW p \in Players
  PROVE  Look!latest_fp_change(p) = Look!with_latest_fp_change(p)
<1> DEFINE all == {x \in snapshots : x.player = p}
           newer == Look!Newest(all)
           older == Look!Newest(all \ {newer})
           same == Look!Of(p, newer.season)
           previous == Look!Newest(same \ {Look!Newest(same)})
<1>1. OneAMoment(all)
  BY RowsOfAPlayer
<1>2. Look!latest_fp_change(p) =
        IF Look!Cardinality(all) < 2 THEN Look!NoChange
        ELSE IF newer.season # older.season THEN Look!NoChange ELSE Look!Change(newer, older)
  BY DEF Look!latest_fp_change, Look!latest_fp_change_in
<1>3. Look!with_latest_fp_change(p) =
        IF all = {} \/ Look!Cardinality(same) < 2 THEN Look!NoChange ELSE Look!Change(mirror[p], previous)
  BY DEF Look!with_latest_fp_change
<1>4. CASE all = {}
  <2>1. Look!Cardinality(all) = 0
    <3>1. Look!Cardinality({}) = Cardinality({})
      BY Zenon DEF Look!Cardinality, Cardinality
    <3> QED BY <1>4, <3>1, FS_EmptySet
  <2> HIDE DEF all, newer, older, same, previous
  <2> QED BY <1>2, <1>3, <1>4, <2>1
<1>5. CASE all # {}
  <2>1. newer \in all /\ \A x \in all : x.as_of <= newer.as_of
    <3> HIDE DEF all
    <3> QED BY <1>1, <1>5, NewestIs
  <2>2. same = {x \in all : x.season = newer.season}
    BY DEF Look!Of
  <2>3. \A x \in all : /\ x \in snapshots /\ x.as_of \in Nat /\ x.season \in Nat /\ x.player = p
                       /\ x.games_played \in Nat /\ x.salary \in Int
    BY LookTypes DEF OutlookShape, Row
  <2>4. mirror[p] = FiguresOf(newer)
    BY <2>1, <2>3 DEF MirrorIsNewest
  <2>5. \A x, y \in all : x.season < y.season => x.as_of < y.as_of
    BY DEF InTurn
  <2> HIDE DEF all, newer, same
  <2>6. OneAMoment(same) /\ newer \in same
    BY <1>1, <2>1, <2>2, SomeOfThem
  <2>7. Look!Newest(same) = newer
    BY <2>1, <2>2, <2>6, TheNewest
  <2>8. Look!Cardinality(all) < 2 <=> all = {newer}
    BY <1>1, <2>1, FewerThanTwo
  <2>9. Look!Cardinality(same) < 2 <=> same = {newer}
    BY <2>6, FewerThanTwo
  <2>10. CASE all = {newer}
    <3>1. same = {newer}
      BY <2>2, <2>6, <2>10
    <3> QED BY <1>2, <1>3, <2>8, <2>9, <2>10, <3>1
  <2>11. CASE all # {newer}
    <3>1. OneAMoment(all \ {newer}) /\ all \ {newer} # {}
      BY <1>1, <2>1, <2>11, SomeOfThem
    <3>2. older \in all \ {newer} /\ \A x \in all \ {newer} : x.as_of <= older.as_of
      BY <3>1, NewestIs
    <3> HIDE DEF older
    <3>3. CASE older.season # newer.season
      <4>1. ASSUME NEW y \in same, y # newer PROVE FALSE
        <5>1. y \in all \ {newer} /\ y.season = newer.season /\ y.as_of <= older.as_of
          BY <2>2, <3>2, <4>1
        <5>2. ~(older.season < newer.season)
          BY <2>3, <2>5, <3>2, <5>1
        <5>3. ~(newer.season < older.season)
          BY <2>1, <2>3, <2>5, <3>2
        <5> QED BY <2>1, <2>3, <3>2, <3>3, <5>2, <5>3
      <4>2. same = {newer}
        BY <2>6, <4>1
      <4> QED BY <1>2, <1>3, <2>9, <3>3, <4>2 DEF older
    <3>4. CASE older.season = newer.season
      <4>1. older \in same \ {newer}
        BY <2>2, <3>2, <3>4
      <4>2. OneAMoment(same \ {newer}) /\ \A x \in same \ {newer} : x.as_of <= older.as_of
        BY <2>2, <2>6, <3>2, SomeOfThem
      <4>3. Look!Newest(same \ {newer}) = older
        BY <4>1, <4>2, TheNewest
      <4>4. same # {newer}
        BY <4>1
      <4>5. Look!with_latest_fp_change(p) = Look!Change(mirror[p], older)
        BY <1>3, <1>5, <2>7, <2>9, <4>3, <4>4
      <4>6. Look!latest_fp_change(p) = Look!Change(newer, older)
        BY <1>2, <2>8, <2>11, <3>4 DEF older
      <4>7. Look!Change(FiguresOf(newer), older) = Look!Change(newer, older)
        BY DEF Look!Change, FiguresOf
      <4> QED BY <2>4, <4>5, <4>6, <4>7
    <3> QED BY <3>3, <3>4
  <2> QED BY <2>10, <2>11
<1> QED BY <1>4, <1>5

\* Where a salary is heading and what a player gained are the same figures on his page
\* (salary_outlook, latest_fp_change) and in the lists (with_salary_outlook,
\* with_latest_fp_change), for any curve, imports and seasons.
THEOREM TheFiguresAgree == LookConstants => (Look!Spec => []Look!FiguresAgree)
<1> SUFFICES ASSUME LookConstants PROVE Look!Spec => []Look!FiguresAgree
  OBVIOUS
<1>1. OutlookInv => Look!FiguresAgree
  BY TheOutlooksAgree, TheChangesAgree DEF OutlookInv, Look!FiguresAgree
<1> QED BY <1>1, OutlookHolds, PTL

-----------------------------------------------------------------------------
(* Sums over instants *)

Less(T, x) == T \ {x}
Picked(T) == CHOOSE x \in T : TRUE

\* The sum as the folds define it, and as a sum over time.
IterIs(iter, g, S) ==
  iter = [T \in SUBSET S |-> IF T = {} THEN 0 ELSE g[Picked(T)] + iter[Less(T, Picked(T))]]

TheIter(g, S) == CHOOSE iter : IterIs(iter, g, S)

Spread(g, T) == [i \in 1..(LastInstant + 1) |-> IF i - 1 \in T THEN g[i - 1] ELSE 0]

UpTo(g, T) == CHOOSE f : Solves(f, LastInstant + 1, 0, 1, Spread(g, T))

SumOver(g, T) == UpTo(g, T)[LastInstant + 1]

\* The fold of the library.
LEMMA SumFunctionIs ==
  ASSUME NEW g
  PROVE  Look!SumFunction(g) = TheIter(g, DOMAIN g)[DOMAIN g]
BY Zenon DEF Look!SumFunction, Look!SumFunctionOnSet, Look!FoldFunction, Look!FoldFunctionOnSet,
  Look!MapThenFoldSet, TheIter, IterIs, Less, Picked

Amounts(g, S) == S \subseteq Look!Instants /\ \A t \in S : g[t] \in Int

\* The sum over time, moment by moment.
LEMMA UpToIs ==
  ASSUME LookConstants, NEW S, NEW g, Amounts(g, S), NEW T \in SUBSET S
  PROVE  /\ \A i \in 0..(LastInstant + 1) : UpTo(g, T)[i] \in Int
         /\ UpTo(g, T)[0] = 0
         /\ \A i \in Look!Instants :
              UpTo(g, T)[i + 1] = UpTo(g, T)[i] + (IF i \in T THEN g[i] ELSE 0)
<1> DEFINE N == LastInstant + 1
           term == Spread(g, T)
<1>1. N \in Nat /\ LastInstant \in Nat
  BY LookTypes
<1>2. \A i \in 1..N : term[i] = (IF i - 1 \in T THEN g[i - 1] ELSE 0) /\ term[i] \in Int
  BY DEF Spread, Amounts
<1> HIDE DEF term, N
<1>3. \E f : Solves(f, N, 0, 1, term)
  <2>1. 0 \in Int /\ 1 \in Int /\ N \in Nat /\ \A i \in 1..N : term[i] \in Int
    BY <1>1, <1>2
  <2> QED BY ONLY <2>1, RecurrencesHaveSolutions, Zenon
<1> DEFINE f == UpTo(g, T)
<1>4. Solves(f, N, 0, 1, term)
  BY <1>3 DEF UpTo, N, term
<1> HIDE DEF f
<1>5. f \in [0..N -> Int] /\ f[0] = 0 /\ \A i \in 1..N : f[i] = f[i - 1] * 1 + term[i]
  BY <1>4 DEF Solves
<1>6. ASSUME NEW i \in Look!Instants
      PROVE  f[i + 1] = f[i] + (IF i \in T THEN g[i] ELSE 0)
  <2>1. i + 1 \in 1..N /\ (i + 1) - 1 = i /\ i \in 0..N
    BY <1>1 DEF Look!Instants, N
  <2>2. f[i] \in Int /\ term[i + 1] \in Int /\ f[i + 1] = f[i] * 1 + term[i + 1]
    BY <1>2, <1>5, <2>1
  <2>3. f[i + 1] = f[i] + term[i + 1]
    BY <2>2
  <2> QED BY <1>2, <2>1, <2>3
<1> QED BY <1>1, <1>5, <1>6 DEF f, N

\* Nothing adds up to nothing.
LEMMA SumOverNothing ==
  ASSUME LookConstants, NEW S, NEW g, Amounts(g, S)
  PROVE  SumOver(g, {}) = 0
<1> DEFINE f == UpTo(g, {})
           T == {n \in Nat : n <= LastInstant + 1 => f[n] = 0}
<1>1. LastInstant \in Nat
  BY LookTypes
<1>2. f[0] = 0 /\ \A i \in Look!Instants : f[i + 1] = f[i] + 0
  BY UpToIs
<1> HIDE DEF f
<1>3. 0 \in T
  BY <1>2
<1>4. ASSUME NEW n \in Nat, n \in T PROVE n + 1 \in T
  <2> SUFFICES ASSUME n + 1 <= LastInstant + 1 PROVE f[n + 1] = 0
    OBVIOUS
  <2>1. n \in Look!Instants /\ f[n] = 0
    BY <1>1, <1>4 DEF Look!Instants
  <2> QED BY <1>2, <2>1
<1>5. Nat \subseteq T
  <2> HIDE DEF T
  <2> QED BY <1>3, <1>4, SetInduction
<1> QED BY <1>1, <1>5 DEF SumOver, f

\* One more adds its amount, wherever in time it is.
LEMMA SumOverOneMore ==
  ASSUME LookConstants, NEW S, NEW g, Amounts(g, S), NEW T \in SUBSET S, NEW x \in T
  PROVE  SumOver(g, T) = g[x] + SumOver(g, Less(T, x)) /\ SumOver(g, T) \in Int
<1> DEFINE f == UpTo(g, T)
           h == UpTo(g, Less(T, x))
           U == {n \in Nat : n <= LastInstant + 1 => f[n] = (IF n <= x THEN 0 ELSE g[x]) + h[n]}
<1>1. LastInstant \in Nat /\ x \in Look!Instants /\ x \in Nat /\ x <= LastInstant /\ g[x] \in Int
      /\ \A t \in T : g[t] \in Int
  BY LookTypes DEF Amounts, Look!Instants
<1>2. /\ \A i \in 0..(LastInstant + 1) : f[i] \in Int
      /\ f[0] = 0
      /\ \A i \in Look!Instants : f[i + 1] = f[i] + (IF i \in T THEN g[i] ELSE 0)
  BY UpToIs
<1>3. /\ \A i \in 0..(LastInstant + 1) : h[i] \in Int
      /\ h[0] = 0
      /\ \A i \in Look!Instants : h[i + 1] = h[i] + (IF i \in T /\ i # x THEN g[i] ELSE 0)
  <2>1. Less(T, x) \in SUBSET S /\ \A i : i \in Less(T, x) <=> i \in T /\ i # x
    BY DEF Less
  <2> HIDE DEF h
  <2>2. /\ \A i \in 0..(LastInstant + 1) : h[i] \in Int
        /\ h[0] = 0
        /\ \A i \in Look!Instants : h[i + 1] = h[i] + (IF i \in Less(T, x) THEN g[i] ELSE 0)
    BY <2>1, UpToIs DEF h
  <2> QED BY <2>1, <2>2
<1> HIDE DEF f, h
<1>4. 0 \in U
  BY <1>1, <1>2, <1>3
<1>5. ASSUME NEW n \in Nat, n \in U PROVE n + 1 \in U
  <2> SUFFICES ASSUME n + 1 <= LastInstant + 1
               PROVE  f[n + 1] = (IF n + 1 <= x THEN 0 ELSE g[x]) + h[n + 1]
    OBVIOUS
  <2>1. n \in Look!Instants /\ n \in 0..(LastInstant + 1)
    BY <1>1 DEF Look!Instants
  <2>2. f[n] = (IF n <= x THEN 0 ELSE g[x]) + h[n] /\ f[n] \in Int /\ h[n] \in Int
    BY <1>2, <1>3, <1>5, <2>1
  <2>3. f[n + 1] = f[n] + (IF n \in T THEN g[n] ELSE 0)
    BY <1>2, <2>1
  <2>4. h[n + 1] = h[n] + (IF n \in T /\ n # x THEN g[n] ELSE 0)
    BY <1>3, <2>1
  <2>5. n \in T => g[n] \in Int
    BY <1>1
  <2>6. CASE n = x
    BY <1>1, <2>2, <2>3, <2>4, <2>6
  <2>7. CASE n # x
    <3>1. n + 1 <= x <=> n <= x
      BY <1>1, <2>7
    <3> QED BY <1>1, <2>2, <2>3, <2>4, <2>5, <2>7, <3>1
  <2> QED BY <2>6, <2>7
<1>6. Nat \subseteq U
  <2> HIDE DEF U
  <2> QED BY <1>4, <1>5, SetInduction
<1>7. f[LastInstant + 1] = g[x] + h[LastInstant + 1] /\ f[LastInstant + 1] \in Int
  <2>1. LastInstant + 1 \in Nat /\ ~(LastInstant + 1 <= x) /\ LastInstant + 1 \in 0..(LastInstant + 1)
    BY <1>1
  <2>2. LastInstant + 1 \in U
    BY <1>6, <2>1
  <2> QED BY <1>2, <2>1, <2>2
<1> QED BY <1>7 DEF SumOver, f, h

\* In whichever order the fold takes them, the sum is the same.
LEMMA TheSumIsASum ==
  ASSUME LookConstants, NEW g, Amounts(g, DOMAIN g)
  PROVE  Look!SumFunction(g) = SumOver(g, DOMAIN g)
<1> DEFINE S == DOMAIN g
           A == [T \in SUBSET S |-> SumOver(g, T)]
           iter == TheIter(g, S)
<1>1. ASSUME NEW T \in SUBSET S, T # {} PROVE Picked(T) \in T /\ Less(T, Picked(T)) \in SUBSET S
  BY <1>1 DEF Picked, Less
<1>2. ASSUME NEW T \in SUBSET S
      PROVE  SumOver(g, T) = IF T = {} THEN 0 ELSE g[Picked(T)] + A[Less(T, Picked(T))]
  <2>1. CASE T = {}
    BY <2>1, SumOverNothing
  <2>2. CASE T # {}
    <3>1. Picked(T) \in T /\ Less(T, Picked(T)) \in SUBSET S
      BY <1>1, <2>2
    <3>2. SumOver(g, T) = g[Picked(T)] + SumOver(g, Less(T, Picked(T)))
      BY <3>1, SumOverOneMore
    <3> QED BY <2>2, <3>1, <3>2
  <2> QED BY <2>1, <2>2
<1>3. IterIs(A, g, S)
  <2> DEFINE B == [T \in SUBSET S |-> IF T = {} THEN 0 ELSE g[Picked(T)] + A[Less(T, Picked(T))]]
  <2>1. \A T \in SUBSET S : A[T] = B[T]
    BY <1>2
  <2>2. A = B
    <3>1. A = [T \in SUBSET S |-> A[T]] /\ B = [T \in SUBSET S |-> B[T]]
      OBVIOUS
    <3> HIDE DEF A, B
    <3> QED BY <2>1, <3>1
  <2> HIDE DEF A, S
  <2> QED BY <2>2 DEF IterIs
<1>4. IterIs(iter, g, S)
  <2> HIDE DEF A, S
  <2> QED BY <1>3 DEF TheIter, iter
<1> HIDE DEF iter
<1>5. \A T \in SUBSET S : iter[T] = IF T = {} THEN 0 ELSE g[Picked(T)] + iter[Less(T, Picked(T))]
  <2> DEFINE B == [T \in SUBSET S |-> IF T = {} THEN 0 ELSE g[Picked(T)] + iter[Less(T, Picked(T))]]
  <2>1. \A T \in SUBSET S : B[T] = IF T = {} THEN 0 ELSE g[Picked(T)] + iter[Less(T, Picked(T))]
    OBVIOUS
  <2>2. iter = B
    BY <1>4 DEF IterIs
  <2> HIDE DEF B
  <2> QED BY <2>1, <2>2
<1>6. \A T \in SUBSET S : A[T] = IF T = {} THEN 0 ELSE g[Picked(T)] + A[Less(T, Picked(T))]
  BY <1>2
<1>7. ASSUME NEW T \in SUBSET S PROVE IsFiniteSet(T)
  <2>1. IsFiniteSet(0..LastInstant) /\ T \subseteq 0..LastInstant
    BY FS_Interval, LookTypes DEF Amounts, Look!Instants
  <2> QED BY <2>1, FS_Subset
<1> HIDE DEF A
<1> DEFINE U == {n \in Nat : \A T \in SUBSET S : Cardinality(T) = n => iter[T] = A[T]}
<1>8. 0 \in U
  <2> SUFFICES ASSUME NEW T \in SUBSET S, Cardinality(T) = 0 PROVE iter[T] = A[T]
    OBVIOUS
  <2>1. T = {}
    BY <1>7, FS_EmptySet
  <2> QED BY <1>5, <1>6, <2>1
<1>9. ASSUME NEW n \in Nat, n \in U PROVE n + 1 \in U
  <2> SUFFICES ASSUME NEW T \in SUBSET S, Cardinality(T) = n + 1 PROVE iter[T] = A[T]
    OBVIOUS
  <2>1. T # {}
    BY FS_EmptySet
  <2> DEFINE others == Less(T, Picked(T))
  <2>2. Picked(T) \in T /\ others \in SUBSET S
    BY <1>1, <2>1
  <2>3. Cardinality(others) = n
    <3>1. IsFiniteSet(T) /\ Picked(T) \in T
      BY <1>7, <2>2
    <3>2. Cardinality(T \ {Picked(T)}) = Cardinality(T) - 1
      BY <3>1, FS_RemoveElement
    <3>3. others = T \ {Picked(T)}
      BY DEF Less
    <3> QED BY <3>2, <3>3
  <2> HIDE DEF others
  <2>4. iter[others] = A[others]
    BY <1>9, <2>2, <2>3
  <2>5. iter[T] = g[Picked(T)] + iter[others] /\ A[T] = g[Picked(T)] + A[others]
    BY <1>5, <1>6, <2>1 DEF others
  <2> QED BY <2>4, <2>5
<1>10. Nat \subseteq U
  <2> HIDE DEF U
  <2> QED BY <1>8, <1>9, SetInduction
<1>11. S \in SUBSET S /\ Cardinality(S) \in Nat
  BY <1>7, FS_CardinalityType
<1>12. iter[S] = A[S]
  BY <1>10, <1>11
<1>13. A[S] = SumOver(g, S)
  BY <1>11 DEF A
<1> QED BY <1>12, <1>13, SumFunctionIs DEF iter

-----------------------------------------------------------------------------
(* The news of a player adds up *)

StampsOf(s) == {x.as_of : x \in {y \in snapshots : y.season = s}}

NewsOf(p, s) == [t \in StampsOf(s) |-> Look!LatestGames(Look!LatestRow(p, s, t))]

RowsBefore(p, s, i) == {x \in Look!Of(p, s) : x.as_of < i}

\* The snapshots of a player of a season.
LEMMA RowsOfASeason ==
  ASSUME LookConstants, OutlookShape, InTurn, NEW p, NEW s
  PROVE  /\ OneAMoment(Look!Of(p, s))
         /\ \A i : OneAMoment(RowsBefore(p, s, i))
         /\ \A x \in Look!Of(p, s) :
              x \in snapshots /\ x.player = p /\ x.season = s /\ x.as_of \in Nat
              /\ x.as_of \in Look!Instants /\ x.games_played \in Int
<1>1. OneAMoment(Look!Of(p, s))
  BY RowsOfAPlayer
<1>2. \A i : RowsBefore(p, s, i) \subseteq Look!Of(p, s)
  BY DEF RowsBefore
<1>3. \A x \in Look!Of(p, s) :
        x \in snapshots /\ x.player = p /\ x.season = s /\ x.as_of \in Nat
        /\ x.as_of \in Look!Instants /\ x.games_played \in Int
  BY LookTypes DEF OutlookShape, Row, Look!Of
<1> QED BY <1>1, <1>2, <1>3, SomeOfThem

\* The newest stamp at an import is its own.
LEMMA TheNewestStamp ==
  ASSUME LookConstants, OutlookShape, NEW s, NEW i \in StampsOf(s)
  PROVE  Look!NewestStamp(s, i) = i /\ i \in Look!Instants /\ i \in Nat
<1> DEFINE stamps == {x.as_of : x \in {y \in snapshots : y.season = s /\ y.as_of <= i}}
<1>1. \A x \in snapshots : x.as_of \in Look!Instants /\ x.as_of \in Nat
  BY LookTypes DEF OutlookShape, Row
<1>2. i \in Look!Instants /\ i \in Nat
  BY <1>1 DEF StampsOf
<1>3. i \in stamps
  <2>1. PICK x \in snapshots : x.season = s /\ x.as_of = i
    BY DEF StampsOf
  <2>2. x.as_of <= i
    BY <1>2, <2>1
  <2> QED BY <2>1, <2>2
<1>4. stamps \subseteq Look!Instants /\ \A n \in stamps : n <= i /\ n \in Nat
  BY <1>1
<1>5. Look!NewestStamp(s, i) = IF stamps = {} THEN None ELSE Look!Max(stamps)
  BY DEF Look!NewestStamp
<1> HIDE DEF stamps
<1>6. Look!Max(stamps) \in stamps /\ \A n \in stamps : n <= Look!Max(stamps)
  BY <1>3, <1>4, MaxOfInstants
<1> DEFINE k == Look!Max(stamps)
<1> HIDE DEF k
<1>k. k \in stamps /\ \A n \in stamps : n <= k
  BY <1>6 DEF k
<1>7. k = i
  <2>1. i <= k /\ k <= i /\ k \in Nat
    BY <1>3, <1>4, <1>k
  <2> QED BY <1>2, <2>1
<1> QED BY <1>2, <1>3, <1>5, <1>7 DEF k

\* Without a snapshot of that import, or of that season before it, nothing is new.
LEMMA NothingNew ==
  ASSUME LookConstants, OutlookShape, InTurn, NEW p, NEW s, NEW i \in StampsOf(s),
         \/ \A x \in Look!Of(p, s) : x.as_of # i
         \/ RowsBefore(p, s, i) = {}
  PROVE  NewsOf(p, s)[i] = 0
<1> DEFINE all == {x \in snapshots : x.player = p /\ x.as_of <= i}
           newer == Look!Newest(all)
           older == Look!Newest(all \ {newer})
           change == Look!latest_fp_change_in(all)
<1>1. NewsOf(p, s)[i] = Look!LatestGames(Look!LatestRow(p, s, i))
  BY DEF NewsOf
<1>2. Look!LatestRow(p, s, i) = IF all = {} THEN Look!NoChange
                                ELSE IF newer.as_of = i THEN change ELSE Look!NoChange
  BY TheNewestStamp DEF Look!LatestRow, Look!NewsOfTheImport
<1>3. Look!LatestGames(Look!NoChange) = 0
  BY DEF Look!LatestGames, Look!NoChange
<1>4. change = IF Look!Cardinality(all) < 2 THEN Look!NoChange
               ELSE IF newer.season # older.season THEN Look!NoChange ELSE Look!Change(newer, older)
  BY DEF Look!latest_fp_change_in
<1>5. OneAMoment(all)
  <2>1. OneAMoment({x \in snapshots : x.player = p})
    BY RowsOfAPlayer
  <2> QED BY <2>1, SomeOfThem
<1>6. i \in Nat /\ \A x \in snapshots : x.as_of \in Nat /\ x.season \in Nat
  BY TheNewestStamp, LookTypes DEF OutlookShape
<1>7. PICK first \in snapshots : first.season = s /\ first.as_of = i
  BY DEF StampsOf
<1>8. SUFFICES ASSUME all # {}, newer.as_of = i, newer.season = older.season, all # {newer}
               PROVE  FALSE
  <2>1. newer \in all => (Look!Cardinality(all) < 2 <=> all = {newer})
    <3> HIDE DEF all, newer
    <3> QED BY <1>5, FewerThanTwo
  <2>2. all # {} => newer \in all
    <3> HIDE DEF all
    <3> QED BY <1>5, NewestIs
  <2> HIDE DEF all, newer, older, change
  <2> QED BY <1>1, <1>2, <1>3, <1>4, <2>1, <2>2
<1>9. newer \in all
  <2> HIDE DEF all
  <2> QED BY <1>5, <1>8, NewestIs
<1>10. older \in all \ {newer}
  <2>1. OneAMoment(all \ {newer}) /\ all \ {newer} # {}
    <3> HIDE DEF all, newer
    <3> QED BY <1>5, <1>8, <1>9, SomeOfThem
  <2> HIDE DEF all, newer
  <2> QED BY <2>1, NewestIs
<1>11. newer \in snapshots /\ older \in snapshots /\ newer.player = p /\ older.player = p
       /\ older.as_of <= i /\ older # newer
  BY <1>9, <1>10
<1> HIDE DEF all, newer, older, change
<1>12. newer.season = s
  BY <1>6, <1>7, <1>8, <1>11 DEF InTurn
<1>13. newer \in Look!Of(p, s) /\ older \in Look!Of(p, s)
  BY <1>8, <1>11, <1>12 DEF Look!Of
<1>14. older.as_of # i
  BY <1>8, <1>11 DEF InTurn
<1>15. older.as_of < i
  BY <1>6, <1>11, <1>14
<1> QED BY <1>8, <1>13, <1>15 DEF RowsBefore

\* With both it is the games since the last one.
LEMMA GamesAreNews ==
  ASSUME LookConstants, OutlookShape, InTurn, NEW p, NEW s, NEW i \in StampsOf(s),
         NEW z \in Look!Of(p, s), z.as_of = i, RowsBefore(p, s, i) # {}
  PROVE  NewsOf(p, s)[i] = z.games_played - Look!Newest(RowsBefore(p, s, i)).games_played
<1> DEFINE all == {x \in snapshots : x.player = p /\ x.as_of <= i}
           w == Look!Newest(RowsBefore(p, s, i))
           older == Look!Newest(all \ {z})
<1>1. NewsOf(p, s)[i] = Look!LatestGames(Look!LatestRow(p, s, i))
  BY DEF NewsOf
<1>2. OneAMoment(all)
  <2>1. OneAMoment({x \in snapshots : x.player = p})
    BY RowsOfAPlayer
  <2> QED BY <2>1, SomeOfThem
<1>3. i \in Nat /\ \A x \in snapshots : x.as_of \in Nat /\ x.season \in Nat
  BY TheNewestStamp, LookTypes DEF OutlookShape
<1>4. z \in snapshots /\ z.player = p /\ z.season = s /\ z.games_played \in Int
  BY RowsOfASeason
<1>5. z \in all /\ \A x \in all : x.as_of <= z.as_of /\ x \in snapshots /\ x.player = p
  BY <1>3, <1>4
<1>6. Look!Newest(all) = z
  <2> HIDE DEF all
  <2> QED BY <1>2, <1>5, TheNewest
<1>7. /\ w \in RowsBefore(p, s, i)
      /\ \A x \in RowsBefore(p, s, i) : x.as_of <= w.as_of
  BY RowsOfASeason, NewestIs
<1> HIDE DEF w
<1>8. /\ w \in Look!Of(p, s) /\ w.as_of < i /\ w.as_of \in Nat /\ w.games_played \in Int
      /\ w \in snapshots /\ w.player = p /\ w.season = s
  BY <1>7, RowsOfASeason DEF RowsBefore
<1>9. w \in all \ {z}
  BY <1>3, <1>8
<1>10. ASSUME NEW x \in all \ {z} PROVE x.as_of <= w.as_of
  <2>1. x \in snapshots /\ x.player = p /\ x.as_of <= i /\ x # z /\ x.as_of \in Nat /\ x.season \in Nat
    BY <1>3
  <2>2. x.as_of < i
    <3>1. x.as_of # z.as_of
      BY <1>4, <2>1 DEF InTurn
    <3> QED BY <1>3, <2>1, <3>1
  <2>3. s \in Nat
    BY <1>3, <1>4
  <2>4. ~(s < x.season)
    <3>1. s < x.season => z.as_of < x.as_of
      BY <1>4, <2>1 DEF InTurn
    <3> QED BY <1>3, <2>1, <3>1
  <2>5. CASE x.season = s
    BY <1>7, <2>1, <2>2, <2>5 DEF RowsBefore, Look!Of
  <2>6. CASE x.season < s
    <3>1. x.as_of < w.as_of
      BY <1>8, <2>1, <2>6 DEF InTurn
    <3> QED BY <1>8, <2>1, <3>1
  <2> QED BY <2>1, <2>3, <2>4, <2>5, <2>6
<1>11. older = w
  <2>1. OneAMoment(all \ {z})
    BY <1>2, SomeOfThem
  <2> HIDE DEF all
  <2> QED BY <1>9, <1>10, <2>1, TheNewest
<1>12. ~(Look!Cardinality(all) < 2)
  <2>1. all # {z}
    BY <1>9
  <2> HIDE DEF all
  <2> QED BY <1>2, <1>5, <2>1, FewerThanTwo
<1>13. Look!latest_fp_change_in(all) = Look!Change(z, w)
  <2>1. Look!latest_fp_change_in(all) =
          IF Look!Cardinality(all) < 2 THEN Look!NoChange
          ELSE IF z.season # older.season THEN Look!NoChange ELSE Look!Change(z, older)
    BY <1>6 DEF Look!latest_fp_change_in
  <2> HIDE DEF all, older
  <2> QED BY <1>4, <1>8, <1>11, <1>12, <2>1
<1>14. Look!LatestRow(p, s, i) = Look!Change(z, w)
  <2>1. Look!LatestRow(p, s, i) =
          IF all = {} THEN Look!NoChange
          ELSE IF Look!Newest(all).as_of = i THEN Look!latest_fp_change_in(all) ELSE Look!NoChange
    BY TheNewestStamp DEF Look!LatestRow, Look!NewsOfTheImport
  <2>2. all # {}
    BY <1>5
  <2> HIDE DEF all
  <2> QED BY <1>6, <1>13, <2>1, <2>2
<1>15. Look!Change(z, w).games = z.games_played - w.games_played
  BY DEF Look!Change
<1>16. z.games_played - w.games_played # None
  BY <1>4, <1>8, LookTypes
<1> QED BY <1>1, <1>14, <1>15, <1>16 DEF Look!LatestGames, w

\* Up to any import: what he has played since his first snapshot of the season.
LEMMA NewsSoFar ==
  ASSUME LookConstants, OutlookShape, InTurn, NEW p, NEW s, Look!Of(p, s) # {}
  PROVE  /\ Amounts(NewsOf(p, s), StampsOf(s))
         /\ SumOver(NewsOf(p, s), StampsOf(s)) =
              Look!Newest(Look!Of(p, s)).games_played - Look!Oldest(Look!Of(p, s)).games_played
<1> DEFINE g == NewsOf(p, s)
           S == StampsOf(s)
           rows == Look!Of(p, s)
           R(i) == RowsBefore(p, s, i)
           first == Look!Oldest(rows)
           f == UpTo(g, S)
<1>1. /\ OneAMoment(rows) /\ \A i : OneAMoment(R(i))
      /\ \A x \in rows : /\ x \in snapshots /\ x.player = p /\ x.season = s /\ x.as_of \in Nat
                         /\ x.as_of \in Look!Instants /\ x.games_played \in Int
  BY RowsOfASeason
<1>2. \A i : R(i) = {x \in rows : x.as_of < i}
  BY DEF RowsBefore
<1>3. \A i \in S : i \in Look!Instants /\ i \in Nat
  BY TheNewestStamp
<1>4. first \in rows /\ (\A x \in rows : first.as_of <= x.as_of) /\ first.games_played \in Int
  <2>1. first \in rows /\ \A x \in rows : first.as_of <= x.as_of
    <3> HIDE DEF rows
    <3> QED BY <1>1, OldestIs DEF rows
  <2> QED BY <1>1, <2>1
<1>5. ASSUME NEW i, R(i) # {} PROVE Look!Newest(R(i)) \in R(i)
                                    /\ \A x \in R(i) : x.as_of <= Look!Newest(R(i)).as_of
  <2> HIDE DEF R
  <2> QED BY <1>1, <1>5, NewestIs
<1>6. ASSUME NEW i \in S, \/ \A x \in rows : x.as_of # i
                          \/ R(i) = {}
      PROVE g[i] = 0
  BY <1>6, NothingNew
<1>7. ASSUME NEW i \in S, NEW z \in rows, z.as_of = i, R(i) # {}
      PROVE g[i] = z.games_played - Look!Newest(R(i)).games_played
  BY <1>7, GamesAreNews
<1>8. \A z \in rows : z.as_of \in S
  BY <1>1 DEF StampsOf
<1> HIDE DEF g, S, rows, R, first
<1>9. ASSUME NEW i \in S PROVE g[i] \in Int
  <2>1. CASE R(i) = {} \/ \A x \in rows : x.as_of # i
    BY <1>6, <2>1
  <2>2. CASE R(i) # {} /\ \E z \in rows : z.as_of = i
    BY <1>1, <1>2, <1>5, <1>7, <2>2
  <2> QED BY <2>1, <2>2
<1>10. Amounts(g, S)
  BY <1>3, <1>9 DEF Amounts
<1>11. /\ \A i \in 0..(LastInstant + 1) : f[i] \in Int
       /\ f[0] = 0
       /\ \A i \in Look!Instants : f[i + 1] = f[i] + (IF i \in S THEN g[i] ELSE 0)
  BY <1>10, UpToIs
<1> HIDE DEF f
<1> DEFINE T == {n \in Nat : n <= LastInstant + 1 =>
                   f[n] = IF R(n) = {} THEN 0
                          ELSE Look!Newest(R(n)).games_played - first.games_played}
<1>12. LastInstant \in Nat
  BY LookTypes
<1>13. 0 \in T
  <2>1. R(0) = {}
    BY <1>1, <1>2
  <2> QED BY <1>11, <2>1
<1>14. ASSUME NEW n \in Nat, n \in T PROVE n + 1 \in T
  <2> SUFFICES ASSUME n + 1 <= LastInstant + 1
               PROVE f[n + 1] = IF R(n + 1) = {} THEN 0
                                ELSE Look!Newest(R(n + 1)).games_played - first.games_played
    OBVIOUS
  <2>1. n \in Look!Instants
    BY <1>12 DEF Look!Instants
  <2>2. f[n] = IF R(n) = {} THEN 0 ELSE Look!Newest(R(n)).games_played - first.games_played
    BY <1>12, <1>14
  <2>3. f[n + 1] = f[n] + (IF n \in S THEN g[n] ELSE 0) /\ f[n] \in Int
    BY <1>11, <1>12, <2>1
  <2>4. CASE \A x \in rows : x.as_of # n
    <3>1. R(n + 1) = R(n)
      BY <1>1, <1>2, <2>4
    <3>2. f[n + 1] = f[n]
      BY <1>6, <2>3, <2>4
    <3> QED BY <2>2, <3>1, <3>2
  <2>5. ASSUME NEW z \in rows, z.as_of = n
        PROVE f[n + 1] = IF R(n + 1) = {} THEN 0
                         ELSE Look!Newest(R(n + 1)).games_played - first.games_played
    <3>1. z \in R(n + 1) /\ \A x \in R(n + 1) : x.as_of <= z.as_of
      BY <1>1, <1>2, <2>5
    <3>2. Look!Newest(R(n + 1)) = z
      BY <1>1, <3>1, TheNewest
    <3>3. n \in S /\ z.games_played \in Int
      BY <1>1, <1>8, <2>5
    <3>4. CASE R(n) = {}
      <4>1. ASSUME NEW x \in rows PROVE z.as_of <= x.as_of
        BY <1>1, <1>2, <2>5, <3>4
      <4>2. z = first
        BY <1>1, <1>4, <4>1 DEF OneAMoment
      <4>3. f[n + 1] = 0
        BY <1>6, <2>2, <2>3, <3>3, <3>4
      <4> QED BY <3>1, <3>2, <3>3, <4>2, <4>3
    <3>5. CASE R(n) # {}
      <4>1. g[n] = z.games_played - Look!Newest(R(n)).games_played
        BY <1>7, <2>5, <3>3, <3>5
      <4>2. Look!Newest(R(n)).games_played \in Int
        BY <1>1, <1>2, <1>5, <3>5
      <4>3. f[n + 1] = (Look!Newest(R(n)).games_played - first.games_played)
                       + (z.games_played - Look!Newest(R(n)).games_played)
        BY <2>2, <2>3, <3>3, <3>5, <4>1
      <4>4. f[n + 1] = z.games_played - first.games_played
        BY <1>4, <3>3, <4>2, <4>3
      <4> QED BY <3>1, <3>2, <4>4
    <3> QED BY <3>4, <3>5
  <2> QED BY <2>4, <2>5
<1>15. Nat \subseteq T
  <2> HIDE DEF T
  <2> QED BY <1>13, <1>14, SetInduction
<1>16. LastInstant + 1 \in T
  BY <1>12, <1>15
<1>17. R(LastInstant + 1) = rows
  BY <1>1, <1>2, <1>12 DEF Look!Instants
<1>18. rows # {}
  BY <1>4
<1>19. f[LastInstant + 1] = Look!Newest(rows).games_played - first.games_played
  BY <1>12, <1>16, <1>17, <1>18
<1> QED BY <1>10, <1>19 DEF SumOver, f, g, S, rows, first

\* What the Latest tab tells of a player, import after import, adds up to what he has
\* played between his first and his newest snapshot of the season: no game is told
\* twice or left out, however often imports pass him over (roster_latest, import_stamps).
THEOREM TheNewsAddsUp == LookConstants => (Look!Spec => []Look!NewsAddsUp)
<1> SUFFICES ASSUME LookConstants PROVE Look!Spec => []Look!NewsAddsUp
  OBVIOUS
<1>1. ASSUME OutlookInv, NEW p \in Players, NEW s \in Look!Seasons, Look!Of(p, s) # {}
      PROVE  Look!SumFunction(NewsOf(p, s)) =
               Look!Newest(Look!Of(p, s)).games_played - Look!Oldest(Look!Of(p, s)).games_played
  <2>1. DOMAIN NewsOf(p, s) = StampsOf(s)
    BY DEF NewsOf
  <2>2. OutlookShape /\ InTurn
    BY <1>1 DEF OutlookInv
  <2> QED BY <1>1, <2>1, <2>2, NewsSoFar, TheSumIsASum
<1>2. OutlookInv => Look!NewsAddsUp
  BY <1>1, Zenon DEF Look!NewsAddsUp, NewsOf, StampsOf
<1> QED BY <1>2, OutlookHolds, PTL

-----------------------------------------------------------------------------
(* How often the average rose *)

\* As many on both sides.
LEMMA SameNumber ==
  ASSUME NEW S, NEW T, IsFiniteSet(S), NEW f \in [S -> T],
         \A x, y \in S : f[x] = f[y] => x = y, \A t \in T : \E x \in S : f[x] = t
  PROVE  Look!Cardinality(T) = Look!Cardinality(S) /\ Look!Cardinality(S) \in Nat
<1>1. f \in Bijection(S, T)
  BY DEF Bijection, Injection, IsInjective, Surjection
<1>2. ExistsBijection(S, T)
  BY <1>1 DEF ExistsBijection
<1>3. Cardinality(T) = Cardinality(S) /\ Cardinality(S) \in Nat
  BY <1>2, FS_Bijection, FS_CardinalityType
<1>4. Look!Cardinality(T) = Cardinality(T) /\ Look!Cardinality(S) = Cardinality(S)
  BY Zenon DEF Look!Cardinality, Cardinality
<1> QED BY <1>3, <1>4

\* The snapshots with more games than any before them.
Played(rows) == {x \in rows : \A y \in rows : y.as_of < x.as_of => y.games_played < x.games_played}

GoesOn(rows, games, t) ==
  IF \E x \in rows : x.as_of = t /\ Look!CountsAsGame(games, x)
  THEN Append(games, CHOOSE x \in rows : x.as_of = t) ELSE games

KeptIs(f, rows) ==
  f = [t \in -1..LastInstant |-> IF t = -1 THEN <<>> ELSE GoesOn(rows, f[t - 1], t)]

TheKept(rows) == CHOOSE f : KeptIs(f, rows)

KeepsUpTo(f, rows, n) ==
  /\ f = [t \in -1..n |-> f[t]] /\ f[-1] = <<>>
  /\ \A t \in 0..n : f[t] = GoesOn(rows, f[t - 1], t)

\* Going through the snapshots of a player, one by one.
LEMMA KeepingExists ==
  ASSUME LookConstants, NEW rows
  PROVE  \E f : KeepsUpTo(f, rows, LastInstant)
<1> DEFINE T == {n \in Nat : \E f : KeepsUpTo(f, rows, n - 1)}
<1>1. 0 \in T
  <2>1. KeepsUpTo([t \in -1..-1 |-> <<>>], rows, 0 - 1)
    BY DEF KeepsUpTo
  <2> QED BY <2>1
<1>2. ASSUME NEW n \in Nat, n \in T PROVE n + 1 \in T
  <2>1. PICK f : KeepsUpTo(f, rows, n - 1)
    BY <1>2
  <2> DEFINE g == [t \in -1..n |-> IF t = n THEN GoesOn(rows, f[n - 1], n) ELSE f[t]]
  <2>2. g = [t \in -1..n |-> g[t]] /\ g[-1] = <<>>
    BY <2>1 DEF KeepsUpTo
  <2>3. ASSUME NEW t \in 0..n PROVE g[t] = GoesOn(rows, g[t - 1], t)
    <3>1. CASE t = n
      <4>1. g[t] = GoesOn(rows, f[n - 1], n) /\ g[t - 1] = f[n - 1]
        BY <3>1
      <4> QED BY <3>1, <4>1
    <3>2. CASE t # n
      <4>1. t \in 0..(n - 1) /\ g[t] = f[t] /\ g[t - 1] = f[t - 1]
        BY <3>2
      <4> HIDE DEF g
      <4> QED BY <2>1, <4>1 DEF KeepsUpTo
    <3> QED BY <3>1, <3>2
  <2> HIDE DEF g
  <2>4. KeepsUpTo(g, rows, n)
    BY <2>2, <2>3 DEF KeepsUpTo
  <2>5. (n + 1) - 1 = n
    OBVIOUS
  <2> QED BY <2>4, <2>5
<1>3. Nat \subseteq T
  <2> HIDE DEF T
  <2> QED BY <1>1, <1>2, SetInduction
<1>4. LastInstant + 1 \in T /\ (LastInstant + 1) - 1 = LastInstant
  BY <1>3, LookTypes
<1> QED BY <1>4

\* So the games that are kept are kept one by one.
LEMMA KeptGoesOn ==
  ASSUME LookConstants, NEW rows
  PROVE  /\ TheKept(rows)[-1] = <<>>
         /\ \A t \in Look!Instants : TheKept(rows)[t] = GoesOn(rows, TheKept(rows)[t - 1], t)
<1>1. PICK f : KeepsUpTo(f, rows, LastInstant)
  BY KeepingExists
<1>2. LastInstant \in Nat /\ Look!Instants = 0..LastInstant
  BY LookTypes DEF Look!Instants
<1>3. f = [t \in -1..LastInstant |-> IF t = -1 THEN <<>> ELSE GoesOn(rows, f[t - 1], t)]
  <2>1. \A t \in -1..LastInstant : f[t] = IF t = -1 THEN <<>> ELSE GoesOn(rows, f[t - 1], t)
    BY <1>1, <1>2 DEF KeepsUpTo
  <2>2. f = [t \in -1..LastInstant |-> f[t]]
    BY <1>1 DEF KeepsUpTo
  <2> QED BY <2>1, <2>2
<1>4. KeptIs(f, rows)
  BY <1>3 DEF KeptIs
<1> DEFINE h == TheKept(rows)
<1>5. KeptIs(h, rows)
  BY <1>4 DEF TheKept
<1> HIDE DEF h
<1> DEFINE C == [t \in -1..LastInstant |-> IF t = -1 THEN <<>> ELSE GoesOn(rows, h[t - 1], t)]
<1>6. \A t \in -1..LastInstant : C[t] = IF t = -1 THEN <<>> ELSE GoesOn(rows, h[t - 1], t)
  OBVIOUS
<1>7. h = C
  BY <1>5 DEF KeptIs
<1> HIDE DEF C
<1>8. h[-1] = <<>> /\ \A t \in Look!Instants : h[t] = GoesOn(rows, h[t - 1], t)
  BY <1>2, <1>6, <1>7
<1> QED BY <1>8 DEF h

PlayedBy(rows, t) == {x \in Played(rows) : x.as_of <= t}

\* A list of what was played by a moment, in turn.
Lists(q, rows, t) ==
  /\ q \in Seq(rows)
  /\ \A i \in 1..Len(q) : q[i] \in PlayedBy(rows, t)
  /\ \A i, j \in 1..Len(q) : i < j => q[i].as_of < q[j].as_of
  /\ \A x \in PlayedBy(rows, t) : \E i \in 1..Len(q) : q[i] = x
  /\ \A x \in rows : x.as_of <= t => Len(q) > 0 /\ x.games_played <= q[Len(q)].games_played

GameRows(rows) ==
  OneAMoment(rows) /\ \A x \in rows : x.games_played \in Int /\ x.fp_per_game \in Int

\* A snapshot more: it is in the list when it has more games than all before.
LEMMA ListGoesOn ==
  ASSUME LookConstants, NEW rows, GameRows(rows), NEW t \in Look!Instants, NEW q, Lists(q, rows, t - 1)
  PROVE  Lists(GoesOn(rows, q, t), rows, t)
<1>1. /\ t \in Nat /\ \A x \in rows : x.as_of \in Nat /\ x.games_played \in Int
      /\ \A x, y \in rows : x.as_of = y.as_of => x = y
  BY LookTypes DEF GameRows, OneAMoment
<1>2. q \in Seq(rows) /\ Len(q) \in Nat /\ \A i \in 1..Len(q) : q[i] \in rows
  BY DEF Lists
<1>3. CASE \A x \in rows : x.as_of # t
  <2>1. GoesOn(rows, q, t) = q
    BY <1>3 DEF GoesOn
  <2>2. \A x \in rows : x.as_of <= t <=> x.as_of <= t - 1
    BY <1>1, <1>3
  <2>3. PlayedBy(rows, t) = PlayedBy(rows, t - 1)
    BY <2>2 DEF PlayedBy, Played
  <2> QED BY <2>1, <2>2, <2>3 DEF Lists
<1>4. ASSUME NEW z \in rows, z.as_of = t PROVE Lists(GoesOn(rows, q, t), rows, t)
  <2>1. /\ (CHOOSE x \in rows : x.as_of = t) = z
        /\ \A x \in rows : x.as_of = t => x = z
    <3>1. \A x \in rows : x.as_of = t => x = z
      BY <1>1, <1>4
    <3> QED BY <1>4, <3>1
  <2>2. GoesOn(rows, q, t) = IF Look!CountsAsGame(q, z) THEN Append(q, z) ELSE q
    BY <1>4, <2>1 DEF GoesOn
  <2>3. Look!CountsAsGame(q, z) <=> q = <<>> \/ z.games_played > q[Len(q)].games_played
    BY DEF Look!CountsAsGame
  <2>4. \A x \in rows : x.as_of <= t <=> x.as_of <= t - 1 \/ x = z
    BY <1>1, <1>4, <2>1
  <2>e. q = <<>> <=> Len(q) = 0
    BY <1>2
  <2>5. CASE Look!CountsAsGame(q, z)
    <3> DEFINE r == Append(q, z)
    <3>1. /\ r \in Seq(rows) /\ Len(r) = Len(q) + 1
          /\ \A i \in 1..Len(q) : r[i] = q[i]
          /\ r[Len(q) + 1] = z
      BY <1>2, <1>4, AppendProperties
    <3> HIDE DEF r
    <3>2. z \in Played(rows)
      <4> SUFFICES ASSUME NEW y \in rows, y.as_of < z.as_of PROVE y.games_played < z.games_played
        BY DEF Played
      <4>1. y.as_of <= t - 1
        BY <1>1, <1>4
      <4>2. Len(q) > 0 /\ y.games_played <= q[Len(q)].games_played
        BY <4>1 DEF Lists
      <4>3. z.games_played > q[Len(q)].games_played /\ q[Len(q)] \in rows
        BY <1>2, <2>3, <2>5, <2>e, <4>2
      <4> QED BY <1>1, <4>2, <4>3
    <3>3. \A x : x \in PlayedBy(rows, t) <=> x \in PlayedBy(rows, t - 1) \/ x = z
      <4>1. \A x \in Played(rows) : x \in rows
        BY DEF Played
      <4> QED BY <1>1, <1>4, <2>4, <3>2, <4>1 DEF PlayedBy
    <3>4. \A i \in 1..Len(r) : i \in 1..Len(q) \/ i = Len(q) + 1
      BY <1>2, <3>1
    <3>5. \A i \in 1..Len(r) : r[i] \in PlayedBy(rows, t)
      BY <3>1, <3>3, <3>4 DEF Lists
    <3>6. ASSUME NEW i \in 1..Len(r), NEW j \in 1..Len(r), i < j PROVE r[i].as_of < r[j].as_of
      <4>1. i \in 1..Len(q)
        BY <1>2, <3>1, <3>6
      <4>2. q[i] \in rows /\ q[i].as_of <= t - 1
        BY <1>2, <4>1 DEF Lists, PlayedBy
      <4>3. CASE j \in 1..Len(q)
        BY <3>1, <3>6, <4>1, <4>3 DEF Lists
      <4>4. CASE j = Len(q) + 1
        BY <1>1, <1>4, <3>1, <4>1, <4>2, <4>4
      <4> QED BY <3>4, <4>3, <4>4
    <3>7. \A x \in PlayedBy(rows, t) : \E i \in 1..Len(r) : r[i] = x
      <4> SUFFICES ASSUME NEW x \in PlayedBy(rows, t) PROVE \E i \in 1..Len(r) : r[i] = x
        OBVIOUS
      <4>1. CASE x = z
        BY <1>2, <3>1, <4>1
      <4>2. CASE x # z
        <5>1. PICK i \in 1..Len(q) : q[i] = x
          BY <3>3, <4>2 DEF Lists
        <5>2. i \in 1..Len(r) /\ r[i] = x
          BY <1>2, <3>1, <5>1
        <5> QED BY <5>2
      <4> QED BY <4>1, <4>2
    <3>8. ASSUME NEW x \in rows, x.as_of <= t
          PROVE Len(r) > 0 /\ x.games_played <= r[Len(r)].games_played
      <4>1. Len(r) > 0 /\ r[Len(r)] = z
        BY <1>2, <3>1
      <4>2. CASE x = z
        BY <1>1, <4>1, <4>2
      <4>3. CASE x # z
        <5>1. x.as_of < z.as_of
          BY <1>1, <1>4, <2>4, <3>8, <4>3
        <5>2. x.games_played < z.games_played
          BY <3>2, <5>1 DEF Played
        <5> QED BY <1>1, <4>1, <5>2
      <4> QED BY <4>2, <4>3
    <3>9. Lists(r, rows, t)
      BY <3>1, <3>5, <3>6, <3>7, <3>8 DEF Lists
    <3> QED BY <2>2, <2>5, <3>9 DEF r
  <2>6. CASE ~Look!CountsAsGame(q, z)
    <3>1. Len(q) > 0 /\ ~(z.games_played > q[Len(q)].games_played)
      BY <1>2, <2>3, <2>6, <2>e
    <3> DEFINE last == q[Len(q)]
    <3>2. last \in rows /\ last.as_of <= t - 1 /\ last.as_of < z.as_of
      <4>1. last \in PlayedBy(rows, t - 1) /\ last \in rows
        BY <1>2, <3>1 DEF Lists
      <4> QED BY <1>1, <1>4, <4>1 DEF PlayedBy
    <3>3. z.games_played <= last.games_played
      BY <1>1, <1>4, <3>1, <3>2
    <3>4. z \notin Played(rows)
      BY <1>1, <3>2, <3>3 DEF Played
    <3>5. PlayedBy(rows, t) = PlayedBy(rows, t - 1)
      BY <2>4, <3>4 DEF PlayedBy, Played
    <3>6. \A x \in rows : x.as_of <= t => Len(q) > 0 /\ x.games_played <= q[Len(q)].games_played
      <4> HIDE DEF last
      <4> QED BY <2>4, <3>1, <3>3 DEF Lists, last
    <3> QED BY <2>2, <2>6, <3>5, <3>6 DEF Lists
  <2> QED BY <2>5, <2>6
<1> QED BY <1>3, <1>4

\* The list at the end.
LEMMA KeptLists ==
  ASSUME LookConstants, NEW rows, GameRows(rows)
  PROVE  Lists(TheKept(rows)[LastInstant], rows, LastInstant)
<1> DEFINE T == {n \in Nat : n <= LastInstant + 1 => Lists(TheKept(rows)[n - 1], rows, n - 1)}
<1>0. LastInstant \in Nat /\ Look!Instants = 0..LastInstant
  BY LookTypes DEF Look!Instants
<1>1. 0 \in T
  <2>1. TheKept(rows)[-1] = <<>>
    BY KeptGoesOn
  <2>2. \A x \in rows : x.as_of \in Nat
    BY DEF GameRows, OneAMoment
  <2>3. <<>> \in Seq(rows) /\ Len(<<>>) = 0
    OBVIOUS
  <2>4. Lists(<<>>, rows, -1)
    BY <2>2, <2>3 DEF Lists, PlayedBy, Played
  <2> QED BY <2>1, <2>4
<1>2. ASSUME NEW n \in Nat, n \in T PROVE n + 1 \in T
  <2> SUFFICES ASSUME n + 1 <= LastInstant + 1 PROVE Lists(TheKept(rows)[(n + 1) - 1], rows, (n + 1) - 1)
    OBVIOUS
  <2>1. n \in Look!Instants /\ (n + 1) - 1 = n
    BY <1>0
  <2>2. Lists(TheKept(rows)[n - 1], rows, n - 1)
    BY <1>0, <1>2
  <2>3. TheKept(rows)[n] = GoesOn(rows, TheKept(rows)[n - 1], n)
    BY <2>1, KeptGoesOn
  <2> QED BY <2>1, <2>2, <2>3, ListGoesOn
<1>3. Nat \subseteq T
  <2> HIDE DEF T
  <2> QED BY <1>1, <1>2, SetInduction
<1>4. LastInstant + 1 \in T /\ (LastInstant + 1) - 1 = LastInstant
  BY <1>0, <1>3
<1> QED BY <1>0, <1>4

ScoreOf(games) ==
  IF Len(games) < 2 THEN None
  ELSE <<Look!Cardinality({i \in 2..Len(games) : games[i].fp_per_game > games[i - 1].fp_per_game}),
         Len(games) - 1>>

NewerThan(rows, x) == {y \in Played(rows) : y.as_of > x.as_of}
OlderThan(rows, x) == {y \in Played(rows) : y.as_of < x.as_of}

Compared(rows) ==
  {x \in Played(rows) : /\ \E y \in Played(rows) : y.as_of < x.as_of
                        /\ Look!Cardinality(NewerThan(rows, x)) < HOTNESS_GAMES}

Rises(rows) == {x \in Compared(rows) : x.fp_per_game > Look!Newest(OlderThan(rows, x)).fp_per_game}

DefinedScore(rows) ==
  IF Compared(rows) = {} THEN None
  ELSE <<Look!Cardinality(Rises(rows)), Look!Cardinality(Compared(rows))>>

From(q) == Look!AtLeast(1, Len(q) - HOTNESS_GAMES)

\* The list of all games: what is newer, what is older, what is compared.
LEMMA TheList ==
  ASSUME LookConstants, NEW rows, GameRows(rows), NEW q, Lists(q, rows, LastInstant)
  PROVE  /\ Len(q) \in Nat /\ \A i \in 1..Len(q) : q[i] \in Played(rows) /\ q[i] \in rows
         /\ \A x \in Played(rows) : \E i \in 1..Len(q) : q[i] = x
         /\ \A i, j \in 1..Len(q) : q[i].as_of < q[j].as_of <=> i < j
         /\ \A i, j \in 1..Len(q) : q[i] = q[j] => i = j
<1>1. \A x \in rows : x.as_of \in Nat /\ x.as_of <= LastInstant
  BY LookTypes DEF GameRows, OneAMoment, Look!Instants
<1>2. \A x : x \in PlayedBy(rows, LastInstant) <=> x \in Played(rows)
  BY <1>1 DEF PlayedBy, Played
<1>3. Len(q) \in Nat /\ \A i \in 1..Len(q) : q[i] \in Played(rows) /\ q[i] \in rows
  BY <1>2 DEF Lists, Played
<1>4. \A x \in Played(rows) : \E i \in 1..Len(q) : q[i] = x
  BY <1>2 DEF Lists
<1>5. \A i, j \in 1..Len(q) : i < j => q[i].as_of < q[j].as_of
  BY DEF Lists
<1>6. ASSUME NEW i \in 1..Len(q), NEW j \in 1..Len(q) PROVE q[i].as_of < q[j].as_of <=> i < j
  <2>1. q[i].as_of \in Nat /\ q[j].as_of \in Nat
    BY <1>1, <1>3
  <2>2. CASE i < j
    BY <1>5, <2>2
  <2>3. CASE j < i
    <3>1. q[j].as_of < q[i].as_of
      BY <1>5, <2>3
    <3> QED BY <1>3, <2>1, <2>3, <3>1
  <2>4. CASE i = j
    BY <2>1, <2>4
  <2> QED BY <1>3, <2>2, <2>3, <2>4
<1>7. ASSUME NEW i \in 1..Len(q), NEW j \in 1..Len(q), q[i] = q[j] PROVE i = j
  <2>1. q[i].as_of \in Nat /\ q[j].as_of = q[i].as_of
    BY <1>1, <1>3, <1>7
  <2>2. ~(i < j) /\ ~(j < i)
    BY <1>6, <2>1
  <2> QED BY <1>3, <2>2
<1> QED BY <1>3, <1>4, <1>6, <1>7

\* After the j-th game come the others.
LEMMA NewerGames ==
  ASSUME LookConstants, NEW rows, GameRows(rows), NEW q, Lists(q, rows, LastInstant), NEW j \in 1..Len(q)
  PROVE  Look!Cardinality(NewerThan(rows, q[j])) = Len(q) - j
<1> DEFINE N == Len(q)
           S == (j + 1)..N
           T == NewerThan(rows, q[j])
           f == [i \in S |-> q[i]]
<1>1. /\ N \in Nat /\ \A i \in 1..N : q[i] \in Played(rows)
      /\ \A x \in Played(rows) : \E i \in 1..N : q[i] = x
      /\ \A a, b \in 1..N : q[a].as_of < q[b].as_of <=> a < b
      /\ \A a, b \in 1..N : q[a] = q[b] => a = b
  BY TheList
<1>0. \A x \in Played(rows) : x.as_of \in Nat
  BY DEF Played, GameRows, OneAMoment
<1>2. \A x \in Played(rows) : x \in T <=> q[j].as_of < x.as_of
  BY <1>0, <1>1 DEF NewerThan
<1>3. T \subseteq Played(rows)
  BY DEF NewerThan
<1> HIDE DEF N, T
<1>4. \A i \in S : i \in 1..N /\ j < i /\ f[i] = q[i]
  BY <1>1
<1>5. \A i \in 1..N : j < i => i \in S
  BY <1>1
<1>6. f \in [S -> T]
  BY <1>1, <1>2, <1>4 DEF N
<1>7. \A x, y \in S : f[x] = f[y] => x = y
  BY <1>1, <1>4
<1>8. \A t \in T : \E x \in S : f[x] = t
  <2> SUFFICES ASSUME NEW t \in T PROVE \E x \in S : f[x] = t
    OBVIOUS
  <2>1. PICK i \in 1..N : q[i] = t
    BY <1>1, <1>3
  <2>2. i \in S
    BY <1>1, <1>2, <1>3, <1>5, <2>1 DEF N
  <2> QED BY <1>4, <2>1, <2>2
<1>9. IsFiniteSet(S) /\ Cardinality(S) = N - j
  <2>1. j \in Nat /\ j <= N
    BY <1>1 DEF N
  <2>2. IsFiniteSet(S) /\ Cardinality(S) = IF j + 1 > N THEN 0 ELSE N - (j + 1) + 1
    BY <1>1, <2>1, FS_Interval
  <2> HIDE DEF S
  <2> QED BY <1>1, <2>1, <2>2
<1>10. Look!Cardinality(S) = Cardinality(S)
  BY Zenon DEF Look!Cardinality, Cardinality
<1>11. Look!Cardinality(T) = Look!Cardinality(S)
  <2> HIDE DEF S, f
  <2> QED BY <1>6, <1>7, <1>8, <1>9, SameNumber
<1> QED BY <1>9, <1>10, <1>11 DEF T, N

\* Before it comes the one before it.
LEMMA TheGameBefore ==
  ASSUME LookConstants, NEW rows, GameRows(rows), NEW q, Lists(q, rows, LastInstant),
         NEW j \in 2..Len(q)
  PROVE  Look!Newest(OlderThan(rows, q[j])) = q[j - 1]
<1> DEFINE N == Len(q)
           T == OlderThan(rows, q[j])
<1>1. /\ N \in Nat /\ \A i \in 1..N : q[i] \in Played(rows)
      /\ \A x \in Played(rows) : \E i \in 1..N : q[i] = x
      /\ \A a, b \in 1..N : q[a].as_of < q[b].as_of <=> a < b
  BY TheList
<1>0. \A x \in Played(rows) : x.as_of \in Nat
  BY DEF Played, GameRows, OneAMoment
<1>2. OneAMoment(T)
  BY DEF OlderThan, Played, GameRows, OneAMoment
<1>3. T = {y \in Played(rows) : y.as_of < q[j].as_of}
  BY DEF OlderThan
<1> HIDE DEF T
<1>4. j \in 1..N /\ j - 1 \in 1..N /\ j - 1 < j
  BY <1>1
<1>5. q[j - 1] \in T
  BY <1>1, <1>3, <1>4
<1>6. ASSUME NEW y \in T PROVE y.as_of <= q[j - 1].as_of
  <2>1. PICK i \in 1..N : q[i] = y
    BY <1>1, <1>3
  <2>2. i < j
    BY <1>1, <1>3, <1>4, <2>1
  <2>3. ~(j - 1 < i)
    BY <1>1, <1>4, <2>2
  <2>4. ~(q[j - 1].as_of < q[i].as_of)
    BY <1>1, <1>4, <2>3
  <2>5. q[j - 1] \in Played(rows) /\ y \in Played(rows)
    BY <1>1, <1>3, <1>4
  <2>6. q[j - 1].as_of \in Nat /\ y.as_of \in Nat
    BY <1>0, <2>5
  <2> HIDE DEF N
  <2> QED BY <2>1, <2>4, <2>6
<1> QED BY <1>2, <1>5, <1>6, TheNewest DEF T

\* The newest games, each compared with the one before.
LEMMA TheComparisons ==
  ASSUME LookConstants, NEW rows, GameRows(rows), NEW q, Lists(q, rows, LastInstant)
  PROVE  /\ From(q) \in Nat /\ From(q) >= 1
         /\ Compared(rows) = {q[j] : j \in (From(q) + 1)..Len(q)}
         /\ Rises(rows) = {q[j] : j \in {i \in (From(q) + 1)..Len(q) :
                                           q[i].fp_per_game > q[i - 1].fp_per_game}}
<1> DEFINE N == Len(q)
           lo == From(q)
           H == HOTNESS_GAMES
           A == {i \in (lo + 1)..N : q[i].fp_per_game > q[i - 1].fp_per_game}
<1>1. /\ N \in Nat /\ \A i \in 1..N : q[i] \in Played(rows)
      /\ \A x \in Played(rows) : \E i \in 1..N : q[i] = x
      /\ \A a, b \in 1..N : q[a].as_of < q[b].as_of <=> a < b
  BY TheList
<1>2. H \in Nat
  BY DEF LookConstants, Look!OutlookConstants
<1>3. lo \in Nat /\ lo >= 1 /\ \A j \in 1..N : j \in (lo + 1)..N <=> (j >= 2 /\ N - j < H)
  BY <1>1, <1>2 DEF From, Look!AtLeast
<1>4. \A j \in 1..N : Look!Cardinality(NewerThan(rows, q[j])) = N - j
  BY NewerGames
<1> HIDE DEF lo, N, H
<1>5. ASSUME NEW j \in 1..N PROVE (\E y \in Played(rows) : y.as_of < q[j].as_of) <=> j >= 2
  <2>1. CASE j >= 2
    <3>1. 1 \in 1..N /\ 1 < j
      BY <1>1, <2>1
    <3>2. q[1] \in Played(rows) /\ q[1].as_of < q[j].as_of
      BY <1>1, <3>1
    <3> QED BY <2>1, <3>2
  <2>2. CASE ~(j >= 2)
    <3>1. ASSUME NEW y \in Played(rows), y.as_of < q[j].as_of PROVE FALSE
      <4>1. PICK i \in 1..N : q[i] = y
        BY <1>1
      <4>2. i < j
        BY <1>1, <3>1, <4>1
      <4> QED BY <1>1, <2>2, <4>2
    <3> QED BY <2>2, <3>1
  <2> QED BY <2>1, <2>2
<1>6. ASSUME NEW j \in 1..N PROVE q[j] \in Compared(rows) <=> j \in (lo + 1)..N
  BY <1>1, <1>3, <1>4, <1>5 DEF Compared, H
<1>7. \A x \in Compared(rows) : \E j \in 1..N : q[j] = x
  BY <1>1 DEF Compared
<1>8. \A j \in (lo + 1)..N : j \in 1..N /\ j \in 2..N
  BY <1>1, <1>3
<1>9. Compared(rows) = {q[j] : j \in (lo + 1)..N}
  BY <1>6, <1>7, <1>8
<1>10. \A j \in (lo + 1)..N : Look!Newest(OlderThan(rows, q[j])) = q[j - 1]
  BY <1>8, TheGameBefore DEF N
<1>11. \A j \in (lo + 1)..N : q[j] \in Rises(rows) <=> j \in A
  BY <1>9, <1>10 DEF Rises
<1>12. Rises(rows) = {q[j] : j \in A}
  <2>1. \A x \in Rises(rows) : \E j \in (lo + 1)..N : q[j] = x
    BY <1>9 DEF Rises
  <2>2. \A j \in A : j \in (lo + 1)..N
    OBVIOUS
  <2> HIDE DEF A
  <2> QED BY <1>11, <2>1, <2>2
<1> QED BY <1>3, <1>9, <1>12 DEF lo, N

\* What the list counts is what the definition counts.
LEMMA TheScores ==
  ASSUME LookConstants, NEW rows, GameRows(rows), NEW q, Lists(q, rows, LastInstant)
  PROVE  ScoreOf(SubSeq(q, From(q), Len(q))) = DefinedScore(rows)
<1> DEFINE N == Len(q)
           lo == From(q)
           games == SubSeq(q, lo, N)
           n == Len(games)
           I == {i \in 2..n : games[i].fp_per_game > games[i - 1].fp_per_game}
           S == (lo + 1)..N
           A == {i \in S : q[i].fp_per_game > q[i - 1].fp_per_game}
<1>1. /\ N \in Nat /\ \A i \in 1..N : q[i] \in Played(rows) /\ q[i] \in rows
      /\ \A a, b \in 1..N : q[a] = q[b] => a = b
  BY TheList
<1>2. /\ lo \in Nat /\ lo >= 1
      /\ Compared(rows) = {q[j] : j \in S} /\ Rises(rows) = {q[j] : j \in A}
  BY TheComparisons
<1> HIDE DEF lo, N
<1>3. /\ n = IF lo <= N THEN N - lo + 1 ELSE 0
      /\ \A i \in 1..(N - lo + 1) : games[i] = q[lo + i - 1]
  <2>1. \A i \in lo..N : q[i] \in rows
    BY <1>1, <1>2
  <2> HIDE DEF games
  <2> QED BY <1>1, <1>2, <2>1, SubSeqProperties DEF games
<1> HIDE DEF games, n
<1>4. n \in Nat /\ (n < 2 <=> N <= lo) /\ (~(n < 2) => n - 1 = N - lo)
  BY <1>1, <1>2, <1>3
<1>5. IsFiniteSet(S) /\ Cardinality(S) = IF lo + 1 > N THEN 0 ELSE N - (lo + 1) + 1
  BY <1>1, <1>2, FS_Interval
<1>6. S = {} <=> N <= lo
  BY <1>1, <1>2
<1>7. \A i \in S : i \in 1..N
  BY <1>1, <1>2
<1>8. Look!Cardinality(Compared(rows)) = Look!Cardinality(S)
  <2> DEFINE f == [j \in S |-> q[j]]
  <2>1. f \in [S -> Compared(rows)] /\ \A x \in S : f[x] = q[x]
    BY <1>2
  <2>2. \A t \in Compared(rows) : \E x \in S : f[x] = t
    BY <1>2
  <2> HIDE DEF f, S
  <2>3. \A x, y \in S : f[x] = f[y] => x = y
    BY <1>1, <1>7, <2>1
  <2> QED BY <1>5, <2>1, <2>2, <2>3, SameNumber
<1>9. Look!Cardinality(S) = Cardinality(S)
  BY Zenon DEF Look!Cardinality, Cardinality
<1>10. IsFiniteSet(A)
  BY <1>5, FS_Subset
<1>11. Look!Cardinality(Rises(rows)) = Look!Cardinality(A)
  <2> DEFINE f == [j \in A |-> q[j]]
  <2>1. f \in [A -> Rises(rows)] /\ \A x \in A : f[x] = q[x]
    BY <1>2
  <2>2. \A t \in Rises(rows) : \E x \in A : f[x] = t
    BY <1>2
  <2>3. \A i \in A : i \in 1..N
    BY <1>7
  <2> HIDE DEF f, A
  <2>4. \A x, y \in A : f[x] = f[y] => x = y
    BY <1>1, <2>1, <2>3
  <2> QED BY <1>10, <2>1, <2>2, <2>4, SameNumber
<1>12. ASSUME ~(n < 2) PROVE Look!Cardinality(I) = Look!Cardinality(A)
  <2> DEFINE f == [j \in A |-> j - lo + 1]
  <2>0. lo <= N /\ n = N - lo + 1
    BY <1>1, <1>2, <1>3, <1>12
  <2>1. ASSUME NEW i \in 2..n
        PROVE /\ games[i] = q[i + lo - 1] /\ games[i - 1] = q[(i + lo - 1) - 1]
              /\ i + lo - 1 \in S
    <3>1. /\ i \in 1..(N - lo + 1) /\ i - 1 \in 1..(N - lo + 1)
          /\ lo + i - 1 = i + lo - 1 /\ lo + (i - 1) - 1 = (i + lo - 1) - 1
          /\ i + lo - 1 \in S
      BY <1>1, <1>2, <2>0
    <3> HIDE DEF S
    <3> QED BY <1>3, <3>1
  <2>2. ASSUME NEW j \in S
        PROVE j - lo + 1 \in 2..n /\ (j - lo + 1) + lo - 1 = j
    BY <1>1, <1>2, <2>0
  <2>3. ASSUME NEW j \in A PROVE f[j] \in I
    <3>1. j \in S /\ q[j].fp_per_game > q[j - 1].fp_per_game /\ f[j] = j - lo + 1
      OBVIOUS
    <3>2. games[j - lo + 1] = q[j] /\ games[(j - lo + 1) - 1] = q[j - 1]
      BY <2>1, <2>2, <3>1
    <3> HIDE DEF S, A, f
    <3> QED BY <2>2, <3>1, <3>2
  <2>4. ASSUME NEW i \in I PROVE i + lo - 1 \in A /\ f[i + lo - 1] = i
    <3>1. i \in 2..n /\ games[i].fp_per_game > games[i - 1].fp_per_game /\ i \in Int
      OBVIOUS
    <3>2. i + lo - 1 \in A
      BY <2>1, <3>1
    <3>3. (i + lo - 1) - lo + 1 = i
      BY <1>2, <3>1
    <3> QED BY <3>2, <3>3
  <2>5. f \in [A -> I]
    BY <2>3
  <2>6. \A x, y \in A : f[x] = f[y] => x = y
    BY <1>1, <1>2
  <2>7. \A t \in I : \E x \in A : f[x] = t
    BY <2>4
  <2> HIDE DEF f, A, I
  <2> QED BY <1>10, <2>5, <2>6, <2>7, SameNumber
<1>13. ScoreOf(games) = IF n < 2 THEN None ELSE <<Look!Cardinality(I), n - 1>>
  BY DEF ScoreOf, n
<1>14. CASE n < 2
  <2>1. Compared(rows) = {}
    BY <1>2, <1>4, <1>6, <1>14
  <2> QED BY <1>13, <1>14, <2>1 DEF DefinedScore, games, N, lo
<1>15. CASE ~(n < 2)
  <2>1. Compared(rows) # {} /\ Cardinality(S) = N - lo
    <3>1. ~(N <= lo)
      BY <1>4, <1>15
    <3>2. S # {}
      BY <1>6, <3>1
    <3>3. Cardinality(S) = N - lo
      <4> HIDE DEF S
      <4> QED BY <1>1, <1>2, <1>5, <3>1
    <3> HIDE DEF S
    <3> QED BY <1>2, <3>2, <3>3
  <2>2. Look!Cardinality(Compared(rows)) = n - 1
    <3> HIDE DEF S
    <3> QED BY <1>4, <1>8, <1>9, <1>15, <2>1
  <2>3. Look!Cardinality(Rises(rows)) = Look!Cardinality(I)
    <3> HIDE DEF I, A
    <3> QED BY <1>11, <1>12, <1>15
  <2>4. DefinedScore(rows) = <<Look!Cardinality(Rises(rows)), Look!Cardinality(Compared(rows))>>
    BY <2>1 DEF DefinedScore
  <2> HIDE DEF I
  <2> QED BY <1>13, <1>15, <2>2, <2>3, <2>4 DEF games, N, lo
<1> QED BY <1>14, <1>15

HotRows(p) ==
  {x \in Look!Of(p, Look!Newest({y \in snapshots : y.player = p}).season) : x.fp_per_game # None}

\* For every player.
LEMMA HotnessHolds ==
  ASSUME LookConstants, OutlookShape, InTurn, NEW p
  PROVE  Look!hotness_score(p) = Look!Hotness(p)
<1> DEFINE all == {x \in snapshots : x.player = p}
           rows == HotRows(p)
           q == TheKept(rows)[LastInstant]
<1>1. GameRows(rows)
  <2>1. OneAMoment(rows)
    <3>1. rows \subseteq all
      BY DEF HotRows, Look!Of
    <3>2. OneAMoment(all)
      BY RowsOfAPlayer
    <3> HIDE DEF all, rows
    <3> QED BY <3>1, <3>2, SomeOfThem
  <2>2. \A x \in rows : x \in Row /\ x.fp_per_game # None
    BY DEF HotRows, Look!Of, OutlookShape
  <2>3. \A x \in rows : x.games_played \in Int /\ x.fp_per_game \in Int
    BY <2>2 DEF Row, Amount
  <2> QED BY <2>1, <2>3 DEF GameRows
<1>2. Lists(q, rows, LastInstant)
  BY <1>1, KeptLists
<1>3. Look!hotness_score(p) = IF all = {} THEN None ELSE ScoreOf(SubSeq(q, From(q), Len(q)))
  BY Zenon DEF Look!hotness_score, ScoreOf, From, TheKept, KeptIs, GoesOn, HotRows
<1>4. Look!Hotness(p) = IF all = {} THEN None ELSE DefinedScore(rows)
  BY Zenon DEF Look!Hotness, DefinedScore, Rises, Compared, NewerThan, OlderThan, Played, HotRows
<1> HIDE DEF all, rows, q
<1> QED BY <1>1, <1>2, <1>3, <1>4, TheScores

\* The hotness of a player (hotness_score) is what its definition says: how often his
\* average rose over his newest games, whatever days without a game and whatever
\* corrections of his games downwards lie between.
THEOREM TheHotnessIsRight == LookConstants => (Look!Spec => []Look!HotnessIsRight)
<1> SUFFICES ASSUME LookConstants PROVE Look!Spec => []Look!HotnessIsRight
  OBVIOUS
<1>1. OutlookInv => Look!HotnessIsRight
  BY HotnessHolds DEF OutlookInv, Look!HotnessIsRight
<1> QED BY <1>1, OutlookHolds, PTL
=============================================================================
