--------------------------- MODULE SeasonCalendar ---------------------------
(***************************************************************************)
(* The calendar of one fantasy season: which moves it permits at an        *)
(* instant, and which free trades it has handed out by then.               *)
(*                                                                         *)
(* An instant is a natural number.  A date the administrator left empty is *)
(* NoDate.  A weekly grant is keyed by its local date in the code; weekly  *)
(* moments are seven days apart, so here the moment itself is the key.     *)
(***************************************************************************)
EXTENDS Integers, FiniteSets

CONSTANTS
  NoDate,              \* an empty date field
  SeasonOpenAt, SeasonCloseAt,
  SigningsOpenAt, SigningsCloseAt,
  TradeMarketOpensAt, TradeMarketClosesAt,
  WeeklyTradesFrom, WeeklyTradesPerWeek,
  Week,                \* seven days, in instants
  GrantIds,            \* primary keys of one-off TradeGrant rows, never reused
  GrantedAt,           \* [GrantIds -> instant]
  GrantTrades          \* [GrantIds -> number of trades]

OptionalDate == Nat \union {NoDate}

ASSUME CalendarType ==
  /\ NoDate \notin Nat
  /\ SeasonOpenAt \in Nat
  /\ SeasonCloseAt \in Nat
  /\ SigningsOpenAt \in OptionalDate
  /\ SigningsCloseAt \in OptionalDate
  /\ TradeMarketOpensAt \in OptionalDate
  /\ TradeMarketClosesAt \in OptionalDate
  /\ WeeklyTradesFrom \in OptionalDate
  /\ WeeklyTradesPerWeek \in Nat
  /\ Week \in Nat \ {0}
  /\ IsFiniteSet(GrantIds)
  /\ \A id \in GrantIds : id \notin Nat
  /\ GrantedAt \in [GrantIds -> Nat]
  /\ GrantTrades \in [GrantIds -> Nat \ {0}]

Given(date) == date # NoDate

(***************************************************************************)
(* What Season.clean demands of the dates before a form saves them.        *)
(***************************************************************************)
SeasonClean ==
  /\ SeasonOpenAt < SeasonCloseAt
  /\ Given(SigningsOpenAt) /\ Given(SigningsCloseAt) =>
       /\ SigningsOpenAt < SigningsCloseAt
       /\ SigningsCloseAt < SeasonOpenAt
  /\ Given(SigningsOpenAt) => SigningsOpenAt < SeasonOpenAt
  /\ Given(SigningsCloseAt) => SigningsCloseAt <= SeasonCloseAt

ASSUME SeasonIsClean == SeasonClean

TransactionsAllowed(now) ==
  /\ now <= SeasonCloseAt
  /\ Given(SigningsOpenAt) => now >= SigningsOpenAt
  /\ Given(SigningsCloseAt) => now < SigningsCloseAt

TradingAllowed(now) ==
  \/ ~Given(SigningsOpenAt) /\ ~Given(SigningsCloseAt)
  \/ SeasonOpenAt <= now /\ now <= SeasonCloseAt

TradeMarketOpen(now) ==
  /\ TradingAllowed(now)
  /\ Given(TradeMarketOpensAt) => now >= TradeMarketOpensAt
  /\ Given(TradeMarketClosesAt) => now < TradeMarketClosesAt

(***************************************************************************)
(* Every weekly moment up to `until` and the season's end.                 *)
(***************************************************************************)
WeeklyMoments(until) ==
  IF ~Given(WeeklyTradesFrom) \/ WeeklyTradesPerWeek = 0
  THEN {}
  ELSE {m \in 0..SeasonCloseAt :
          /\ m <= until
          /\ m >= WeeklyTradesFrom
          /\ (m - WeeklyTradesFrom) % Week = 0}

(***************************************************************************)
(* Every payout due by `until`, one-off grants among `live` first.  Only   *)
(* the key matters for paying a grant once; it outlives the grant itself.  *)
(***************************************************************************)
GrantDue == [key : GrantIds \union Nat, granted_at : Nat, trades : Nat]

TradeGrantSchedule(live, until) ==
  {[key |-> id, granted_at |-> GrantedAt[id], trades |-> GrantTrades[id]] :
     id \in {g \in live : GrantedAt[g] <= until}}
  \union
  {[key |-> m, granted_at |-> m, trades |-> WeeklyTradesPerWeek] :
     m \in WeeklyMoments(until)}

=============================================================================
