---------------------------- MODULE RosterLedger ----------------------------
(***************************************************************************)
(* What the write layer promises of a roster: its cash, its squad and its  *)
(* trade count change only together with its history.  Each change writes  *)
(* the payouts of grants never paid before and at most one move, whose     *)
(* whole effect the row of that move states.                               *)
(*                                                                         *)
(* There are no workers, locks, prices or dates here; module Roster has    *)
(* them, and implements this specification.                                *)
(***************************************************************************)
EXTENDS SeasonCalendar, RunningTotal

CONSTANTS
  Players, NoPlayer,
  NoPrice,             \* an empty price or salary column
  NoKey,               \* an empty grant_key
  StartingCash, StartingTrades,
  RosterSize           \* ROSTER_SIZE

ASSUME LedgerConstants ==
  /\ IsFiniteSet(Players)
  /\ NoPlayer \notin Players
  /\ NoPrice \notin Nat
  /\ NoKey \notin GrantIds \union Nat
  /\ StartingCash \in Nat
  /\ StartingTrades \in Nat
  /\ RosterSize \in Nat

VARIABLES
  cash,                \* Roster.cash
  trades_available,    \* Roster.trades_available
  squad,               \* players with an open RosterPlayer spell
  log                  \* the roster's Transaction rows, in commit order

roster == <<cash, trades_available, squad, log>>

-----------------------------------------------------------------------------
(* Transaction rows and what they add up to *)

OptionalPlayer == Players \union {NoPlayer}
OptionalPrice == Nat \union {NoPrice}

Kinds == {"BUY", "SELL", "TRADE", "BUY_TRADE", "SELL_TRADE", "GRANT_TRADE"}

Row == [kind : Kinds,
        player_in : OptionalPlayer, player_out : OptionalPlayer,
        price_in : OptionalPrice, price_out : OptionalPrice,
        cash_delta : Int, trades_granted : Nat,
        grant_key : GrantIds \union Nat \union {NoKey},
        occurred_at : Nat]

PaidKeys(rows) ==
  {rows[i].grant_key : i \in {j \in 1..Len(rows) : rows[j].kind = "GRANT_TRADE"}}

Granted(rows) == Total([i \in 1..Len(rows) |-> rows[i].trades_granted])

CashFlow(rows) == [i \in 1..Len(rows) |-> rows[i].cash_delta]

TradesMoved(row) ==
  CASE row.kind = "GRANT_TRADE"             -> row.trades_granted
    [] row.kind = "BUY_TRADE"               -> 1
    [] row.kind \in {"TRADE", "SELL_TRADE"} -> -1
    [] OTHER                                -> 0

TradeFlow(rows) == [i \in 1..Len(rows) |-> TradesMoved(rows[i])]

SpellFlow(rows, p) ==
  [i \in 1..Len(rows) |-> (IF rows[i].player_in = p THEN 1 ELSE 0)
                        - (IF rows[i].player_out = p THEN 1 ELSE 0)]

-----------------------------------------------------------------------------
(* The ways a roster may change *)

GrantRows ==
  {r \in Row : /\ r.kind = "GRANT_TRADE"
               /\ r.cash_delta = 0
               /\ r.player_in = NoPlayer
               /\ r.player_out = NoPlayer}

(***************************************************************************)
(* A side of a move has a price exactly if it has a player (Transaction's  *)
(* a_price_needs_the_player_it_paid_for, is_priced), and the cash a move   *)
(* of players shifts is the net of its prices.                             *)
(***************************************************************************)
Amount(price) == IF price = NoPrice THEN 0 ELSE price

MovesPlayer(row) == row.player_in # NoPlayer \/ row.player_out # NoPlayer

MoveRows ==
  {r \in Row : /\ r.kind # "GRANT_TRADE"
               /\ (r.player_in # NoPlayer) = (r.price_in # NoPrice)
               /\ (r.player_out # NoPlayer) = (r.price_out # NoPrice)
               /\ MovesPlayer(r) => /\ r.player_in # r.player_out
                                    /\ r.cash_delta = Amount(r.price_out) - Amount(r.price_in)}

(***************************************************************************)
(* A payout never repeats a grant: neither one already in the history nor  *)
(* one of its own.                                                         *)
(***************************************************************************)
IsPayout(rows, old) ==
  /\ rows \in Seq(GrantRows)
  /\ \A i, j \in 1..Len(rows) : rows[i].grant_key = rows[j].grant_key => i = j
  /\ \A i \in 1..Len(rows) : rows[i].grant_key \notin PaidKeys(old)

PayOut(rows) ==
  /\ IsPayout(rows, log)
  /\ log' = log \o rows
  /\ trades_available' = trades_available + Granted(rows)
  /\ UNCHANGED <<cash, squad>>

Move(rows, row) ==
  /\ IsPayout(rows, log)
  /\ row \in MoveRows
  /\ log' = Append(log \o rows, row)
  /\ cash' = cash + row.cash_delta
  /\ trades_available' = trades_available + Granted(rows) + TradesMoved(row)
  /\ row.player_out \in squad \union {NoPlayer}
  /\ row.player_in \notin squad
  /\ squad' = ((squad \ {row.player_out}) \union {row.player_in}) \ {NoPlayer}
  /\ cash' >= 0
  /\ trades_available' >= 0
  /\ Cardinality(squad') <= RosterSize

Written(upto) == SubSeq(log', Len(log) + 1, upto)

LedgerInit ==
  /\ cash = StartingCash
  /\ trades_available = StartingTrades
  /\ squad = {}
  /\ log = <<>>

LedgerNext ==
  \/ PayOut(Written(Len(log')))
  \/ /\ Len(log') > Len(log)
     /\ Move(Written(Len(log') - 1), log'[Len(log')])

LedgerSpec == LedgerInit /\ [][LedgerNext]_roster

-----------------------------------------------------------------------------
(* What follows for the history *)

(***************************************************************************)
(* Starting cash plus every cash flow in the history is the balance, at    *)
(* all times and whoever wrote what in between: the promise of the History *)
(* page (RosterHistoryView, "reconciles").                                 *)
(***************************************************************************)
CashReconciles == cash = StartingCash + Total(CashFlow(log))

(***************************************************************************)
(* The free-trade count is the history's too: what was granted and bought, *)
(* less what was sold and traded.                                          *)
(***************************************************************************)
TradesReconcile == trades_available = StartingTrades + Total(TradeFlow(log))

(***************************************************************************)
(* Membership and history never drift apart: a player is on the squad      *)
(* exactly if the history brought him in once more than it let him go.     *)
(***************************************************************************)
SquadReconciles ==
  \A p \in Players :
    Total(SpellFlow(log, p)) = IF p \in squad THEN 1 ELSE 0

(***************************************************************************)
(* No grant is paid twice, however many workers open the page at once.     *)
(***************************************************************************)
PaidOnce(rows) ==
  \A i, j \in 1..Len(rows) :
    /\ rows[i].kind = "GRANT_TRADE"
    /\ rows[j].kind = "GRANT_TRADE"
    /\ rows[i].grant_key = rows[j].grant_key
    => i = j

GrantsPaidOnce == PaidOnce(log)

(***************************************************************************)
(* Two requests cannot spend the same cash, the same trade or the last     *)
(* free spot on the squad.                                                 *)
(***************************************************************************)
WithinLimits ==
  /\ cash >= 0
  /\ trades_available >= 0
  /\ Cardinality(squad) <= RosterSize

=============================================================================
