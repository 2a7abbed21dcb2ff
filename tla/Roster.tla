------------------------------- MODULE Roster -------------------------------
(***************************************************************************)
(* One roster and everything that moves its cash, its squad and its        *)
(* trades: the write layer in fantasy/services.py together with the        *)
(* requests that call it.                                                  *)
(*                                                                         *)
(* A request is one database transaction (ATOMIC_REQUESTS).  It first      *)
(* fetches the roster, paying the free trades that have fallen due; it     *)
(* then reads prices without holding a lock; the service call locks the    *)
(* row, pays again, checks every rule and writes.  Several workers do this *)
(* at once.  A lock is held until its transaction ends, so the write and   *)
(* the commit are one step here; what is paid while fetching the roster    *)
(* stays uncommitted, in `paid`, until the request ends.                   *)
(*                                                                         *)
(* The clock moves on at every reading that stamps a move: no two moves    *)
(* share an instant.                                                       *)
(***************************************************************************)
EXTENDS RosterLedger

CONSTANTS
  Workers,             \* web workers, each serving one request at a time
  Salaries,            \* the salaries an import may report
  Nobody,              \* nobody holds the roster's row lock
  TradeBuyPrice, TradeSellPrice,
  Ops,                 \* the requests the owner makes
  LastInstant          \* bound: no move is begun, and no time passes, after it

AllOps == {"view", "buy", "sell", "trade", "buy_trade", "sell_trade"}

ASSUME RosterConstants ==
  /\ Salaries \subseteq Nat
  /\ Nobody \notin Workers
  /\ TradeBuyPrice \in Nat
  /\ TradeSellPrice \in Nat
  /\ Ops \subseteq AllOps
  /\ LastInstant \in Nat

VARIABLES
  now,                 \* the clock
  salary,              \* Player.current_salary
  grants,              \* the life of each one-off TradeGrant row
  lock,                \* the worker holding the roster's row, past its own step
  pc,                  \* how far each worker's request has come
  req,                 \* what it asks for, with the prices it has read
  seen,                \* the trade count of the roster it fetched
  at,                  \* the clock as it last read it
  paid                 \* the payouts it has written and not committed

season == <<now, salary, grants>>
requests == <<lock, pc, req, seen, at, paid>>
vars == <<season, roster, requests>>

-----------------------------------------------------------------------------
(* Requests, and the rows they write *)

Request == [op : AllOps,
            player_in : OptionalPlayer, player_out : OptionalPlayer,
            price_in : OptionalPrice, price_out : OptionalPrice]

\* A slip the type invariant catches: the player and his price change places.
AskSwapped(op, out, in, price_out, price_in) ==
  [op |-> op, player_in |-> price_in, player_out |-> out,
   price_in |-> in, price_out |-> price_out]

Ask(op, out, in, price_out, price_in) ==
  [op |-> op, player_in |-> in, player_out |-> out,
   price_in |-> price_in, price_out |-> price_out]

NoRequest == Ask("view", NoPlayer, NoPlayer, NoPrice, NoPrice)

\* Slips: a signing booked as income; a move whose price paid is not kept.
MoveRowUnsigned(kind, r, cash_delta, occurred_at) ==
  [kind |-> kind, player_in |-> r.player_in, player_out |-> r.player_out,
   price_in |-> r.price_in, price_out |-> r.price_out,
   cash_delta |-> IF cash_delta < 0 THEN -cash_delta ELSE cash_delta,
   trades_granted |-> 0, grant_key |-> NoKey, occurred_at |-> occurred_at]

MoveRowUnpriced(kind, r, cash_delta, occurred_at) ==
  [kind |-> kind, player_in |-> r.player_in, player_out |-> r.player_out,
   price_in |-> NoPrice, price_out |-> r.price_out,
   cash_delta |-> cash_delta, trades_granted |-> 0, grant_key |-> NoKey,
   occurred_at |-> occurred_at]

MoveRow(kind, r, cash_delta, occurred_at) ==
  [kind |-> kind, player_in |-> r.player_in, player_out |-> r.player_out,
   price_in |-> r.price_in, price_out |-> r.price_out,
   cash_delta |-> cash_delta, trades_granted |-> 0, grant_key |-> NoKey,
   occurred_at |-> occurred_at]

GrantRow(due) ==
  [kind |-> "GRANT_TRADE", player_in |-> NoPlayer, player_out |-> NoPlayer,
   price_in |-> NoPrice, price_out |-> NoPrice,
   cash_delta |-> 0, trades_granted |-> due.trades, grant_key |-> due.key,
   occurred_at |-> due.granted_at]

(***************************************************************************)
(* Free trades.  A roster is paid every grant whose key is not yet in its  *)
(* history, oldest first.                                                  *)
(***************************************************************************)
LiveGrants == {id \in GrantIds : grants[id] = "live"}

UnpaidGrants(rows, until) ==
  {due \in TradeGrantSchedule(LiveGrants, until) : due.key \notin PaidKeys(rows)}

Payouts(rows, until) ==
  LET due == UnpaidGrants(rows, until)
      ordered == {f \in [1..Cardinality(due) -> due] :
                    \A i, j \in 1..Cardinality(due) :
                      i < j => f[i] # f[j] /\ f[i].granted_at <= f[j].granted_at}
  IN {[i \in 1..Cardinality(due) |-> GrantRow(f[i])] : f \in ordered}

(***************************************************************************)
(* What this roster paid for a player: the price of his latest arrival.    *)
(***************************************************************************)
Arrivals(player) == {i \in 1..Len(log) : log[i].player_in = player}

\* A slip: the order of the lookup reversed.
EarliestArrival(player) ==
  CHOOSE i \in Arrivals(player) :
    \A j \in Arrivals(player) : log[i].occurred_at <= log[j].occurred_at

LatestArrival(player) ==
  CHOOSE i \in Arrivals(player) :
    \A j \in Arrivals(player) : log[j].occurred_at <= log[i].occurred_at

AmountPaidFor(player) ==
  IF Arrivals(player) # {} /\ log[LatestArrival(player)].price_in # NoPrice
  THEN log[LatestArrival(player)].price_in
  ELSE IF salary[player] # NoPrice THEN salary[player] ELSE 0

-----------------------------------------------------------------------------
(* Fetching the roster *)

LockFree(w) == lock \in {Nobody, w}

(***************************************************************************)
(* Every roster page starts with OwnRosterMixin.get_roster.  It fetches    *)
(* the row; reads the clock and compares the due grants with the history,  *)
(* still without a lock; and takes the lock only if something is unpaid.   *)
(***************************************************************************)
Begin(w, op, out, in) ==
  /\ pc[w] = "idle"
  /\ op = "view" \/ now < LastInstant
  /\ pc' = [pc EXCEPT ![w] = "fetched"]
  /\ req' = [req EXCEPT ![w] = Ask(op, out, in, NoPrice, NoPrice)]
  /\ seen' = [seen EXCEPT ![w] = trades_available]
  /\ UNCHANGED <<season, roster, lock, at, paid>>

CheckGrants(w) ==
  /\ pc[w] = "fetched"
  /\ pc' = [pc EXCEPT ![w] =
              IF UnpaidGrants(log, now) = {} THEN "open" ELSE "paying"]
  /\ at' = [at EXCEPT ![w] = now]
  /\ UNCHANGED <<season, roster, lock, req, seen, paid>>

Arrive(w) ==
  \/ \E op \in Ops \cap {"view", "buy_trade", "sell_trade"} :
       Begin(w, op, NoPlayer, NoPlayer)
  \/ /\ "buy" \in Ops
     /\ \E p \in Players : Begin(w, "buy", NoPlayer, p)
  \/ /\ "sell" \in Ops
     /\ \E p \in Players : Begin(w, "sell", p, NoPlayer)
  \/ /\ "trade" \in Ops
     /\ \E p, q \in Players : Begin(w, "trade", p, q)

(***************************************************************************)
(* The history is read again under the lock: another worker may have paid  *)
(* in between.  The rows stay in this transaction, and so does the lock.   *)
(***************************************************************************)
PayOnAccess(w) ==
  /\ pc[w] = "paying"
  /\ LockFree(w)
  /\ lock' = w
  /\ pc' = [pc EXCEPT ![w] = "open"]
  /\ \E rows \in Payouts(log, at[w]) :
       /\ paid' = [paid EXCEPT ![w] = rows]
       /\ seen' = [seen EXCEPT ![w] = trades_available + Granted(rows)]
  /\ UNCHANGED <<season, roster, req, at>>

-----------------------------------------------------------------------------
(* Reading prices, before the service takes the lock *)

(***************************************************************************)
(* The trade dialog only prices a swap of a squad player for another one,  *)
(* and only if the roster it fetched had a trade left.                     *)
(***************************************************************************)
CanQuote(w) ==
  LET r == req[w] IN
  CASE r.op = "buy"   -> salary[r.player_in] # NoPrice
    [] r.op = "trade" -> /\ seen[w] > 0
                         /\ r.player_out \in squad
                         /\ r.player_in \notin squad
                         /\ salary[r.player_out] # NoPrice
                         /\ salary[r.player_in] # NoPrice
    [] r.op = "view"  -> FALSE
    [] OTHER          -> TRUE

PriceIn(r) == IF r.op \in {"buy", "trade"} THEN salary[r.player_in] ELSE NoPrice

PriceOut(r) == CASE r.op = "sell"  -> AmountPaidFor(r.player_out)
                 [] r.op = "trade" -> salary[r.player_out]
                 [] OTHER          -> NoPrice

Quote(w) ==
  LET r == req[w] IN
  /\ pc[w] = "open"
  /\ CanQuote(w)
  /\ now' = now + 1
  /\ pc' = [pc EXCEPT ![w] = "quoted"]
  /\ req' = [req EXCEPT ![w] =
               Ask(r.op, r.player_out, r.player_in, PriceOut(r), PriceIn(r))]
  /\ at' = [at EXCEPT ![w] = now]
  /\ seen' = [seen EXCEPT ![w] = 0]
  /\ UNCHANGED <<salary, grants, roster, lock, paid>>

(***************************************************************************)
(* A transaction that ends gives the lock back.                            *)
(***************************************************************************)
End(w) ==
  /\ lock' = IF lock = w THEN Nobody ELSE lock
  /\ pc' = [pc EXCEPT ![w] = "idle"]
  /\ req' = [req EXCEPT ![w] = NoRequest]
  /\ seen' = [seen EXCEPT ![w] = 0]
  /\ at' = [at EXCEPT ![w] = 0]
  /\ paid' = [paid EXCEPT ![w] = <<>>]

\* A slip: the count is written back as it was fetched, without the payout.
TradesFetched(w) == trades_available

TradesHeld(w) == trades_available + Granted(paid[w])

\* A slip: a page that only looks rolls back what it paid.
RollBackPaid(w) ==
  /\ End(w)
  /\ UNCHANGED <<season, roster>>

(***************************************************************************)
(* The request ends without a move: a page was only looked at, or the view *)
(* found nothing to do.  What was paid while fetching is committed.        *)
(***************************************************************************)
CommitPaid(w) ==
  /\ log' = log \o paid[w]
  /\ trades_available' = TradesHeld(w)
  /\ End(w)
  /\ UNCHANGED <<season, cash, squad>>

Leave(w) ==
  /\ pc[w] = "open"
  /\ ~CanQuote(w)
  /\ CommitPaid(w)

-----------------------------------------------------------------------------
(* The service call: lock, pay what is due now, check, write *)

Locks(w, op) == pc[w] = "quoted" /\ req[w].op = op /\ LockFree(w)

\* Slips: forgetting what this request paid; paying up to a time read earlier.
DueForgettingPaid(w) == Payouts(log, now)

DueWhenRead(w) == Payouts(log \o paid[w], at[w])

DueNow(w) == Payouts(log \o paid[w], now)

Record(w, rows, kind, cash_delta) ==
  /\ log' = Append(log \o paid[w] \o rows, MoveRow(kind, req[w], cash_delta, at[w]))
  /\ End(w)
  /\ UNCHANGED season

\* Slips: no look at the cash; the window checked at a time read earlier.
CanBuyOnCredit(w) ==
  LET r == req[w] IN
  /\ TransactionsAllowed(now)
  /\ r.player_in \notin squad
  /\ Cardinality(squad) < RosterSize

CanBuyWhenRead(w) ==
  LET r == req[w] IN
  /\ TransactionsAllowed(at[w])
  /\ r.price_in <= cash
  /\ r.player_in \notin squad
  /\ Cardinality(squad) < RosterSize

CanBuy(w) ==
  LET r == req[w] IN
  /\ TransactionsAllowed(now)
  /\ r.price_in <= cash
  /\ r.player_in \notin squad
  /\ Cardinality(squad) < RosterSize

Buy(w) ==
  LET r == req[w] IN
  /\ Locks(w, "buy")
  /\ CanBuy(w)
  /\ squad' = squad \union {r.player_in}
  /\ cash' = cash - r.price_in
  /\ \E rows \in DueNow(w) :
       /\ trades_available' = TradesHeld(w) + Granted(rows)
       /\ Record(w, rows, "BUY", -r.price_in)

\* A slip: the open membership is not looked up again under the lock.
CanSellUnchecked(w) == TransactionsAllowed(now)

CanSell(w) ==
  /\ TransactionsAllowed(now)
  /\ req[w].player_out \in squad

Sell(w) ==
  LET r == req[w] IN
  /\ Locks(w, "sell")
  /\ CanSell(w)
  /\ squad' = squad \ {r.player_out}
  /\ cash' = cash + r.price_out
  /\ \E rows \in DueNow(w) :
       /\ trades_available' = TradesHeld(w) + Granted(rows)
       /\ Record(w, rows, "SELL", r.price_out)

CanTrade(w, trades) ==
  LET r == req[w] IN
  /\ TradingAllowed(now)
  /\ trades > 0
  /\ r.player_out # r.player_in
  /\ r.player_out \in squad
  /\ r.player_in \notin squad
  /\ cash + r.price_out - r.price_in >= 0

Trade(w) ==
  LET r == req[w] IN
  /\ Locks(w, "trade")
  /\ \E rows \in DueNow(w) :
       /\ CanTrade(w, TradesHeld(w) + Granted(rows))
       /\ squad' = (squad \ {r.player_out}) \union {r.player_in}
       /\ cash' = cash + (r.price_out - r.price_in)
       /\ trades_available' = TradesHeld(w) + Granted(rows) - 1
       /\ Record(w, rows, "TRADE", r.price_out - r.price_in)

CanBuyTrade == TradeMarketOpen(now) /\ cash >= TradeBuyPrice

BuyTrade(w) ==
  /\ Locks(w, "buy_trade")
  /\ CanBuyTrade
  /\ cash' = cash - TradeBuyPrice
  /\ UNCHANGED squad
  /\ \E rows \in DueNow(w) :
       /\ trades_available' = TradesHeld(w) + Granted(rows) + 1
       /\ Record(w, rows, "BUY_TRADE", -TradeBuyPrice)

CanSellTrade(trades) == TradeMarketOpen(now) /\ trades > 0

SellTrade(w) ==
  /\ Locks(w, "sell_trade")
  /\ UNCHANGED squad
  /\ \E rows \in DueNow(w) :
       /\ CanSellTrade(TradesHeld(w) + Granted(rows))
       /\ cash' = cash + TradeSellPrice
       /\ trades_available' = TradesHeld(w) + Granted(rows) - 1
       /\ Record(w, rows, "SELL_TRADE", TradeSellPrice)

(***************************************************************************)
(* A ValidationError rolls the service call back, the payout under its     *)
(* lock included; the view catches it and the request still commits.       *)
(***************************************************************************)
Allowed(w, rows) ==
  LET trades == TradesHeld(w) + Granted(rows)
  IN CASE req[w].op = "buy"        -> CanBuy(w)
       [] req[w].op = "sell"       -> CanSell(w)
       [] req[w].op = "trade"      -> CanTrade(w, trades)
       [] req[w].op = "buy_trade"  -> CanBuyTrade
       [] req[w].op = "sell_trade" -> CanSellTrade(trades)

Refuse(w) ==
  /\ Locks(w, req[w].op)
  /\ \E rows \in DueNow(w) : ~Allowed(w, rows)
  /\ CommitPaid(w)

(***************************************************************************)
(* A killed worker loses its transaction: lock, payouts and all.           *)
(***************************************************************************)
Crash(w) ==
  /\ pc[w] # "idle"
  /\ End(w)
  /\ UNCHANGED <<season, roster>>

-----------------------------------------------------------------------------
(* The rest of the site: time, imports and the administrator's calendar *)

Tick ==
  /\ now < LastInstant
  /\ now' = now + 1
  /\ UNCHANGED <<salary, grants, roster, requests>>

Reprice(p, s) ==
  /\ salary[p] # s
  /\ salary' = [salary EXCEPT ![p] = s]
  /\ UNCHANGED <<now, grants, roster, requests>>

AddGrant(id) ==
  /\ grants[id] = "unwritten"
  /\ grants' = [grants EXCEPT ![id] = "live"]
  /\ UNCHANGED <<now, salary, roster, requests>>

RemoveGrant(id) ==
  /\ grants[id] = "live"
  /\ grants' = [grants EXCEPT ![id] = "deleted"]
  /\ UNCHANGED <<now, salary, roster, requests>>

-----------------------------------------------------------------------------
Init ==
  /\ now = 0
  /\ salary \in [Players -> Salaries \union {NoPrice}]
  /\ grants = [id \in GrantIds |-> "unwritten"]
  /\ LedgerInit
  /\ lock = Nobody
  /\ pc = [w \in Workers |-> "idle"]
  /\ req = [w \in Workers |-> NoRequest]
  /\ seen = [w \in Workers |-> 0]
  /\ at = [w \in Workers |-> 0]
  /\ paid = [w \in Workers |-> <<>>]

Service(w) ==
  \/ Buy(w) \/ Sell(w) \/ Trade(w) \/ BuyTrade(w) \/ SellTrade(w) \/ Refuse(w)

Step(w) ==
  \/ Arrive(w) \/ CheckGrants(w) \/ PayOnAccess(w) \/ Quote(w) \/ Leave(w) \/ Service(w) \/ Crash(w)

Environment ==
  \/ Tick
  \/ \E p \in Players, s \in Salaries : Reprice(p, s)
  \/ \E id \in GrantIds : AddGrant(id) \/ RemoveGrant(id)

Next == Environment \/ \E w \in Workers : Step(w)

Spec == Init /\ [][Next]_vars

(***************************************************************************)
(* The server runs every request it accepted; PostgreSQL queues those that *)
(* wait for a row lock, so each gets it in the end; the owner keeps coming *)
(* back to look; and a worker that is killed now and then is not killed at *)
(* the same line every time.                                               *)
(***************************************************************************)
Fairness ==
  \A w \in Workers :
    /\ SF_vars(Begin(w, "view", NoPlayer, NoPlayer))
    /\ SF_vars(CheckGrants(w))
    /\ SF_vars(PayOnAccess(w))
    /\ SF_vars(Quote(w) \/ Leave(w))
    /\ SF_vars(Service(w))

FairSpec == Spec /\ Fairness

-----------------------------------------------------------------------------
(* Properties *)

TypeOK ==
  /\ now \in Nat
  /\ salary \in [Players -> OptionalPrice]
  /\ grants \in [GrantIds -> {"unwritten", "live", "deleted"}]
  /\ cash \in Int
  /\ trades_available \in Int
  /\ squad \in SUBSET Players
  /\ log \in Seq(Row)
  /\ lock \in Workers \union {Nobody}
  /\ pc \in [Workers -> {"idle", "fetched", "paying", "open", "quoted"}]
  /\ req \in [Workers -> Request]
  /\ seen \in [Workers -> Int]
  /\ at \in [Workers -> Nat]
  /\ paid \in [Workers -> Seq(Row)]

(***************************************************************************)
(* Only the worker holding the lock has payouts that are not committed;    *)
(* they repeat nothing in the history, which nobody else can extend        *)
(* meanwhile; and a move about to be written has both its prices.          *)
(***************************************************************************)
Stamped(rows, t) == \A i \in 1..Len(rows) : rows[i].occurred_at <= t

HistoryInOrder ==
  /\ Stamped(log, now)
  /\ \A i \in 1..Len(log) : log[i].player_in # NoPlayer => log[i].price_in # NoPrice

WellFormed(r) ==
  /\ (r.player_in \in Players) = (r.op \in {"buy", "trade"})
  /\ (r.player_out \in Players) = (r.op \in {"sell", "trade"})

Priced(r) ==
  /\ (r.price_in \in Nat) = (r.player_in \in Players)
  /\ (r.price_out \in Nat) = (r.player_out \in Players)

RequestInOrder(w) ==
  /\ at[w] <= now
  /\ IsPayout(paid[w], log) /\ Stamped(paid[w], now)
  /\ lock # w => paid[w] = <<>>
  /\ pc[w] = "idle" => lock # w
  /\ WellFormed(req[w])
  /\ pc[w] = "quoted" => Priced(req[w])

RequestsInOrder == HistoryInOrder /\ \A w \in Workers : RequestInOrder(w)

(***************************************************************************)
(* Outside the signing window a roster is frozen in size, not in shape:    *)
(* its squad changes only by a one-for-one trade, also when a request      *)
(* waited for the lock while the window closed.                            *)
(***************************************************************************)
FrozenInSize ==
  [][~TransactionsAllowed(now) /\ squad' # squad =>
       /\ Cardinality(squad') = Cardinality(squad)
       /\ log'[Len(log')].kind = "TRADE"]_vars

(***************************************************************************)
(* Cash changes hands without a player only inside the trade market.       *)
(***************************************************************************)
MarketOnly ==
  [][cash' # cash /\ squad' = squad => TradeMarketOpen(now)]_vars

(***************************************************************************)
(* A move is never decided on a trade count that misses a grant already    *)
(* due: after any move every due grant is in the history.                  *)
(***************************************************************************)
CountIsCurrent ==
  [][log' # log /\ log'[Len(log')].kind # "GRANT_TRADE" =>
       UnpaidGrants(log', now) = {}]_vars

(***************************************************************************)
(* A season with both signing dates never permits signing and trading at   *)
(* the same instant.                                                       *)
(***************************************************************************)
OneWindowAtATime ==
  Given(SigningsOpenAt) /\ Given(SigningsCloseAt) =>
    ~(TransactionsAllowed(now) /\ TradingAllowed(now))

(***************************************************************************)
(* Releasing a player refunds exactly what his last arrival cost.          *)
(***************************************************************************)
ArrivalsBefore(n, player) == {i \in Arrivals(player) : i < n}

RefundsExact ==
  \A n \in 1..Len(log) : log[n].kind = "SELL" =>
    \E i \in ArrivalsBefore(n, log[n].player_out) :
      /\ \A j \in ArrivalsBefore(n, log[n].player_out) : j <= i
      /\ log[n].price_out = log[i].price_in

(***************************************************************************)
(* Every request ends: nobody waits for the roster's lock for ever.        *)
(***************************************************************************)
RequestsEnd == \A w \in Workers : pc[w] # "idle" ~> pc[w] = "idle"

(***************************************************************************)
(* A grant that has fallen due reaches a roster whose owner keeps looking, *)
(* unless the administrator withdraws it first.                            *)
(***************************************************************************)
Due(key) == \E due \in TradeGrantSchedule(LiveGrants, now) : due.key = key

GrantsArrive ==
  \A key \in GrantIds \union WeeklyMoments(LastInstant) :
    Due(key) ~> (key \in PaidKeys(log) \/ ~Due(key))

=============================================================================
