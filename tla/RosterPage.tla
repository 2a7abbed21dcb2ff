----------------------------- MODULE RosterPage -----------------------------
(***************************************************************************)
(* What the pages of a roster offer its owner: the build page with its     *)
(* market, the box on a player's page and the trade dialog.  They decide   *)
(* in fantasy/views.py and in the templates what is worth a button; the    *)
(* write layer (module Roster) decides again what is allowed.              *)
(*                                                                         *)
(* A page is rendered in the request that fetched the roster, so after its *)
(* due grants were paid: `trades` is the count it then shows.              *)
(***************************************************************************)
EXTENDS Roster

CONSTANTS
  Position,                \* Player.position
  MINIMUM_BY_POSITION,
  Active                   \* Player.is_active: those the source still lists

RosterPageConstants ==
  /\ Position \in [Players -> DOMAIN MINIMUM_BY_POSITION]
  /\ \A pos \in DOMAIN MINIMUM_BY_POSITION : MINIMUM_BY_POSITION[pos] \in Nat
  /\ Active \subseteq Players

-----------------------------------------------------------------------------
(* The squad against the rules *)

Positions == DOMAIN MINIMUM_BY_POSITION

PositionCounts(players) ==
  [pos \in Positions |-> Cardinality({p \in players : Position[p] = pos})]

Shortfalls(counts) ==
  {[position |-> pos, short |-> MINIMUM_BY_POSITION[pos] - counts[pos]] :
     pos \in {q \in Positions : counts[q] < MINIMUM_BY_POSITION[q]}}

IsFull == Cardinality(squad) >= RosterSize

IsComplete ==
  /\ Shortfalls(PositionCounts(squad)) = {}
  /\ Cardinality(squad) = RosterSize

-----------------------------------------------------------------------------
(* Why trades, or the buying and selling of trades, are closed *)

TradeUnavailableReason ==
  IF TradingAllowed(now) THEN "none"
  ELSE IF now < SeasonOpenAt THEN "season not started"
  ELSE "season ended"

\* A slip: no look at the clock.
MarketReasonByDate ==
  IF TradeMarketOpen(now) THEN "none"
  ELSE IF ~TradingAllowed(now) THEN "season not live"
  ELSE IF Given(TradeMarketOpensAt) THEN "market not open yet"
  ELSE "market closed"

TradeMarketClosedReason ==
  IF TradeMarketOpen(now) THEN "none"
  ELSE IF ~TradingAllowed(now) THEN "season not live"
  ELSE IF Given(TradeMarketOpensAt) /\ now < TradeMarketOpensAt THEN "market not open yet"
  ELSE "market closed"

\* Every payout of the season, and the first of them still to come.
Schedule ==
  UNION {TradeGrantSchedule(LiveGrants, until) :
           until \in {SeasonCloseAt} \union {GrantedAt[id] : id \in GrantIds}}

\* A slip: a grant of this very moment is still announced.
NextTradeGrantOrNow ==
  LET to_come == {due \in Schedule : due.granted_at >= now} IN
  {due \in to_come : \A other \in to_come : due.granted_at <= other.granted_at}

NextTradeGrant ==
  LET to_come == {due \in Schedule : due.granted_at > now} IN
  {due \in to_come : \A other \in to_come : due.granted_at <= other.granted_at}

-----------------------------------------------------------------------------
(* The build page *)

Market == {p \in Active \ squad : salary[p] # NoPrice}

Affordable(budget) == {p \in Market : salary[p] <= budget}

SigningsDeadline ==
  CASE Given(SigningsOpenAt) /\ now < SigningsOpenAt -> SigningsOpenAt
    [] /\ TransactionsAllowed(now)
       /\ Given(SigningsCloseAt) /\ now < SigningsCloseAt -> SigningsCloseAt
    [] OTHER -> NoDate

BuildContext(trades) ==
  LET market_closed == IF TradeUnavailableReason = "none"
                       THEN TradeMarketClosedReason ELSE TradeUnavailableReason IN
  [available         |-> Market,
   affordable        |-> Affordable(cash),
   signings_open     |-> TransactionsAllowed(now),
   trading_allowed   |-> TradingAllowed(now),
   has_trades        |-> trades > 0,
   can_buy_trade     |-> market_closed = "none" /\ cash >= TradeBuyPrice,
   can_sell_trade    |-> market_closed = "none" /\ trades > 0,
   trade_market_note |-> market_closed,
   deadline          |-> SigningsDeadline,
   next_trade_grant  |-> NextTradeGrant]

\* A row of the market has a button to sign the player, or is "Full", "Too dear" or
\* "Closed"; a row of the squad has one to release him.
SignButton(page, p) ==
  page.signings_open /\ ~IsComplete /\ p \in page.affordable

ReleaseButton(page, p) == page.signings_open /\ p \in squad

-----------------------------------------------------------------------------
(* The box on a player's page *)

\* A slip: the roster that can just pay him is told it cannot.
RosterOptionStrict(p) ==
  IF p \in squad THEN "on_roster"
  ELSE IF TransactionsAllowed(now)
  THEN IF salary[p] = NoPrice \/ IsFull \/ salary[p] >= cash THEN "blocked" ELSE "sign"
  ELSE IF TradingAllowed(now) THEN "trade"
  ELSE "closed"

RosterOption(p) ==
  IF p \in squad THEN "on_roster"
  ELSE IF TransactionsAllowed(now)
  THEN IF salary[p] = NoPrice \/ IsFull \/ salary[p] > cash THEN "blocked" ELSE "sign"
  ELSE IF TradingAllowed(now) THEN "trade"
  ELSE "closed"

-----------------------------------------------------------------------------
(* The trade dialog *)

CurrentSalary(p) == IF p = NoPlayer \/ salary[p] = NoPrice THEN 0 ELSE salary[p]

CountsAfter(out, in) ==
  LET counts == PositionCounts(squad) IN
  [pos \in Positions |->
     counts[pos] - (IF out # NoPlayer /\ Position[out] = pos THEN 1 ELSE 0)
                 + (IF in # NoPlayer /\ Position[in] = pos THEN 1 ELSE 0)]

\* A slip: what the outgoing player frees up is not counted.
TradePreviewInHand(out, in, trades) ==
  [affordable |-> cash - CurrentSalary(in) >= 0,
   has_trades |-> trades > 0,
   budget     |-> cash + CurrentSalary(out),
   breaks     |-> Shortfalls(CountsAfter(out, in)) \ Shortfalls(PositionCounts(squad)),
   ready      |-> out # NoPlayer /\ in # NoPlayer]

TradePreview(out, in, trades) ==
  [affordable |-> cash + (CurrentSalary(out) - CurrentSalary(in)) >= 0,
   has_trades |-> trades > 0,
   budget     |-> cash + CurrentSalary(out),
   breaks     |-> Shortfalls(CountsAfter(out, in)) \ Shortfalls(PositionCounts(squad)),
   ready      |-> out # NoPlayer /\ in # NoPlayer]

\* The list of who may come in flags those who leave a position short.
FlagMinimumBreaks(out, in) ==
  LET after == CountsAfter(out, in) IN
  \E pos \in Positions :
    after[pos] < MINIMUM_BY_POSITION[pos] /\ after[pos] < PositionCounts(squad)[pos]

\* A player is dropped from the dialog when he is not where the choice says.
TradeDialog(out, in, trades) ==
  LET player_out == IF out \in squad THEN out ELSE NoPlayer
      player_in  == IF in \in squad THEN NoPlayer ELSE in
      preview    == TradePreview(player_out, player_in, trades)
  IN [preview       |-> preview,
      available     |-> Market,
      affordable    |-> Affordable(preview.budget),
      flagged       |-> IF player_out = NoPlayer THEN {}
                        ELSE {p \in Market : FlagMinimumBreaks(player_out, p)},
      can_buy_trade |-> TradeMarketOpen(now) /\ cash >= TradeBuyPrice]

\* The dialog is opened from pages that link to it while trading is allowed.
ExecuteButton(out, in, trades) ==
  LET preview == TradeDialog(out, in, trades).preview IN
  TradingAllowed(now) /\ preview.ready /\ preview.affordable /\ preview.has_trades

-----------------------------------------------------------------------------
(* Properties *)

(***************************************************************************)
(* The pages and the write layer decide separately and agree, but for two  *)
(* things.  The market goes by whether the squad is complete: in a full    *)
(* roster that misses a position it still has the button, and the service  *)
(* refuses.  The dialog counts a player without a price as zero: it has    *)
(* the button, and the confirm step refuses.                               *)
(***************************************************************************)
SignInVain(page, p) ==
  IsFull /\ ~IsComplete /\ page.signings_open /\ p \in page.affordable

HasPrices(r) == salary[r.player_out] # NoPrice /\ salary[r.player_in] # NoPrice

\* A request with its prices read, which the service is about to judge.
OfferAgrees(w, trades) ==
  LET r == req[w]
      page == BuildContext(trades)
  IN CASE r.op = "buy" ->
            /\ (RosterOption(r.player_in) = "sign") = CanBuy(w)
            /\ r.player_in \in Active =>
                 SignButton(page, r.player_in) = (CanBuy(w) \/ SignInVain(page, r.player_in))
       [] r.op = "sell" -> ReleaseButton(page, r.player_out) = CanSell(w)
       [] r.op = "trade" ->
            ExecuteButton(r.player_out, r.player_in, trades) = CanTrade(w, trades)
       [] r.op = "buy_trade" -> page.can_buy_trade = CanBuyTrade
       [] r.op = "sell_trade" -> page.can_sell_trade = CanSellTrade(trades)

\* A request that is about to read its prices.
OfferIsPriced(w) ==
  LET r == req[w]
      page == BuildContext(seen[w])
  IN /\ r.op = "buy" /\ (RosterOption(r.player_in) = "sign" \/ SignButton(page, r.player_in)) =>
          CanQuote(w)
     /\ r.op = "trade" /\ ExecuteButton(r.player_out, r.player_in, seen[w]) =>
          CanQuote(w) = HasPrices(r)

PricesStand(r) == r.price_in = PriceIn(r) /\ r.price_out = PriceOut(r)

OffersAreKept ==
  \A w \in Workers :
    /\ pc[w] = "open" => OfferIsPriced(w)
    /\ pc[w] = "quoted" /\ PricesStand(req[w]) =>
         \A rows \in DueNow(w) : OfferAgrees(w, TradesHeld(w) + Granted(rows))

(***************************************************************************)
(* The dialog tells one story: it dims exactly the players its preview     *)
(* would call too expensive, its preview warns of every player its list    *)
(* flags (though not only of those: what is left of a gap that a trade     *)
(* fills in part is a new sentence too), and it says a trade can be bought *)
(* when the page sells one.                                                *)
(***************************************************************************)
DialogIsOfOnePiece ==
  \A out \in squad, in \in Market :
    LET dialog == TradeDialog(out, in, trades_available)
        page == BuildContext(trades_available)
    IN /\ (in \in dialog.affordable) = dialog.preview.affordable
       /\ in \in dialog.flagged => dialog.preview.breaks # {}
       /\ dialog.can_buy_trade = page.can_buy_trade

(***************************************************************************)
(* A reason is true: the season has ended only after its last moment, the  *)
(* market opens at a moment still to come or closed at one gone by; a      *)
(* deadline lies ahead; and the grant announced next is not yet paid, nor  *)
(* does an unpaid one come before it.                                      *)
(***************************************************************************)
ReasonsAreTrue ==
  LET page == BuildContext(trades_available) IN
  /\ CASE page.trade_market_note = "season ended"        -> now > SeasonCloseAt
       [] page.trade_market_note = "season not started"  -> now < SeasonOpenAt
       [] page.trade_market_note = "market not open yet" -> TradeMarketOpensAt > now
       [] page.trade_market_note = "market closed"       ->
            Given(TradeMarketClosesAt) /\ TradeMarketClosesAt <= now
       [] OTHER                                          -> TradeMarketOpen(now)
  /\ page.deadline # NoDate => page.deadline > now
  /\ \A due \in page.next_trade_grant :
       /\ due.key \notin PaidKeys(log)
       /\ \A other \in UnpaidGrants(log, SeasonCloseAt) :
            other.granted_at <= now \/ other.granted_at >= due.granted_at

=============================================================================
