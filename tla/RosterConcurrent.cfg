\* Two workers, each move permitted at every instant.
SPECIFICATION Spec
CONSTANTS
  NoDate = NoDate  NoPlayer = NoPlayer  NoPrice = NoPrice  NoKey = NoKey  Nobody = Nobody
  w1 = w1  w2 = w2  p1 = p1  p2 = p2  g1 = g1
  Workers = {w1, w2}
  Players = {p1, p2}
  Salaries = {2}
  StartingCash = 3  StartingTrades = 0
  RosterSize = 1
  TradeBuyPrice = 1  TradeSellPrice = 1
  Ops = {"buy", "sell", "trade", "sell_trade"}
  SeasonOpenAt = 0  SeasonCloseAt = 20
  SigningsOpenAt = NoDate  SigningsCloseAt = NoDate
  TradeMarketOpensAt = NoDate  TradeMarketClosesAt = NoDate
  WeeklyTradesFrom = NoDate  WeeklyTradesPerWeek = 0  Week = 7
  GrantIds <- OneGrant  GrantedAt <- OneGrantAt  GrantTrades <- OneGrantOf
  LastInstant = 3
SYMMETRY Symmetry
CHECK_DEADLOCK FALSE
INVARIANTS TypeOK CashReconciles TradesReconcile SquadReconciles GrantsPaidOnce WithinLimits
PROPERTY LedgerSpec
