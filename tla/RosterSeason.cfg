\* Two workers through a season: signings, the gap, the season and its end.
SPECIFICATION Spec
CONSTANTS
  NoDate = NoDate  NoPlayer = NoPlayer  NoPrice = NoPrice  NoKey = NoKey  Nobody = Nobody
  w1 = w1  w2 = w2  p1 = p1  p2 = p2  g1 = g1
  Workers = {w1, w2}
  Players = {p1, p2}
  Salaries = {1}
  StartingCash = 2  StartingTrades = 0
  RosterSize = 1
  TradeBuyPrice = 1  TradeSellPrice = 1
  Ops = {"buy", "trade", "buy_trade", "sell_trade"}
  SeasonOpenAt = 3  SeasonCloseAt = 4
  SigningsOpenAt = 0  SigningsCloseAt = 2
  TradeMarketOpensAt = 3  TradeMarketClosesAt = 4
  WeeklyTradesFrom = 3  WeeklyTradesPerWeek = 1  Week = 1
  GrantIds = {}  GrantedAt <- NoGrants  GrantTrades <- NoGrants
  LastInstant = 5
SYMMETRY Symmetry
CHECK_DEADLOCK FALSE
PROPERTIES FrozenInSize CountIsCurrent
