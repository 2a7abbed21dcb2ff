\* Two workers: a release priced before another request released and re-signed the player.
SPECIFICATION Spec
CONSTANTS
  NoDate = NoDate  NoPlayer = NoPlayer  NoPrice = NoPrice  NoKey = NoKey  Nobody = Nobody
  w1 = w1  w2 = w2  p1 = p1  p2 = p2  g1 = g1
  Workers = {w1, w2}
  Players = {p1}
  Salaries = {1, 2}
  StartingCash = 5  StartingTrades = 0
  RosterSize = 1
  TradeBuyPrice = 1  TradeSellPrice = 1
  Ops = {"buy", "sell"}
  SeasonOpenAt = 0  SeasonCloseAt = 20
  SigningsOpenAt = NoDate  SigningsCloseAt = NoDate
  TradeMarketOpensAt = NoDate  TradeMarketClosesAt = NoDate
  WeeklyTradesFrom = NoDate  WeeklyTradesPerWeek = 0  Week = 7
  GrantIds = {}  GrantedAt <- NoGrants  GrantTrades <- NoGrants
  LastInstant = 6
CHECK_DEADLOCK FALSE
INVARIANT RefundsExact
