\* Requests end and due grants arrive, crashes included.
SPECIFICATION FairSpec
CONSTANTS
  NoDate = NoDate  NoPlayer = NoPlayer  NoPrice = NoPrice  NoKey = NoKey  Nobody = Nobody
  w1 = w1  w2 = w2  p1 = p1  p2 = p2  g1 = g1
  Workers = {w1, w2}
  Players = {p1}
  Salaries = {1}
  StartingCash = 2  StartingTrades = 0
  RosterSize = 1
  TradeBuyPrice = 1  TradeSellPrice = 1
  Ops = {"view", "buy"}
  SeasonOpenAt = 3  SeasonCloseAt = 4
  SigningsOpenAt = 0  SigningsCloseAt = 2
  TradeMarketOpensAt = NoDate  TradeMarketClosesAt = NoDate
  WeeklyTradesFrom = NoDate  WeeklyTradesPerWeek = 0  Week = 1
  GrantIds <- OneGrant  GrantedAt <- OneGrantAt  GrantTrades <- OneGrantOf
  LastInstant = 1
PROPERTY GrantsArrive
