\* What the pages show, and what one account owns.
SPECIFICATION MCSpec
CONSTANTS
  w1 = w1  w2 = w2  p1 = p1  p2 = p2  p3 = p3  p4 = p4  t1 = t1  t2 = t2  t3 = t3
  s1 = s1  s2 = s2  n1 = n1  n2 = n2  n3 = n3  None = None
  NoDate = NoDate  NoPlayer = NoPlayer  NoPrice = NoPrice  NoKey = NoKey  Nobody = Nobody
  NoTeam = NoTeam  NoReport = NoReport  Unused = Unused  Deleted = Deleted
  Workers = {w1}  Players = {p1, p2}  Salaries = {1, 2}  StartingCash = 5  StartingTrades = 0
  RosterSize = 2  TradeBuyPrice = 1  TradeSellPrice = 1  Ops = {"buy", "sell"}
  SeasonOpenAt = 0  SeasonCloseAt = 20  SigningsOpenAt = NoDate  SigningsCloseAt = NoDate
  TradeMarketOpensAt = NoDate  TradeMarketClosesAt = NoDate
  WeeklyTradesFrom = NoDate  WeeklyTradesPerWeek = 0  Week = 7
  GrantIds = {}  GrantedAt <- NoGrants  GrantTrades <- NoGrants  LastInstant = 6
INVARIANTS RefundsExact  TimelineHolds DreamTeamsHold
PROPERTIES OwnershipHolds
CHECK_DEADLOCK FALSE
