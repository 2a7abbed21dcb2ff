\* The features fed from outside, each in its settings.
SPECIFICATION MCSpec
CONSTANTS
  w1 = w1  w2 = w2  p1 = p1  p2 = p2  n1 = n1  n2 = n2  t1 = t1  t2 = t2  t3 = t3
  i7 = i7  i9 = i9  NoId = NoId  NoPlayer = NoPlayer  NoTeam = NoTeam  NoReport = NoReport
  Workers = {w1}  Players = {p1, p2}  Names = {n1, n2}  Teams = {t1, t2}  Ids = {i7, i9}
  Items <- Four  NameOf <- SameName  Says <- FourItems
  Window = 2  ByHand = FALSE  MayFail = TRUE  MaxChanges = 2
SYMMETRY Symmetry
INVARIANTS TwinsAgree MissedIsLogged
PROPERTIES LimitsKept StopsAtTheReserve LoadsAreTrue LinksHold FeedIsTold NeverHealedUnseen
CHECK_DEADLOCK FALSE
