\* An import that raises.
SPECIFICATION RaisingSpec
CONSTANTS
  Workers = {w1, w2}  Users = {u1}  Runs = {1, 2, 3}  Players = {p1, p2}  Seasons = {s1, s2}
  Stored = {p1}  Sources = {"web"}
  Lifetime = 0  LastInstant = 0  MayFail = FALSE  MayVanish = FALSE
  w1 = w1  w2 = w2  u1 = u1  u2 = u2  p1 = p1  p2 = p2  s1 = s1  s2 = s2
  NoRow = NoRow  OldRow = OldRow  Nobody = Nobody
  Names = {n1, n2, n3}  Keys = {k1, k2, k3}  Teams = {t1, t2}  OurPlayers = {p1, p2}
  KeyOf <- Keyed  AliasOf <- Nickname  Lines <- AnyLine  MaxLines = 3  MaxRows = 2
  n1 = n1  n2 = n2  n3 = n3  k1 = k1  k2 = k2  k3 = k3  t1 = t1  t2 = t2
  Blank = Blank  NoKey = NoKey  NoTeam = NoTeam
PROPERTY EveryFailureRecorded
CHECK_DEADLOCK FALSE
