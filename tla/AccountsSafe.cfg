\* Demotions side by side; everything else one request at a time.
SPECIFICATION MCSpec
CONSTANTS
  w1 = w1  w2 = w2  w3 = w3
  Workers = {w1, w2, w3}  People <- Three  InitialRoles <- AllAdmins
  Addresses <- OwnAddresses  Kinds = {"role", "crash"}  Grantable = {"coach"}
  InvitationTimeout = 2  ResetTimeout = 1  MaxStamp = 1  LastInstant = 0  MaxLinks = 0
INVARIANTS AlwaysAnAdmin AloneOneAccount
PROPERTIES AloneRightsAreGranted AloneNeverReplaces
SYMMETRY Symmetry
CHECK_DEADLOCK FALSE
