\* Roles given and taken while a request is under way.
SPECIFICATION ChangingSpec
CONSTANTS
  w1 = w1  w2 = w2  w3 = w3
  Workers = {w1, w2, w3}  People <- Three  InitialRoles <- AllAdmins
  Addresses <- OwnAddresses  Kinds = {"role", "crash"}  Grantable = {"coach"}
  InvitationTimeout = 2  ResetTimeout = 1  MaxStamp = 1  LastInstant = 0  MaxLinks = 0
INVARIANT AdminRemains
CHECK_DEADLOCK FALSE
