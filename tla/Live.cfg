\* Liveness, component by component, under the fairness each states.
SPECIFICATION Spec
CONSTANTS
  w1 = w1  w2 = w2  w3 = w3  p1 = p1  p2 = p2  n1 = n1  t1 = t1  i7 = i7  s1 = s1  u1 = u1
  NoPlayer = NoPlayer  Nobody = Nobody
  NoSalary = NoSalary  Absent = Absent  Unplaced = Unplaced  NoRow = NoRow  OldRow = OldRow
  NoId = NoId  NoTeam = NoTeam
INVARIANTS TypeOK TakeTurns
PROPERTIES NotBlockedForEver RequestsEnd LinkedInTheEnd
CHECK_DEADLOCK FALSE
