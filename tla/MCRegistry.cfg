SPECIFICATION Spec
CONSTANTS
  t1 = t1
  t2 = t2
  t3 = t3
  u1 = u1
  u2 = u2
  Threads <- MCThreads
  Users <- MCUsers
  UserOf <- MCUserOf
  Names = {n1}
  MaxGroupId = 1
  MaxCommands = 4
INVARIANTS
  TypeOK
  MembershipHasGroup
  NameTwiceNeedsOverlap
  MemberTwiceNeedsOverlap
  OwnerMissingNeedsOverlap
PROPERTY ImplementsCollections
CHECK_DEADLOCK FALSE
SYMMETRY MCSymmetry
