SPECIFICATION FairSpec
CONSTANTS
  MC = 2
  SC = 2
  Data = {d1, d2}
  None = None
INVARIANTS TypeOK OutputsMatchState OwnershipAgrees
PROPERTIES ExactlyOneAccess EveryOperationEnds
