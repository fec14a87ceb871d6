SPECIFICATION FairSpec
CONSTANTS
  Requests <- MCRequests
  MaxRetries = 1
  MaxDispatch = 17
INVARIANTS
  NoItemDropped
  ResultsBelongToItems
  RetriesAreBounded
PROPERTY
  RunManySettles
CHECK_DEADLOCK FALSE
