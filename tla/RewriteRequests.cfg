SPECIFICATION RequestsSpec
CONSTANTS
  b1 = b1
  Batch = {b1, b2}
  NumFiles = 2
  NumStripes = 1
  Stripe <- MCStripe
  StripeOf <- MCStripeOf
  MaxEdits = 2
  MaxResults <- MCMaxResults
  MaxFiles <- MCMaxFiles
  Permits = 2
  None = None
INVARIANTS SnapshotIsCurrent CapIsReported OnlyDeadlinesDouble
PROPERTIES SerialSpec StartedBatchesEnd LocksAreGiven
CHECK_DEADLOCK FALSE
