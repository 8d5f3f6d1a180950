SPECIFICATION Spec
CONSTANTS
  b1 = b1
  Batch = {b1}
  NumFiles = 3
  NumStripes = 1
  Stripe <- MCStripe
  StripeOf <- MCStripeOf
  MaxEdits = 1
  MaxResults <- MCMaxResults
  MaxFiles <- MCMaxFiles
  None = None
INVARIANTS BadRequestWritesNothing
