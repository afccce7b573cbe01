CONSTANTS
  Sessions = {s1, s2}
  Handlers = {h1, h2}
  Torn = Torn
  MaxDuplicates = 1
  MaxUnsigned = 1
  MaxStops = 1
  MaxPending = 2
  Environments <- MCEnvironments
SPECIFICATION StripeSpec
CHECK_DEADLOCK FALSE

PROPERTIES PaidIsDelivered
