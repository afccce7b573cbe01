CONSTANTS
  Buyers = {b1, b2}
  Authorities = {a1}
  SaleParams <- MCSaleParams
  Amounts = {4, 19, 43}
  Indices = {0, 1}
  Funds = 90
  RebateWindow = 2
  MaxSaleTime = 4
SPECIFICATION SaleSpec
CHECK_DEADLOCK FALSE
INVARIANT HardCapKept
