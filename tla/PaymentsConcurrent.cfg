SPECIFICATION Spec
CONSTANTS
  Ids = {i1, i2}
  Keys = {k1}
  Workers = {w1, w2}
  Deposits = {1}
  Times = {0}
  k1 = k1
  Prices = {1, 2}
  MaxTime = 1
  MaxEntries = 2
  PeriodEnd <- MCPeriodEnd
  Billing <- MCBilling
  None = None
INVARIANTS TypeOK OnePaymentPerPeriod CreditBackedByLedger MoneyInv
PROPERTIES ImplementsLedger
SYMMETRY Symmetry
CHECK_DEADLOCK FALSE
