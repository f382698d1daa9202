SPECIFICATION FairSpec
CONSTANTS
  Ids = {i1, i2}
  Keys = {k1, k2}
  Workers = {w1}
  Deposits = {1}
  Times = {0, 1}
  k1 = k1
  Prices = {1, 2}
  MaxTime = 1
  MaxEntries = 2
  PeriodEnd <- MCPeriodEnd
  Billing <- MCBilling
  None = None
INVARIANTS AmountsAgree StatusAgrees DebtorsReportExact RemindersReachDebtors
PROPERTIES SettledStaysSettled OverdueBecomesDebt
CHECK_DEADLOCK FALSE
