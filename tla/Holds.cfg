\* Two accounts pay, reserve, lock and are slashed in the native currency and in
\* a token; accounts close with and without locks.
SPECIFICATION Spec
CONSTANTS
  a = a
  b = b
  Accounts = {a, b}
  CurrencyIds = {0, 1}
  Native = 0
  minimum_balance <- Minimums
  AirDropAmount = 2
  LockIds = {l}
  Amounts = {1, 2}
  Lockable <- LockableOfA
  MaxIssuance <- Supplies
INVARIANTS IssuanceAgrees
PROPERTIES LocksHold
CHECK_DEADLOCK FALSE
