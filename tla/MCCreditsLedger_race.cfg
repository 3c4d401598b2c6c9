\* Two runs of two emails of one user against refunds, renewals, a bonus grant,
\* a plan change and a repair.
SPECIFICATION Spec
CONSTANTS
  u1 = u1
  Users = {u1}
  Emails = {e1, e2}
  Owner <- OneOwner
  Runs = {r1, r2}
  PlanWriters = {p1}
  Amounts = {1, 2}
  PlanCredits = {2}
  FreeCredits = 1
  None = None
  MaxRows = 3
  MaxBonus = 1
  MaxSecond = 1
SYMMETRY Interchangeable
INVARIANTS
  NeverOverdrawn
  LedgerBalances
  RefundsMatchCharges
  PaidRunsHoldCharge
PROPERTY AccountSpec
CHECK_DEADLOCK FALSE
