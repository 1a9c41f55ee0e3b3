SPECIFICATION Spec
CONSTANTS
  Clerks = {c1, c2}
  Invoices = {1, 2}
  Net <- MCNet
  Receipts = {1, 2}
  MaxCash = 1
  MaxAdvance = 1
  None = None
INVARIANTS AdvancesAreNotOverdrawn
