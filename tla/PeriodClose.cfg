SPECIFICATION Spec
CONSTANTS
  create = create
  decide = decide
  close1 = close1
  close2 = close2
  reopen = reopen
  reopen2 = reopen2
  window = window
  closeYear1 = closeYear1
  closeYear2 = closeYear2
  reopenYear = reopenYear
  audit = audit
  Calls = {create, decide, close1, close2, reopen, reopen2, window, closeYear1, reopenYear,
           audit}
  OpOf <- MCCallsOp
  LastPeriod = 2
  Modules = {"gl", "ap"}
  GL = "gl"
  NoCall = NoCall
INVARIANTS TypeOK ClosingReversedOnce
PROPERTIES NothingEntersAClosedPeriod ClosedMonthIsDecided
CONSTRAINT PostingsOrReopenings
SYMMETRY Symmetry
CHECK_DEADLOCK FALSE
