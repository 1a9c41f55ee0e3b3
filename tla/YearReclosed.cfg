SPECIFICATION SequentialSpec
CONSTANTS
  create = create
  decide = decide
  close1 = close1
  close2 = close2
  reopen = reopen
  reopen2 = reopen2
  window = window
  closeYear1 = closeYear1
  closeYear2 = closeYear2
  reopenYear = reopenYear
  audit = audit
  Calls = {create, close1, close2, closeYear1, closeYear2, reopenYear}
  OpOf <- MCCallsOp
  LastPeriod = 2
  Modules = {"gl"}
  GL = "gl"
  NoCall = NoCall
INVARIANT ClosedYearIsSettled
CHECK_DEADLOCK FALSE
