SPECIFICATION Spec
CONSTANTS
  TimeWord = 1073741824
  CtrWord = 3
  Minute = 2
  Usecs = {0, 500000}
  MaxSec = 5
  MaxGap = 2
INVARIANTS AssertHolds FinishNeedsTwoSeconds
PROPERTIES OneReportPerMinute TotalsReported SlotsAreSeconds
CHECK_DEADLOCK FALSE
