SPECIFICATION Spec
CONSTANTS
  b1 = b1
  b2 = b2
  b3 = b3
  s1 = s1
  s2 = s2
  job = job
  Ids = {b1, b2}
  Items = {1, 2}
  StyleOf <- Copies
  Spans <- Day0
  WebSessions = {s1, s2}
  JobSessions = {s1, s2}
  PrepDays = 0
  CleaningDays = 1
  RequestStatuses = {"pending_shop"}
  ItemStates = {"active"}
  SlaDays = 0
  MaxAttempts = 3
  Horizon = 2
  LastBookingDay = 0
SYMMETRY FullSymmetry
INVARIANTS NoDoubleBooking NoRowLockCycle AtRiskIsKnown
PROPERTIES ImplementsCalendar DisplacedOnlyTogether
\* The model stops at its Horizon, with its rows used up.
CHECK_DEADLOCK FALSE
