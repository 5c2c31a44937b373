SPECIFICATION Spec
CONSTANTS
  b1 = b1
  b2 = b2
  b3 = b3
  s1 = s1
  s2 = s2
  job = job
  Ids = {b1}
  Items = {1, 2, 3}
  StyleOf <- Mixed
  Spans <- Day0
  WebSessions = {s1, s2}
  JobSessions = {s1, s2}
  PrepDays = 0
  CleaningDays = 1
  RequestStatuses = {"confirmed"}
  ItemStates = {"active", "repair"}
  SlaDays = 0
  MaxAttempts = 2
  Horizon = 4
  LastBookingDay = 0
SYMMETRY FullSymmetry
INVARIANT StyleMatchesItem
\* The model stops at its Horizon, with its rows used up.
CHECK_DEADLOCK FALSE
