SPECIFICATION Spec
CONSTANTS
  b1 = b1
  b2 = b2
  b3 = b3
  s1 = s1
  s2 = s2
  job = job
  Ids = {b1}
  Items = {1}
  StyleOf <- Copies
  Spans <- Day0
  WebSessions = {s1}
  JobSessions = {job}
  PrepDays = 0
  CleaningDays = 1
  RequestStatuses = {"pending_shop"}
  ItemStates = {"active"}
  SlaDays = 0
  MaxAttempts = 3
  Horizon = 4
  LastBookingDay = 0
PROPERTY HandedOverStaysHeld
\* The model stops at its Horizon, with its rows used up.
CHECK_DEADLOCK FALSE
