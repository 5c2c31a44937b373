SPECIFICATION Spec
CONSTANTS
  b1 = b1
  b2 = b2
  b3 = b3
  s1 = s1
  s2 = s2
  job = job
  Ids = {b1, b2}
  Items = {1, 2}
  StyleOf <- Copies
  Spans <- Days012
  WebSessions = {s1}
  JobSessions = {s1}
  PrepDays = 0
  CleaningDays = 1
  RequestStatuses = {"pending_shop"}
  ItemStates = {"active", "repair"}
  SlaDays = 1
  MaxAttempts = 3
  Horizon = 4
  LastBookingDay = 0
SYMMETRY RowSymmetry
INVARIANTS TypeOK StaffSeeEveryBooking OffersCanBeTaken
PROPERTIES DisplacedOnlyInTheWay ChangesAreAllowedAndRecorded HandedOverStaysHeld
\* The model stops at its Horizon, with its rows used up.
CHECK_DEADLOCK FALSE
