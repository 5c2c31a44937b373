SPECIFICATION Spec
CONSTANTS
  Settings <- Corners
  Weekdays <- SomeWeekdays
  Ranges <- SomeRanges
  MaxClosures = 2
  Events = {6, 8, 9, 10, 11, 14, 20, 21, 22, 23, 24}
  LastToday = 6
INVARIANTS DerivedDatesFit DatesAreTightest RefusalIsFinal
