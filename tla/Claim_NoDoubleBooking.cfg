\* A confirmed booking stops blocking its dates when its hold time is over.
SPECIFICATION Spec
CONSTANTS
  b1 = b1
  b2 = b2
  p1 = p1
  p2 = p2
  Booking = {b1, b2}
  NoBooking = NoBooking
  Stays <- MCShortStays
  Days = {}
  HoldTime = 2
  DayLength = 3
  MaxTime = 4
  Keys = {}
  NoKey = NoKey
  Policies = {"MODERATE"}
  HostStatuses = {"PUBLISHED"}
  InitialCalendar <- MCNoRows
  Cancels = {}
  Pays = {p1, p2}
  Methods = {"CARD"}
  Postable = {}
  DateEdits = {}
  AdminCancels = {}
CHECK_DEADLOCK FALSE
INVARIANTS
  NoDoubleBooking
