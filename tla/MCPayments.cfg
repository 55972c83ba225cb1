\* One booking paid by two requests that may share a key, cancelled by a guest and by
\* an administrator, with events lost, late or repeated.
SPECIFICATION Spec
CONSTANTS
  b1 = b1
  x1 = x1
  p1 = p1
  p2 = p2
  a1 = a1
  k1 = k1
  Booking = {b1}
  NoBooking = NoBooking
  Stays <- MCOneStay
  Days = {}
  HoldTime = 1
  DayLength = 2
  MaxTime = 4
  Keys = {k1}
  NoKey = NoKey
  Policies = {"MODERATE"}
  HostStatuses = {"PUBLISHED"}
  InitialCalendar <- MCNoRows
  Cancels = {x1}
  Pays = {p1, p2}
  Methods = {"CARD", "MPESA"}
  Postable = {b1}
  DateEdits = {}
  AdminCancels = {a1}
CHECK_DEADLOCK FALSE
INVARIANTS
  HoldInv
  ConfirmedWasCharged
  RefundedIsReleased
PROPERTIES
  ConfirmedInTimeStays
  ImplementsSales
