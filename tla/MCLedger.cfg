\* Two bookings with payments, events, cancellations and stays that end, against the
\* ledger of holds.
SPECIFICATION Spec
CONSTANTS
  b1 = b1
  b2 = b2
  x1 = x1
  p1 = p1
  a1 = a1
  Booking = {b1, b2}
  NoBooking = NoBooking
  Stays <- MCShortStays
  Days = {}
  HoldTime = 1
  DayLength = 2
  MaxTime = 4
  Keys = {}
  NoKey = NoKey
  Policies = {"MODERATE"}
  HostStatuses = {"PUBLISHED", "UNPUBLISHED"}
  InitialCalendar <- MCNoRows
  Cancels = {x1}
  Pays = {p1}
  Methods = {"CARD"}
  Postable = {}
  DateEdits = {}
  AdminCancels = {a1}
CHECK_DEADLOCK FALSE
PROPERTIES
  NoEarlyExpiry
  ImplementsLedger
