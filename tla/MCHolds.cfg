\* Two creation requests, a payment with its events and a host edit, under fairness.
SPECIFICATION FairSpec
CONSTANTS
  b1 = b1
  b2 = b2
  p1 = p1
  e1 = e1
  Booking = {b1, b2}
  NoBooking = NoBooking
  Stays <- MCShortStays
  Days = {0}
  HoldTime = 1
  DayLength = 2
  MaxTime = 2
  Keys = {}
  NoKey = NoKey
  Policies = {"MODERATE"}
  HostStatuses = {"PUBLISHED"}
  InitialCalendar <- MCNoRows
  Cancels = {}
  Pays = {p1}
  Methods = {"CARD"}
  Postable = {}
  DateEdits = {e1}
  AdminCancels = {}
CHECK_DEADLOCK FALSE
INVARIANTS
  TypeOK
  NoDoubleHold
PROPERTIES
  NewRowsWait
  EveryCreateAnswered
  ChargedHoldIsConfirmed
