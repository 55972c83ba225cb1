\* Two holds placed by a page that may be reopened, two attempts to pay.
SPECIFICATION CheckoutSpec
CONSTANTS
  b1 = b1
  b2 = b2
  p1 = p1
  p2 = p2
  Booking = {b1, b2}
  NoBooking = NoBooking
  NoStay = NoStay
  NoPay = NoPay
  Stays <- MCOneStay
  Days = {}
  HoldTime = 1
  DayLength = 2
  MaxTime = 2
  Keys = {}
  NoKey = NoKey
  Policies = {"MODERATE"}
  HostStatuses = {"PUBLISHED"}
  InitialCalendar <- MCNoRows
  Cancels = {}
  Pays = {p1, p2}
  Methods = {"CARD"}
  Postable = {}
  DateEdits = {}
  AdminCancels = {}
SYMMETRY MCSymmetry
CHECK_DEADLOCK FALSE
INVARIANTS
  CheckoutTypeOK
  ConfirmationWasCharged
  ChargedOnceWithoutFaults
