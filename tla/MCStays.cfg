\* Two bookings of a property, over before the last day, two pages that may
\* show either, and two payout requests.
SPECIFICATION Spec
CONSTANTS
  Bookings = {b1, b2}
  CheckOut <- MCCheckOut
  LastDay = 2
  Postable = {}
  Pages = {p1, p2}
  Requesters = {r1, r2}
SYMMETRY MCSymmetry
INVARIANTS
  StaysTypeOK
  RatingIsCurrent
  PayoutsAreBounded
  RefusedMeansChanged
CHECK_DEADLOCK FALSE
