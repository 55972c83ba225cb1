---------------------------- MODULE BookingClaims ----------------------------
(***************************************************************************)
(* What the repository's README states of the booking core and the code    *)
(* does not do: the subject of a run that ends in a counterexample.        *)
(***************************************************************************)
EXTENDS BookingSystem

\* Zero double bookings: two confirmed bookings that were never released do not
\* share a night of a stay still to come.
NoDoubleBooking ==
  \A b, c \in Booking :
    b # c /\ bookings[b].status = "CONFIRMED" /\ bookings[c].status = "CONFIRMED"
      /\ ~bookings[b].cancelled /\ ~bookings[c].cancelled
      => ~Overlap(bookings[b], bookings[c])

==============================================================================
