------------------------------- MODULE Checkout -------------------------------
(***************************************************************************)
(* CheckoutPage over the booking core: a guest chooses a stay, sees its    *)
(* price, places the hold and pays, while the answers of the page's own    *)
(* requests arrive late, out of order or not at all.                       *)
(*                                                                         *)
(* Every creation and payment request is one a page has sent.  A page the  *)
(* guest leaves is forgotten; its requests go on at the server.  The price *)
(* of a stay is identified with the stay.  Step 2 of the page, a form, is  *)
(* part of step 3.                                                         *)
(***************************************************************************)
EXTENDS BookingSystem

CONSTANTS NoStay, NoPay

ASSUME CheckoutAssumption == NoStay \notin Stays /\ NoPay \notin Pays

VARIABLES
  page,      \* the state of the page that is open
  quotes,    \* stays whose price the page has asked for
  asked,     \* the stay of each creation request that was sent
  ordered,   \* booking and method of each payment request that was sent
  fault      \* an answer to a payment was lost, or a request failed after its charge

pageVars == <<page, quotes, asked, ordered, fault>>
checkoutVars == <<vars, pageVars>>

NoOrder == [booking |-> NoBooking, method |-> "NONE"]

CheckoutTypeOK ==
  /\ page \in [step : {1, 3, 4, 5}, stay : Stays, price : Stays \cup {NoStay},
               calculating : BOOLEAN,
               holding : Booking \cup {NoBooking}, created : Booking \cup {NoBooking},
               paying : Pays \cup {NoPay}, confirmed : Booking \cup {NoBooking},
               counting : BOOLEAN]
  /\ page.step = 5 => page.confirmed # NoBooking
  /\ quotes \subseteq Stays
  /\ asked \in [Booking -> Stays \cup {NoStay}]
  /\ ordered \in [Pays -> [booking : Booking \cup {NoBooking}, method : Methods \cup {"NONE"}]]
  /\ fault \in BOOLEAN

\* The page as it opens: with the stay of the widget, or at the payment of a booking.
OpenPage(stay, step) ==
  [step |-> step, stay |-> stay, price |-> NoStay, calculating |-> TRUE,
   holding |-> NoBooking, created |-> NoBooking, paying |-> NoPay, confirmed |-> NoBooking,
   counting |-> TRUE]

CheckoutInit ==
  /\ Init
  /\ \E stay \in Stays : page = OpenPage(stay, 1) /\ quotes = {stay}
  /\ asked = [b \in Booking |-> NoStay]
  /\ ordered = [p \in Pays |-> NoOrder]
  /\ fault = FALSE

------------------------------------------------------------------------------
(***************************************************************************)
(* The page.                                                               *)
(***************************************************************************)
\* The guest comes back, from the property or from the notice and the reservation that
\* link to the payment of a hold.
Reopen ==
  \E stay \in Stays, step \in {1, 4} :
    /\ step = 4 => \E b \in Booking : bookings[b].status = "PENDING_PAYMENT"
    /\ page' = OpenPage(stay, step)
    /\ quotes' = {stay}
    /\ UNCHANGED <<vars, asked, ordered, fault>>

\* Other guests or another promotion ask for the price of the same stay again.
ChooseStay(s) ==
  /\ page.step = 1
  /\ page' = [page EXCEPT !.stay = s, !.calculating = TRUE]
  /\ quotes' = quotes \cup {s}
  /\ UNCHANGED <<vars, asked, ordered, fault>>

\* fetchPriceBreakdown: whichever answer arrives last stands.
ReceiveQuote(s) ==
  /\ s \in quotes /\ quotes' = quotes \ {s}
  /\ \E price \in {s, NoStay} :
       page' = [page EXCEPT !.price = price, !.calculating = FALSE]
  /\ UNCHANGED <<vars, asked, ordered, fault>>

\* The button of the first step, disabled without a price, and the form of the second.
GoForward ==
  /\ page.step = 1 /\ page.price # NoStay /\ ~page.calculating
  /\ page' = [page EXCEPT !.step = 3]
  /\ UNCHANGED <<vars, quotes, asked, ordered, fault>>

GoBack(step) ==
  /\ page.step \in {3, 4} /\ step < page.step
  /\ page' = [page EXCEPT !.step = step]
  /\ UNCHANGED <<vars, quotes, asked, ordered, fault>>

InitiateHold(b) ==
  /\ page.step = 3 /\ page.holding = NoBooking
  /\ asked[b] = NoStay
  /\ asked' = [asked EXCEPT ![b] = page.stay]
  /\ page' = [page EXCEPT !.holding = b]
  /\ UNCHANGED <<vars, quotes, ordered, fault>>

\* The hold is there, wherever the guest has gone meanwhile; an error or a lost answer
\* leaves the page where it is.
ReceiveHold ==
  LET b == page.holding
  IN  /\ b # NoBooking
      /\ \/ creates[b].pc = "done"
            /\ page' = [page EXCEPT !.holding = NoBooking, !.created = b, !.step = 4]
         \/ page' = [page EXCEPT !.holding = NoBooking]
      /\ UNCHANGED <<vars, quotes, asked, ordered, fault>>

\* The interval of the payment step shows seconds left or ends the step.  The clock is the
\* browser's and may be early or late, so either may happen at any time.
Countdown ==
  /\ page.step = 4 /\ page.created # NoBooking
  /\ \/ page' = [page EXCEPT !.counting = FALSE, !.step = 1]
     \/ page' = [page EXCEPT !.counting = TRUE]
  /\ UNCHANGED <<vars, quotes, asked, ordered, fault>>

\* Mutation: the button stays enabled while a payment is under way.
PayAgain(p, method) ==
  /\ page.step = 4 /\ page.counting /\ page.created # NoBooking
  /\ ordered[p] = NoOrder
  /\ ordered' = [ordered EXCEPT ![p] = [booking |-> page.created, method |-> method]]
  /\ page' = [page EXCEPT !.paying = p]
  /\ UNCHANGED <<vars, quotes, asked, fault>>

\* Every attempt carries a key of its own, which no other row has.
ProcessPayment(p, method) ==
  /\ page.step = 4 /\ page.counting /\ page.paying = NoPay
  /\ page.created # NoBooking
  /\ ordered[p] = NoOrder
  /\ ordered' = [ordered EXCEPT ![p] = [booking |-> page.created, method |-> method]]
  /\ page' = [page EXCEPT !.paying = p]
  /\ UNCHANGED <<vars, quotes, asked, fault>>

\* Mutation: the booking confirmed is the one on the page when the answer comes.
ReceiveForCurrent ==
  LET p == page.paying
      failed == [page EXCEPT !.paying = NoPay]
  IN  /\ p # NoPay
      /\ \/ /\ pays[p].pc = "done" /\ pays[p].method = "CARD"
            /\ page' = [failed EXCEPT !.step = 5, !.confirmed = page.created]
         \/ pays[p].pc = "done" /\ page' = failed
         \/ pays[p].pc = "refused" /\ page' = failed
      /\ UNCHANGED <<vars, quotes, asked, ordered, fault>>

\* Mutation: the confirmation is shown although the booking could not be fetched.
ReceiveUnfetched ==
  LET p == page.paying
      failed == [page EXCEPT !.paying = NoPay]
  IN  /\ p # NoPay
      /\ \/ /\ pays[p].pc = "done" /\ pays[p].method = "CARD"
            /\ page' = [failed EXCEPT !.step = 5]
         \/ pays[p].pc = "refused" /\ page' = failed
      /\ UNCHANGED <<vars, quotes, asked, ordered, fault>>

\* A card payment that succeeds leads to the confirmation, if the booking can be fetched;
\* an accepted push does not.
ReceivePayment ==
  LET p == page.paying
      failed == [page EXCEPT !.paying = NoPay]
  IN  /\ p # NoPay
      /\ \/ /\ pays[p].pc = "done" /\ pays[p].method = "CARD"
            /\ page' = [failed EXCEPT !.step = 5, !.confirmed = pays[p].booking]
         \/ pays[p].pc = "done" /\ page' = failed
         \/ pays[p].pc = "refused" /\ page' = failed
      /\ UNCHANGED <<vars, quotes, asked, ordered, fault>>

\* The page reports an error while the request may still be served.
LosePayment ==
  /\ page.paying # NoPay
  /\ page' = [page EXCEPT !.paying = NoPay]
  /\ fault' = TRUE
  /\ UNCHANGED <<vars, quotes, asked, ordered>>

------------------------------------------------------------------------------
(***************************************************************************)
(* The server, for the requests that pages send.                           *)
(***************************************************************************)
ArriveHold(b) ==
  /\ asked[b] # NoStay
  /\ Sweep(b)
  /\ creates'[b].checkIn = asked[b].checkIn /\ creates'[b].checkOut = asked[b].checkOut
  /\ UNCHANGED <<pays, dateEdits, adminCancels, pageVars>>

ArrivePayment(p) ==
  /\ ordered[p] # NoOrder
  /\ ReadToPay(p)
  /\ pays'[p].booking = ordered[p].booking /\ pays'[p].method = ordered[p].method
  /\ UNCHANGED <<bookingServiceVars, dateEdits, adminCancels, pageVars>>

FailOrder(p) ==
  /\ FailPayment(p)
  /\ fault' = (fault \/ pays[p].pc = "charged")
  /\ UNCHANGED <<bookingServiceVars, dateEdits, adminCancels, page, quotes, asked, ordered>>

\* Stays are not over yet and the host leaves the listing as it is.
ServerStep ==
  /\ \/ /\ \E b \in Booking : CreateStep(b) \/ AbortHold(b)
        /\ UNCHANGED <<pays, adminCancels>>
     \/ /\ (\E p \in Pays : PayStep(p)) \/ (\E b \in Booking : Webhook(b) \/ PostEvent(b))
        /\ UNCHANGED <<bookingServiceVars, adminCancels>>
     \/ Tick /\ UNCHANGED <<bookingServiceVars, pays, adminCancels>>
  /\ UNCHANGED <<dateEdits, pageVars>>

CheckoutNext ==
  \/ Reopen
  \/ \E s \in Stays : ChooseStay(s) \/ ReceiveQuote(s)
  \/ GoForward
  \/ \E step \in {1, 3} : GoBack(step)
  \/ \E b \in Booking : InitiateHold(b) \/ ArriveHold(b)
  \/ \E p \in Pays :
       \/ \E method \in Methods : ProcessPayment(p, method)
       \/ ArrivePayment(p) \/ FailOrder(p)
  \/ ReceiveHold \/ Countdown \/ ReceivePayment \/ LosePayment
  \/ ServerStep

CheckoutSpec == CheckoutInit /\ [][CheckoutNext]_checkoutVars

------------------------------------------------------------------------------
\* The page confirms only what was charged, whatever was lost, late or refused before
\* (CheckoutPage.tsx:197-201).
ConfirmationWasCharged == page.step = 5 => charges[page.confirmed] > 0

\* Although every attempt to pay has a fresh idempotency key (CheckoutPage.tsx:189), a
\* card is charged once for a booking as long as no answer is lost and no request fails
\* after its charge: the page waits for an attempt before it makes another.  Money that a
\* guest sends from the phone after an accepted push is outside the count.
ChargedOnceWithoutFaults == ~fault => \A b \in Booking : charges[b] <= 1

==============================================================================
