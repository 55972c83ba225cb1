------------------------- MODULE AvailabilityService -------------------------
(***************************************************************************)
(* AvailabilityService.updateDateAvailability for one date per request: a  *)
(* host blocks or reopens a date, or edits its price only.  The search for *)
(* bookings on the date and the upsert are separate statements outside any *)
(* common transaction.                                                     *)
(***************************************************************************)
EXTENDS BookingTables

CONSTANT DateEdits   \* PUT /availability/:propertyId requests

VARIABLE dateEdits

DateEdit ==
  [pc : {"idle", "checked", "done", "refused"}, date : Days \cup {-1},
   edit : {"block", "open", "price"}]

AvailabilityServiceTypeOK == dateEdits \in [DateEdits -> DateEdit]

AvailabilityServiceInit ==
  dateEdits = [e \in DateEdits |-> [pc |-> "idle", date |-> -1, edit |-> "price"]]

\* A booking the calendar query finds on the date d.
Booked(d) == \E b \in Booking : BlocksDates(bookings[b]) /\ CoversNight(bookings[b], d)

\* Only a request to block looks for bookings.
CheckDate(e) ==
  /\ dateEdits[e].pc = "idle"
  /\ \E d \in Days, edit \in {"block", "open", "price"} :
       dateEdits' = [dateEdits EXCEPT ![e] =
         [pc |-> IF edit = "block" /\ Booked(d) THEN "refused" ELSE "checked",
          date |-> d, edit |-> edit]]
  /\ UNCHANGED tableVars

\* The row of a date after an edit; a price alone does not unblock a date.
Edited(row, edit) ==
  CASE edit = "block" -> "blocked"
    [] edit = "open"  -> "open"
    [] edit = "price" -> IF row = "none" THEN "open" ELSE row

\* Inserting a new row takes a key-share lock on the property, which waits for a
\* booking transaction holding the row FOR UPDATE; updating a row does not.
WriteDate(e) ==
  /\ dateEdits[e].pc = "checked"
  /\ calendar[dateEdits[e].date] = "none" => lock = NoBooking
  /\ dateEdits' = [dateEdits EXCEPT ![e].pc = "done"]
  /\ calendar' = [calendar EXCEPT ![dateEdits[e].date] = Edited(@, dateEdits[e].edit)]
  /\ UNCHANGED <<clockVars, property, bookings, payments, refunds, lock,
                 providerVars>>

AvailabilityServiceNext == \E e \in DateEdits : CheckDate(e) \/ WriteDate(e)

==============================================================================
