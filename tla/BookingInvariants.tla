-------------------------- MODULE BookingInvariants --------------------------
(***************************************************************************)
(* The inductive invariants of the booking core.                           *)
(***************************************************************************)
EXTENDS BookingSystem

\* The row lock and the transactions that think they hold it agree.
LockAgrees ==
  \A c \in Booking : creates[c].pc \in InCritical <=> lock = c

\* A row is there once its creation request committed.
RowPerCommit ==
  \A b \in Booking : Exists(b) <=> creates[b].pc = "done"

\* Requests and events are about rows that are there.
TargetsExist ==
  /\ \A x \in Cancels : cancels[x].pc # "idle" => Exists(cancels[x].booking)
  /\ \A p \in Pays : pays[p].pc # "idle" => Exists(pays[p].booking)
  /\ \A a \in AdminCancels : adminCancels[a].pc # "idle" => Exists(adminCancels[a].booking)
  /\ \A b \in events : Exists(b)

\* How a row that left the overlap query's statuses gave its claim up.
Released(r) == r.cancelled \/ PastHold(r)

ReleasedRows ==
  \A b \in Booking :
    /\ bookings[b].status = "PENDING_PAYMENT" => ~bookings[b].cancelled
    /\ bookings[b].status = "CANCELLED" => bookings[b].cancelled
    /\ bookings[b].status = "EXPIRED" => Released(bookings[b])
    /\ bookings[b].status = "COMPLETED" => bookings[b].checkOut < today

\* A payment request about to write EXPIRED read a row that was released.
LapsedReads ==
  \A p \in Pays : pays[p].pc = "lapsed" => Released(bookings[pays[p].booking])

\* Holds end at most HoldTime after the row was created, so the test of createdAt
\* in the sweep never selects a hold that still runs.
HoldLengths ==
  \A c \in Booking :
    /\ creates[c].pc \in {"priced", "opened"} \cup InCritical
         => creates[c].expiresAt <= now + HoldTime
    /\ creates[c].pc = "inserted" => creates[c].expiresAt <= creates[c].createdAt + HoldTime
    /\ Exists(c) => bookings[c].expiresAt <= bookings[c].createdAt + HoldTime

\* A transaction past its overlap check has its nights to itself until it ends.
ClearStays ==
  \A c, b \in Booking :
    creates[c].pc \in {"clear", "inserted"} /\ Standing(bookings[b])
      => ~Overlap(creates[c], bookings[b])

HoldInv ==
  /\ TypeOK
  /\ LockAgrees
  /\ RowPerCommit
  /\ TargetsExist
  /\ ReleasedRows
  /\ LapsedReads
  /\ HoldLengths
  /\ ClearStays
  /\ NoDoubleHold

------------------------------------------------------------------------------
(***************************************************************************)
(* The steps a recorded row can take, whichever service takes them.        *)
(***************************************************************************)

\* No code path moves a stay or a deadline, or takes a release back.
KeepsRow(b) ==
  /\ bookings'[b].checkIn = bookings[b].checkIn
  /\ bookings'[b].checkOut = bookings[b].checkOut
  /\ bookings'[b].createdAt = bookings[b].createdAt
  /\ bookings'[b].expiresAt = bookings[b].expiresAt
  /\ bookings[b].cancelled => bookings'[b].cancelled
  /\ bookings[b].status = "ABSENT" <=> bookings'[b].status = "ABSENT"

RowMoves(b) ==
  /\ KeepsRow(b)
  /\ \/ bookings'[b] = bookings[b]
     \/ bookings'[b].status = "EXPIRED" /\ bookings'[b].cancelled /\ Abandoned(b)
     \/ bookings'[b].status = "EXPIRED" /\ Released(bookings[b])
     \/ bookings'[b].status = "CANCELLED" /\ bookings'[b].cancelled
     \/ bookings'[b].status = "CONFIRMED"
     \/ bookings'[b].status = "COMPLETED" /\ bookings[b].checkOut < today

==============================================================================
