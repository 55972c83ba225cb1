-------------------------- MODULE PropertyLifecycle --------------------------
(***************************************************************************)
(* The life of one listing from createProperty on: the host's and the      *)
(* administrators' requests about its status, its deletion, and the        *)
(* creation of a booking as far as deletion is concerned.                  *)
(*                                                                         *)
(* A request reads the listing, tests it, and later writes in one          *)
(* transaction without testing again; between the two a decider is the     *)
(* pair of the request's name and the status it will write.  A request     *)
(* that is refused changes nothing and has no step.                        *)
(***************************************************************************)
EXTENDS FiniteSets, Integers

CONSTANTS
  Deciders,      \* clients, each with one request about the listing at a time
  Images,        \* identities of image rows, none used twice
  EditStatuses   \* bound: the statuses plain updates of the listing write

Statuses ==
  {"DRAFT", "PENDING_APPROVAL", "PUBLISHED", "UNPUBLISHED", "REJECTED",
   "REMOVAL_REQUESTED", "ARCHIVED"}

ASSUME EditAssumption == EditStatuses \subseteq Statuses

VARIABLES
  listing,    \* the row: its status, whether the reasons' columns are filled, and
              \* whether a plain update was the last to write them (edited)
  newest,     \* newStatus of the newest row of its status history
  images,     \* its image rows
  booking,    \* one creation request for the listing, and the row it commits
  deciders

rowVars == <<listing, newest, images, booking>>

Requests ==
  {"submit", "unpublish", "republish", "requestRemoval", "cancelRemoval", "approve",
   "reject", "approveRemoval", "rejectRemoval", "archive", "restore", "update", "delete"}

Idle == <<"idle", "NONE">>

Gone == listing.status = "GONE"
Live(i) == images[i] \in {"plain", "cover"}
HasImage == \E i \in Images : Live(i)

Rows ==
  [status : Statuses \cup {"GONE"}, rejection : BOOLEAN, removal : BOOLEAN, edited : BOOLEAN]

LifecycleTypeOK ==
  /\ listing \in Rows
  /\ newest \in Statuses \cup {"NONE"}
  /\ images \in [Images -> {"unborn", "plain", "cover", "deleted"}]
  /\ booking \in {"none", "opened", "made"}
  /\ deciders \in [Deciders -> {Idle} \cup (Requests \X (Statuses \cup {"GONE"}))]

\* What createProperty stores: no image and no history yet.
LifecycleInit ==
  /\ listing = [status |-> "PENDING_APPROVAL", rejection |-> FALSE, removal |-> FALSE,
                edited |-> FALSE]
  /\ newest = "NONE"
  /\ images = [i \in Images |-> "unborn"]
  /\ booking = "none"
  /\ deciders = [d \in Deciders |-> Idle]

------------------------------------------------------------------------------
\* The read of a request that its tests let pass.
Ask(d, request, to, permitted) ==
  /\ deciders[d] = Idle
  /\ ~Gone
  /\ permitted
  /\ deciders' = [deciders EXCEPT ![d] = <<request, to>>]
  /\ UNCHANGED rowVars

\* The transaction: the row, with the reasons as in row, takes the status and the
\* history an entry.  On a listing deleted meanwhile the update throws.
Decide(d, request, to, row) ==
  /\ deciders[d] = <<request, to>>
  /\ deciders' = [deciders EXCEPT ![d] = Idle]
  /\ \/ Gone /\ UNCHANGED <<listing, newest>>
     \/ /\ ~Gone /\ newest' = to
        /\ listing' = [row EXCEPT !.status = to, !.edited = FALSE]
  /\ UNCHANGED <<images, booking>>

Settled(row) == [row EXCEPT !.removal = FALSE]

(***************************************************************************)
(* The host's requests.                                                    *)
(***************************************************************************)
SubmitForApproval(d) ==
  \/ Ask(d, "submit", "PENDING_APPROVAL", HasImage)
  \/ Decide(d, "submit", "PENDING_APPROVAL", listing)

UnpublishProperty(d) ==
  \/ Ask(d, "unpublish", "UNPUBLISHED", listing.status = "PUBLISHED")
  \/ Decide(d, "unpublish", "UNPUBLISHED", listing)

RepublishProperty(d) ==
  \/ Ask(d, "republish", "PUBLISHED", HasImage)
  \/ Decide(d, "republish", "PUBLISHED", listing)

\* Mutation: the reason is not stored with the status.
RequestRemovalUnexplained(d) ==
  \/ Ask(d, "requestRemoval", "REMOVAL_REQUESTED", TRUE)
  \/ Decide(d, "requestRemoval", "REMOVAL_REQUESTED", listing)

RequestPropertyRemoval(d) ==
  \/ Ask(d, "requestRemoval", "REMOVAL_REQUESTED", TRUE)
  \/ Decide(d, "requestRemoval", "REMOVAL_REQUESTED", [listing EXCEPT !.removal = TRUE])

CancelRemovalRequest(d) ==
  \/ Ask(d, "cancelRemoval", "PUBLISHED", listing.status = "REMOVAL_REQUESTED")
  \/ Decide(d, "cancelRemoval", "PUBLISHED", Settled(listing))

\* A plain update writes the columns its body has, whichever they are: a status, the
\* reasons, or neither.  Only a status PUBLISHED is tested, and no history is left.
UpdateProperty(d) ==
  \E to \in EditStatuses :
    \/ Ask(d, "update", to, to = "PUBLISHED" => HasImage)
    \/ /\ deciders[d] = <<"update", to>>
       /\ deciders' = [deciders EXCEPT ![d] = Idle]
       /\ listing' \in IF Gone THEN {listing}
                       ELSE [status : {to, listing.status}, rejection : BOOLEAN,
                             removal : BOOLEAN, edited : {TRUE}]
       /\ UNCHANGED <<newest, images, booking>>

------------------------------------------------------------------------------
(***************************************************************************)
(* The administrators' requests.                                           *)
(***************************************************************************)
ApproveProperty(d) ==
  \/ Ask(d, "approve", "PUBLISHED", HasImage)
  \/ Decide(d, "approve", "PUBLISHED", [listing EXCEPT !.rejection = FALSE])

RejectProperty(d) ==
  \/ Ask(d, "reject", "REJECTED", TRUE)
  \/ Decide(d, "reject", "REJECTED", [listing EXCEPT !.rejection = TRUE])

ApproveRemovalRequest(d) ==
  \/ Ask(d, "approveRemoval", "ARCHIVED", listing.status = "REMOVAL_REQUESTED")
  \/ Decide(d, "approveRemoval", "ARCHIVED", listing)

RejectRemovalRequest(d) ==
  \/ Ask(d, "rejectRemoval", "PUBLISHED", listing.status = "REMOVAL_REQUESTED")
  \/ Decide(d, "rejectRemoval", "PUBLISHED", Settled(listing))

\* Mutation: the archived status is written without a history row.
ArchiveUnrecorded(d) ==
  \/ Ask(d, "archive", "ARCHIVED", TRUE)
  \/ Decide(d, "archive", "ARCHIVED", listing) /\ Gone
  \/ /\ deciders[d] = <<"archive", "ARCHIVED">> /\ ~Gone
     /\ deciders' = [deciders EXCEPT ![d] = Idle]
     /\ listing' = [listing EXCEPT !.status = "ARCHIVED", !.edited = FALSE]
     /\ UNCHANGED <<newest, images, booking>>

ArchiveProperty(d) ==
  \/ Ask(d, "archive", "ARCHIVED", TRUE)
  \/ Decide(d, "archive", "ARCHIVED", listing)

RestoreProperty(d) ==
  \/ Ask(d, "restore", "DRAFT", TRUE)
  \/ Decide(d, "restore", "DRAFT", listing)

\* The bookings are counted before the transaction.  Deleting the row deletes what
\* refers to it, a booking made since the count included.
HardDeleteProperty(d) ==
  \/ Ask(d, "delete", "GONE", booking # "made")
  \/ /\ deciders[d] = <<"delete", "GONE">>
     /\ deciders' = [deciders EXCEPT ![d] = Idle]
     /\ \/ Gone /\ UNCHANGED rowVars
        \/ /\ ~Gone
           /\ listing' = [status |-> "GONE", rejection |-> FALSE, removal |-> FALSE,
                          edited |-> FALSE]
           /\ newest' = "NONE"
           /\ images' = [i \in Images |-> IF Live(i) THEN "deleted" ELSE images[i]]
           /\ booking' = IF booking = "made" THEN "none" ELSE booking

------------------------------------------------------------------------------
\* createBooking reads the status before its transaction, and inserts a row that
\* refers to the listing.
OpenBooking ==
  /\ booking = "none"
  /\ listing.status = "PUBLISHED"
  /\ booking' = "opened"
  /\ UNCHANGED <<listing, newest, images, deciders>>

CommitBooking ==
  /\ booking = "opened"
  /\ booking' = IF Gone THEN "none" ELSE "made"
  /\ UNCHANGED <<listing, newest, images, deciders>>

LifecycleNext ==
  \/ \E d \in Deciders :
       \/ SubmitForApproval(d) \/ UnpublishProperty(d) \/ RepublishProperty(d)
       \/ RequestPropertyRemoval(d) \/ CancelRemovalRequest(d) \/ UpdateProperty(d)
       \/ ApproveProperty(d) \/ RejectProperty(d) \/ ApproveRemovalRequest(d)
       \/ RejectRemovalRequest(d) \/ ArchiveProperty(d) \/ RestoreProperty(d)
       \/ HardDeleteProperty(d)
  \/ OpenBooking
  \/ CommitBooking

==============================================================================
