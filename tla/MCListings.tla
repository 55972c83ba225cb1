------------------------------ MODULE MCListings ------------------------------
(***************************************************************************)
(* Finite instances of PropertySystem.                                     *)
(***************************************************************************)
EXTENDS PropertySystem, TLC

\* Image rows and clients of a kind are interchangeable.
ListingSymmetry == Permutations(Images) \cup Permutations(Deciders)
                   \cup Permutations(Editors)

\* Bounds: at most two requests are under way, and once image requests have overlapped,
\* strayed or failed no decision but the deletion of the listing is followed further.
TwoRequests ==
  /\ Cardinality({d \in Deciders : deciders[d] # Idle})
       + Cardinality({e \in Editors : editors[e] # IdleEdit}) <= 2
  /\ overlapped \/ strayed \/ failed => newest = "NONE" /\ ~listing.edited

==============================================================================
