---------------------------- MODULE PropertyProofs ----------------------------
(***************************************************************************)
(* The safety properties of a listing that hold for any number of clients, *)
(* image rows and files.                                                   *)
(***************************************************************************)
EXTENDS PropertySystem, FiniteSetTheorems, TLAPS

\* The types, and the three properties about the status, together are inductive.
ListingInv ==
  /\ LifecycleTypeOK
  /\ DecisionsAreExplained
  /\ HistoryTellsStatus
  /\ DeletionIsComplete

\* An image request of the host touches only image rows, and none of a deleted listing.
LEMMA ImageStep ==
  ASSUME ListingInv, PropertyImagesNext
  PROVE  /\ UNCHANGED OtherRows
         /\ images' \in [Images -> {"unborn", "plain", "cover", "deleted"}]
         /\ Gone => UNCHANGED images
<1> USE DEF ListingInv, LifecycleTypeOK, OtherRows, rowVars, DeletionIsComplete, HasImage, Live
<1>1. PICK e \in Editors :
        \/ BeginUpload(e) \/ StoreImage(e) \/ SearchCover(e) \/ PromoteImage(e)
        \/ BeginCover(e) \/ SetCover(e)
        \/ BeginDelete(e) \/ BeginStrayDelete(e) \/ DeleteImage(e) \/ SearchNext(e)
        \/ FailEdit(e)
  BY DEF PropertyImagesNext
<1>2. CASE \/ BeginUpload(e) \/ SearchCover(e) \/ BeginCover(e) \/ BeginDelete(e)
           \/ BeginStrayDelete(e) \/ SearchNext(e) \/ FailEdit(e)
  BY <1>2 DEF BeginUpload, SearchCover, BeginCover, BeginDelete, BeginStrayDelete, SearchNext,
     FailEdit, Begin
<1>3. CASE StoreImage(e)
  BY <1>3 DEF StoreImage
<1>4. CASE PromoteImage(e)
  BY <1>4 DEF PromoteImage
<1>5. CASE SetCover(e)
  <2>1. images' \in [Images -> {"unborn", "plain", "cover", "deleted"}]
    BY <1>5 DEF SetCover
  <2>2. Gone => UNCHANGED images
    BY <1>5 DEF SetCover
  <2>3. QED
    BY <1>5, <2>1, <2>2 DEF SetCover
<1>6. CASE DeleteImage(e)
  BY <1>6 DEF DeleteImage
<1>7. QED
  BY <1>1, <1>2, <1>3, <1>4, <1>5, <1>6

\* A request about the status that was read keeps everything but its own client.
LEMMA AskStep ==
  ASSUME ListingInv, NEW d \in Deciders, NEW request \in Requests,
         NEW to \in Statuses \cup {"GONE"}, NEW permitted, Ask(d, request, to, permitted)
  PROVE  ListingInv'
BY DEF Ask, ListingInv, LifecycleTypeOK, rowVars, DecisionsAreExplained, HistoryTellsStatus,
       DeletionIsComplete, Gone, HasImage, Live

\* A decision keeps the invariant if it leaves the listing's reasons explained.
LEMMA DecideStep ==
  ASSUME ListingInv, NEW d \in Deciders, NEW request \in Requests, NEW to \in Statuses,
         NEW row \in Rows,
         to = "REMOVAL_REQUESTED" => row.removal,
         to = "REJECTED" => row.rejection,
         Decide(d, request, to, row)
  PROVE  ListingInv'
<1> USE DEF Decide, ListingInv, LifecycleTypeOK, Gone
<1>r. listing' \in Rows /\ newest' \in Statuses \cup {"NONE"}
  BY DEF Rows
<1>1. LifecycleTypeOK'
  BY <1>r DEF Idle, Statuses
<1>2. DecisionsAreExplained'
  BY DEF DecisionsAreExplained, Rows
<1>3. HistoryTellsStatus'
  BY DEF HistoryTellsStatus, Rows
<1>4. DeletionIsComplete'
  BY DEF DeletionIsComplete, HasImage, Live, Statuses, Rows
<1>5. QED
  BY <1>1, <1>2, <1>3, <1>4

\* Every request about the status, every deletion and every booking keeps the invariant.
LEMMA LifecycleStep ==
  ASSUME ListingInv, LifecycleNext
  PROVE  ListingInv'
<1>t. listing \in Rows
  BY DEF ListingInv, LifecycleTypeOK
<1>r. {Settled(listing), [listing EXCEPT !.rejection = FALSE]} \subseteq Rows
  BY <1>t DEF Settled, Rows
<1>s. /\ [listing EXCEPT !.removal = TRUE] \in Rows
      /\ [listing EXCEPT !.rejection = TRUE] \in Rows
      /\ [listing EXCEPT !.removal = TRUE].removal
      /\ [listing EXCEPT !.rejection = TRUE].rejection
  BY <1>t DEF Rows
<1>1. ASSUME NEW d \in Deciders,
             \/ SubmitForApproval(d) \/ UnpublishProperty(d) \/ RepublishProperty(d)
             \/ RequestPropertyRemoval(d) \/ CancelRemovalRequest(d)
      PROVE  ListingInv'
  <2> USE <1>t, AskStep, DecideStep DEF Statuses, Requests
  <2>1. CASE SubmitForApproval(d)
    BY <2>1 DEF SubmitForApproval
  <2>2. CASE UnpublishProperty(d)
    BY <2>2 DEF UnpublishProperty
  <2>3. CASE RepublishProperty(d)
    BY <2>3 DEF RepublishProperty
  <2>4. CASE RequestPropertyRemoval(d)
    BY <2>4, <1>s DEF RequestPropertyRemoval
  <2>5. CASE CancelRemovalRequest(d)
    BY <2>5, <1>r DEF CancelRemovalRequest
  <2>6. QED
    BY <1>1, <2>1, <2>2, <2>3, <2>4, <2>5
<1>2. ASSUME NEW d \in Deciders, UpdateProperty(d)
      PROVE  ListingInv'
  <2>1. PICK to \in EditStatuses :
          \/ Ask(d, "update", to, to = "PUBLISHED" => HasImage)
          \/ /\ deciders[d] = <<"update", to>>
             /\ deciders' = [deciders EXCEPT ![d] = Idle]
             /\ listing' \in IF Gone THEN {listing}
                             ELSE [status : {to, listing.status}, rejection : BOOLEAN,
                                   removal : BOOLEAN, edited : {TRUE}]
             /\ UNCHANGED <<newest, images, booking>>
    BY <1>2 DEF UpdateProperty
  <2>2. to \in Statuses /\ to # "GONE"
    BY EditAssumption DEF Statuses
  <2>3. CASE Ask(d, "update", to, to = "PUBLISHED" => HasImage)
    BY <2>2, <2>3, AskStep DEF Requests
  <2>4. CASE /\ deciders' = [deciders EXCEPT ![d] = Idle]
             /\ UNCHANGED <<listing, newest, images, booking>>
    BY <2>4 DEF ListingInv, LifecycleTypeOK, DecisionsAreExplained, HistoryTellsStatus,
       DeletionIsComplete, Gone, HasImage, Live
  <2>5. CASE /\ deciders' = [deciders EXCEPT ![d] = Idle]
             /\ ~Gone
             /\ listing' \in [status : {to, listing.status}, rejection : BOOLEAN,
                              removal : BOOLEAN, edited : {TRUE}]
             /\ UNCHANGED <<newest, images, booking>>
    <3>1. listing' \in Rows /\ listing'.edited /\ listing'.status # "GONE"
      BY <1>t, <2>2, <2>5 DEF Rows, Gone
    <3>2. QED
      BY <2>5, <3>1 DEF ListingInv, LifecycleTypeOK, DecisionsAreExplained, HistoryTellsStatus,
         DeletionIsComplete, Gone
  <2>6. QED
    BY <2>1, <2>3, <2>4, <2>5
<1>3. ASSUME NEW d \in Deciders,
             \/ ApproveProperty(d) \/ RejectProperty(d) \/ ApproveRemovalRequest(d)
             \/ RejectRemovalRequest(d) \/ ArchiveProperty(d) \/ RestoreProperty(d)
      PROVE  ListingInv'
  <2> USE <1>t, AskStep, DecideStep DEF Statuses, Requests
  <2>1. CASE ApproveProperty(d)
    BY <2>1, <1>r DEF ApproveProperty
  <2>2. CASE RejectProperty(d)
    BY <2>2, <1>s DEF RejectProperty
  <2>3. CASE ApproveRemovalRequest(d)
    BY <2>3 DEF ApproveRemovalRequest
  <2>4. CASE RejectRemovalRequest(d)
    BY <2>4, <1>r DEF RejectRemovalRequest
  <2>5. CASE ArchiveProperty(d)
    BY <2>5 DEF ArchiveProperty
  <2>6. CASE RestoreProperty(d)
    BY <2>6 DEF RestoreProperty
  <2>7. QED
    BY <1>3, <2>1, <2>2, <2>3, <2>4, <2>5, <2>6
<1>4. ASSUME NEW d \in Deciders, HardDeleteProperty(d)
      PROVE  ListingInv'
  <2>1. CASE Ask(d, "delete", "GONE", booking # "made")
    BY <2>1, AskStep DEF Requests
  <2>2. CASE deciders' = [deciders EXCEPT ![d] = Idle] /\ UNCHANGED rowVars
    BY <2>2 DEF rowVars, ListingInv, LifecycleTypeOK, DecisionsAreExplained,
       HistoryTellsStatus, DeletionIsComplete, Gone, HasImage, Live
  <2>3. CASE /\ deciders' = [deciders EXCEPT ![d] = Idle]
             /\ listing' = [status |-> "GONE", rejection |-> FALSE, removal |-> FALSE,
                            edited |-> FALSE]
             /\ newest' = "NONE"
             /\ images' = [i \in Images |-> IF Live(i) THEN "deleted" ELSE images[i]]
             /\ booking' = IF booking = "made" THEN "none" ELSE booking
    <3>1. LifecycleTypeOK'
      BY <2>3 DEF ListingInv, LifecycleTypeOK, Rows
    <3>2. ~HasImage'
      BY <2>3 DEF HasImage, Live
    <3>3. QED
      BY <2>3, <3>1, <3>2 DEF ListingInv, LifecycleTypeOK, DecisionsAreExplained,
         HistoryTellsStatus, DeletionIsComplete
  <2>4. QED
    BY <1>4, <2>1, <2>2, <2>3 DEF HardDeleteProperty
<1>5. CASE OpenBooking \/ CommitBooking
  BY <1>5 DEF OpenBooking, CommitBooking, ListingInv, LifecycleTypeOK, DecisionsAreExplained,
     HistoryTellsStatus, DeletionIsComplete, Gone, HasImage, Live
<1>6. QED
  BY <1>1, <1>2, <1>3, <1>4, <1>5 DEF LifecycleNext

\* The invariant holds of every reachable state.
LEMMA ListingInvariant == Spec => []ListingInv
<1>1. Init => ListingInv
  BY DEF Init, LifecycleInit, ListingInv, LifecycleTypeOK, DecisionsAreExplained,
     HistoryTellsStatus, DeletionIsComplete, Gone, HasImage, Live, Statuses, Rows
<1>2. ListingInv /\ [Next]_vars => ListingInv'
  <2> SUFFICES ASSUME ListingInv, [Next]_vars PROVE ListingInv'
    OBVIOUS
  <2>1. CASE LifecycleNext
    BY <2>1, LifecycleStep
  <2>2. CASE PropertyImagesNext
    <3>1. /\ UNCHANGED OtherRows
          /\ images' \in [Images -> {"unborn", "plain", "cover", "deleted"}]
          /\ Gone => UNCHANGED images
      BY <2>2, ImageStep
    <3>2. QED
      BY <3>1 DEF OtherRows, ListingInv, LifecycleTypeOK, DecisionsAreExplained,
         HistoryTellsStatus, DeletionIsComplete, Gone, HasImage, Live
  <2>3. CASE UNCHANGED vars
    BY <2>3 DEF vars, rowVars, ListingInv, LifecycleTypeOK, DecisionsAreExplained,
       HistoryTellsStatus, DeletionIsComplete, Gone, HasImage, Live
  <2>4. QED
    BY <2>1, <2>2, <2>3 DEF Next
<1>3. QED
  BY <1>1, <1>2, PTL DEF Spec

\* An idle client, and a client that goes on to a well-formed request, are well typed.
LEMMA IdleIsRequest == IdleEdit \in EditRequest /\ IdleEdit.pc = "idle"
BY DEF IdleEdit, EditRequest

\* An image request that moves on keeps the types.
LEMMA GotoTyped ==
  ASSUME PropertyImagesTypeOK, NEW e \in Editors, NEW to \in EditRequest,
         EditGoto(e, to), to.pc = "upload" => to.files \in 1..MaxFiles,
         failed' \in BOOLEAN, overlapped' \in BOOLEAN, strayed' \in BOOLEAN
  PROVE  PropertyImagesTypeOK'
BY DEF PropertyImagesTypeOK, EditGoto

\* An upload begins with at least one file and stores the last one as it ends.
LEMMA UploadTyped ==
  ASSUME PropertyImagesTypeOK, NEW e \in Editors,
         failed' \in BOOLEAN, overlapped' \in BOOLEAN, strayed' \in BOOLEAN,
         BeginUpload(e) \/ StoreImage(e)
  PROVE  PropertyImagesTypeOK'
<1>1. CASE BeginUpload(e)
  <2>1. PICK n \in 1..MaxFiles, m \in 1..MaxFiles :
          EditGoto(e, [pc |-> "upload", files |-> n, first |-> NoImage,
                       main |-> IF HasImage THEN 0 ELSE m])
    BY <1>1 DEF BeginUpload, Begin
  <2> DEFINE to == [pc |-> "upload", files |-> n, first |-> NoImage,
                    main |-> IF HasImage THEN 0 ELSE m]
  <2>2. to \in EditRequest
    <3>1. n \in Nat /\ (IF HasImage THEN 0 ELSE m) \in Nat
      BY ImagesAssumption
    <3>2. QED
      BY <3>1 DEF EditRequest
  <2>3. to.pc = "upload" /\ to.files \in 1..MaxFiles
    OBVIOUS
  <2>4. QED
    BY <2>1, <2>2, <2>3, GotoTyped
<1>2. CASE StoreImage(e)
  <2> DEFINE edit == editors[e]
  <2>1. CASE EditGoto(e, IdleEdit)
    BY <2>1, IdleIsRequest, GotoTyped
  <2>2. CASE ~EditGoto(e, IdleEdit)
    <3>1. PICK i \in Images :
            EditGoto(e, [edit EXCEPT !.files = @ - 1,
                                     !.main = IF edit.files = 1 \/ @ = 0 THEN 0 ELSE @ - 1,
                                     !.first = IF @ = NoImage THEN i ELSE @,
                                     !.pc = IF edit.files = 1 THEN "stored" ELSE "upload"])
      BY <1>2, <2>2 DEF StoreImage
    <3> DEFINE to == [edit EXCEPT !.files = @ - 1,
                                  !.main = IF edit.files = 1 \/ @ = 0 THEN 0 ELSE @ - 1,
                                  !.first = IF @ = NoImage THEN i ELSE @,
                                  !.pc = IF edit.files = 1 THEN "stored" ELSE "upload"]
    <3>2. edit \in EditRequest /\ edit.files \in 1..MaxFiles
      BY <1>2 DEF StoreImage, PropertyImagesTypeOK
    <3>3. to \in EditRequest /\ (to.pc = "upload" => to.files \in 1..MaxFiles)
      <4>1. CASE edit.files = 1
        <5>1. edit.files - 1 = 0 /\ 0 \in Nat
          BY <4>1
        <5>2. to = [edit EXCEPT !.files = 0, !.main = 0, !.pc = "stored",
                                !.first = IF @ = NoImage THEN i ELSE @]
          BY <3>2, <4>1, <5>1 DEF EditRequest
        <5>3. QED
          BY <3>2, <5>1, <5>2 DEF EditRequest
      <4>2. CASE edit.files # 1
        <5> DEFINE main == IF edit.main = 0 THEN 0 ELSE edit.main - 1
        <5>1. edit.files - 1 \in Nat /\ edit.files - 1 \in 1..MaxFiles /\ main \in Nat
          BY <3>2, <4>2, ImagesAssumption DEF EditRequest
        <5>2. to = [edit EXCEPT !.files = edit.files - 1, !.main = main, !.pc = "upload",
                                !.first = IF @ = NoImage THEN i ELSE @]
          BY <3>2, <4>2 DEF EditRequest
        <5> HIDE DEF main
        <5>3. QED
          BY <3>2, <5>1, <5>2 DEF EditRequest
      <4>3. QED
        BY <4>1, <4>2
    <3>4. QED
      BY <3>1, <3>3, GotoTyped
  <2>3. QED
    BY <2>1, <2>2
<1>3. QED
  BY <1>1, <1>2

\* So does every other image request.
LEMMA EditStep ==
  ASSUME PropertyImagesTypeOK, PropertyImagesNext
  PROVE  PropertyImagesTypeOK'
<1>1. PICK e \in Editors :
        \/ BeginUpload(e) \/ StoreImage(e) \/ SearchCover(e) \/ PromoteImage(e)
        \/ BeginCover(e) \/ SetCover(e)
        \/ BeginDelete(e) \/ BeginStrayDelete(e) \/ DeleteImage(e) \/ SearchNext(e)
        \/ FailEdit(e)
  BY DEF PropertyImagesNext
<1>2. failed' \in BOOLEAN /\ overlapped' \in BOOLEAN /\ strayed' \in BOOLEAN
  <2>1. ASSUME NEW f \in Editors,
               BeginUpload(f) \/ BeginCover(f) \/ BeginDelete(f) \/ BeginStrayDelete(f)
        PROVE  overlapped' \in BOOLEAN
    <3>1. PICK to : Begin(f, to)
      BY <2>1 DEF BeginUpload, BeginCover, BeginDelete, BeginStrayDelete
    <3> DEFINE busy == \E o \in Editors \ {f} : editors[o] # IdleEdit
    <3>2. overlapped' = (overlapped \/ busy)
      BY <3>1 DEF Begin
    <3>3. busy \in BOOLEAN /\ overlapped \in BOOLEAN
      BY Zenon DEF PropertyImagesTypeOK
    <3> QED BY <3>2, <3>3
  <2>2. failed \in BOOLEAN /\ overlapped \in BOOLEAN /\ strayed \in BOOLEAN
    BY DEF PropertyImagesTypeOK
  <2>3. ASSUME NEW f \in Editors, SetCover(f)
        PROVE  strayed' \in BOOLEAN
    <3> DEFINE i == editors[f].first
    <3>1. strayed' = (strayed /\ ~Live(i))
      BY <2>3 DEF SetCover
    <3>2. (strayed /\ ~Live(i)) \in BOOLEAN
      BY Zenon
    <3> QED BY <3>1, <3>2
  <2>4. overlapped' \in BOOLEAN
    BY <2>1, <2>2 DEF PropertyImagesNext, FailEdit
  <2>5. strayed' \in BOOLEAN
    BY <2>2, <2>3 DEF PropertyImagesNext, FailEdit, BeginDelete, BeginStrayDelete
  <2>6. failed' \in BOOLEAN
    BY <2>2 DEF PropertyImagesNext, FailEdit
  <2> QED BY <2>4, <2>5, <2>6
<1>3. editors[e] \in EditRequest
  BY DEF PropertyImagesTypeOK
<1>4. CASE BeginUpload(e) \/ StoreImage(e)
  BY <1>2, <1>4, UploadTyped
<1>5. CASE EditGoto(e, IdleEdit)
  BY <1>2, <1>5, IdleIsRequest, GotoTyped
<1>6. CASE \E pc \in {"promote", "deleted"} : EditGoto(e, [editors[e] EXCEPT !.pc = pc])
  <2>1. PICK pc \in {"promote", "deleted"} : EditGoto(e, [editors[e] EXCEPT !.pc = pc])
    BY <1>6
  <2>2. [editors[e] EXCEPT !.pc = pc] \in EditRequest
    BY <1>3 DEF EditRequest
  <2>3. [editors[e] EXCEPT !.pc = pc].pc # "upload"
    BY <1>3 DEF EditRequest
  <2>4. QED
    BY <1>2, <2>1, <2>2, <2>3, GotoTyped
<1>7. CASE BeginCover(e)
  <2>1. PICK i \in Images : EditGoto(e, [IdleEdit EXCEPT !.pc = "cover", !.first = i])
    BY <1>7 DEF BeginCover, Begin, LiveImages
  <2>2. [IdleEdit EXCEPT !.pc = "cover", !.first = i] \in EditRequest
    BY IdleIsRequest DEF EditRequest
  <2>3. [IdleEdit EXCEPT !.pc = "cover", !.first = i].pc # "upload"
    BY IdleIsRequest DEF EditRequest
  <2>4. QED
    BY <1>2, <2>1, <2>2, <2>3, GotoTyped
<1>8. CASE BeginDelete(e)
  <2>1. PICK i \in Images, main \in {0, 1} :
          EditGoto(e, [IdleEdit EXCEPT !.pc = "delete", !.first = i, !.main = main])
    <3>1. PICK i \in Images :
            EditGoto(e, [IdleEdit EXCEPT !.pc = "delete", !.first = i,
                                         !.main = IF images[i] = "cover" THEN 1 ELSE 0])
      BY <1>8 DEF BeginDelete, Begin, LiveImages
    <3>2. (IF images[i] = "cover" THEN 1 ELSE 0) \in {0, 1}
      OBVIOUS
    <3>3. QED
      BY <3>1, <3>2
  <2>2. [IdleEdit EXCEPT !.pc = "delete", !.first = i, !.main = main] \in EditRequest
    <3>1. main \in Nat
      OBVIOUS
    <3>2. QED
      BY <3>1, IdleIsRequest DEF EditRequest
  <2>3. [IdleEdit EXCEPT !.pc = "delete", !.first = i, !.main = main].pc # "upload"
    BY IdleIsRequest DEF EditRequest
  <2>4. QED
    BY <1>2, <2>1, <2>2, <2>3, GotoTyped
<1>9. CASE SearchNext(e) /\ ~EditGoto(e, IdleEdit)
  <2>1. PICK i \in Images : EditGoto(e, [editors[e] EXCEPT !.pc = "promote", !.first = i])
    BY <1>9 DEF SearchNext, LiveImages
  <2>2. [editors[e] EXCEPT !.pc = "promote", !.first = i] \in EditRequest
    BY <1>3 DEF EditRequest
  <2>3. [editors[e] EXCEPT !.pc = "promote", !.first = i].pc # "upload"
    BY <1>3 DEF EditRequest
  <2>4. QED
    BY <1>2, <2>1, <2>2, <2>3, GotoTyped
<1>11. CASE BeginStrayDelete(e)
  <2>1. \/ \E i \in Images : EditGoto(e, [IdleEdit EXCEPT !.pc = "delete", !.first = i])
        \/ EditGoto(e, [IdleEdit EXCEPT !.pc = "deleted"])
    BY <1>11 DEF BeginStrayDelete, Begin, LiveImages
  <2>2. /\ [IdleEdit EXCEPT !.pc = "deleted"] \in EditRequest
        /\ [IdleEdit EXCEPT !.pc = "deleted"].pc # "upload"
    BY IdleIsRequest DEF EditRequest
  <2>3. ASSUME NEW i \in Images
        PROVE  /\ [IdleEdit EXCEPT !.pc = "delete", !.first = i] \in EditRequest
               /\ [IdleEdit EXCEPT !.pc = "delete", !.first = i].pc # "upload"
    BY IdleIsRequest DEF EditRequest
  <2>4. QED
    BY <1>2, <2>1, <2>2, <2>3, GotoTyped
<1>10. QED
  <2>1. CASE SearchCover(e)
    BY <1>5, <1>6, <2>1 DEF SearchCover
  <2>2. CASE PromoteImage(e) \/ SetCover(e) \/ FailEdit(e)
    BY <1>5, <2>2 DEF PromoteImage, SetCover, FailEdit
  <2>3. CASE DeleteImage(e)
    BY <1>5, <1>6, <2>3 DEF DeleteImage
  <2>4. QED
    BY <1>1, <1>4, <1>5, <1>7, <1>8, <1>9, <1>11, <2>1, <2>2, <2>3

\* Every variable of the listing and its clients keeps its type; in particular an upload
\* never runs out of files before its last row is stored.
THEOREM ListingTypes == Spec => []ListingTypeOK
<1>1. Init => PropertyImagesTypeOK
  BY IdleIsRequest DEF Init, PropertyImagesInit, PropertyImagesTypeOK
<1>2. PropertyImagesTypeOK /\ [Next]_vars => PropertyImagesTypeOK'
  <2>1. ASSUME PropertyImagesTypeOK, UNCHANGED <<editors, failed, overlapped, strayed>>
        PROVE  PropertyImagesTypeOK'
    BY <2>1 DEF PropertyImagesTypeOK
  <2>2. QED
    BY <2>1, EditStep DEF Next, vars
<1>3. ListingInv => LifecycleTypeOK
  BY DEF ListingInv
<1>4. QED
  BY <1>1, <1>2, <1>3, ListingInvariant, PTL DEF Spec, ListingTypeOK

\* Whoever decides about a listing in whatever order, a rejection and a removal request
\* have their reason, until a plain update, which may write any status and empty any
\* reason, and again from the next decision on.
THEOREM DecisionsExplained == Spec => []DecisionsAreExplained
<1>1. ListingInv => DecisionsAreExplained
  BY DEF ListingInv
<1>2. QED
  BY <1>1, ListingInvariant, PTL

\* The newest history entry tells the status of every listing no plain update wrote last.
THEOREM HistoryTells == Spec => []HistoryTellsStatus
<1>1. ListingInv => HistoryTellsStatus
  BY DEF ListingInv
<1>2. QED
  BY <1>1, ListingInvariant, PTL

\* Deleting a listing is final: no pending upload, decision or booking stores a row for it.
THEOREM DeletionCompletes == Spec => []DeletionIsComplete
<1>1. ListingInv => DeletionIsComplete
  BY DEF ListingInv
<1>2. QED
  BY <1>1, ListingInvariant, PTL

------------------------------------------------------------------------------
(***************************************************************************)
(* The limit of the images, for any number of image requests under way.    *)
(***************************************************************************)

\* The files that uploads under way have still to store.
Pending ==
  {p \in Editors \X (1..MaxFiles) :
     editors[p[1]].pc = "upload" /\ p[2] <= editors[p[1]].files}

\* The images there are, with the files still to store, stay within the limit, or exceed
\* it by what overlapping uploads may add.
RoomLeft ==
  /\ IsFiniteSet(LiveImages)
  /\ Cardinality(LiveImages) + Cardinality(Pending) <= MaxImages + Surplus

\* The pending files of some editors are finitely many, at most MaxFiles of each.
LEMMA PendingBound ==
  ASSUME NEW E, E \subseteq Editors, NEW S, S \subseteq E \X (1..MaxFiles)
  PROVE  /\ IsFiniteSet(S) /\ Cardinality(S) \in Nat
         /\ IsFiniteSet(E) /\ Cardinality(E) \in Nat
         /\ Cardinality(S) <= Cardinality(E) * MaxFiles
<1>1. IsFiniteSet(E) /\ Cardinality(E) \in Nat
  BY ImagesAssumption, FS_Subset, FS_CardinalityType
<1>2. IsFiniteSet(1..MaxFiles) /\ Cardinality(1..MaxFiles) = MaxFiles
  BY ImagesAssumption, FS_Interval
<1>3. /\ IsFiniteSet(E \X (1..MaxFiles))
      /\ Cardinality(E \X (1..MaxFiles)) = Cardinality(E) * MaxFiles
  BY <1>1, <1>2, FS_Product
<1> QED BY <1>1, <1>3, FS_Subset, FS_CardinalityType

\* The surplus is a number.
LEMMA SurplusType == Surplus \in Nat
<1>1. Cardinality(Editors) \in Nat /\ Cardinality(Editors) # 0
  BY ImagesAssumption, FS_CardinalityType, FS_EmptySet
<1>2. (Cardinality(Editors) - 1) * MaxFiles \in Nat
  BY <1>1, ImagesAssumption
<1> QED BY <1>2 DEF Surplus

\* And it does not shrink, as an overlap is remembered.
LEMMA SurplusGrows ==
  ASSUME overlapped => overlapped'
  PROVE  Surplus \in Nat /\ Surplus' \in Nat /\ Surplus <= Surplus'
<1> DEFINE rest == (Cardinality(Editors) - 1) * MaxFiles
<1>1. Cardinality(Editors) \in Nat /\ Cardinality(Editors) # 0
  BY ImagesAssumption, FS_CardinalityType, FS_EmptySet
<1>2. rest \in Nat
  BY <1>1, ImagesAssumption
<1> HIDE DEF rest
<1>3. Surplus = (IF overlapped THEN rest ELSE 0) /\ Surplus' = (IF overlapped' THEN rest ELSE 0)
  BY DEF Surplus, rest
<1> QED BY <1>2, <1>3

\* While neither images nor pending files are added, the limit holds.
LEMMA RoomKept ==
  ASSUME RoomLeft, LiveImages' \subseteq LiveImages, Pending' \subseteq Pending,
         overlapped => overlapped'
  PROVE  RoomLeft'
<1>1. /\ IsFiniteSet(LiveImages') /\ Cardinality(LiveImages') \in Nat
      /\ Cardinality(LiveImages') <= Cardinality(LiveImages) /\ Cardinality(LiveImages) \in Nat
  BY FS_Subset, FS_CardinalityType DEF RoomLeft
<1>2. Pending \subseteq Editors \X (1..MaxFiles)
  BY DEF Pending
<1>3. IsFiniteSet(Pending) /\ Cardinality(Pending) \in Nat
  BY <1>2, PendingBound
<1>4. Cardinality(Pending') \in Nat /\ Cardinality(Pending') <= Cardinality(Pending)
  BY <1>3, FS_Subset, FS_CardinalityType
<1> QED BY <1>1, <1>3, <1>4, SurplusGrows, ImagesAssumption DEF RoomLeft

\* A request that moves on leaves the pending files of the others as they are.
LEMMA PendingMoves ==
  ASSUME PropertyImagesTypeOK, NEW e \in Editors, NEW to, EditGoto(e, to)
  PROVE  \A p \in Editors \X (1..MaxFiles) :
           p \in Pending' <=>
             IF p[1] = e THEN to.pc = "upload" /\ p[2] <= to.files ELSE p \in Pending
<1>1. /\ editors'[e] = to
      /\ \A f \in Editors \ {e} : editors'[f] = editors[f]
  BY DEF EditGoto, PropertyImagesTypeOK
<1>2. SUFFICES ASSUME NEW f \in Editors, NEW k \in 1..MaxFiles
               PROVE  <<f, k>> \in Pending' <=>
                        IF f = e THEN to.pc = "upload" /\ k <= to.files ELSE <<f, k>> \in Pending
  OBVIOUS
<1>3. /\ <<f, k>> \in Pending <=> editors[f].pc = "upload" /\ k <= editors[f].files
      /\ <<f, k>> \in Pending' <=> editors'[f].pc = "upload" /\ k <= editors'[f].files
  BY DEF Pending
<1> QED BY <1>1, <1>3

\* An upload tests its files against the images there are: alone it stays within the limit,
\* and otherwise beyond it only by what the others have still to store.
LEMMA RoomForUpload ==
  ASSUME RoomLeft, PropertyImagesTypeOK, NEW e \in Editors, BeginUpload(e)
  PROVE  RoomLeft'
<1>1. PICK n \in 1..MaxFiles, m \in 1..MaxFiles :
        /\ Cardinality(LiveImages) + n <= MaxImages
        /\ Begin(e, [pc |-> "upload", files |-> n, first |-> NoImage,
                     main |-> IF HasImage THEN 0 ELSE m])
  BY DEF BeginUpload
<1> DEFINE to == [pc |-> "upload", files |-> n, first |-> NoImage,
                  main |-> IF HasImage THEN 0 ELSE m]
           Own == {e} \X (1..n)
           Others == {p \in Pending : p[1] # e}
<1>2. /\ LiveImages' = LiveImages
      /\ Cardinality(LiveImages) \in Nat /\ n \in Nat /\ IsFiniteSet(LiveImages)
  BY ImagesAssumption, FS_CardinalityType DEF BeginUpload, LiveImages, Live, rowVars, RoomLeft
<1>3. to.pc = "upload" /\ to.files = n
  OBVIOUS
<1> HIDE DEF to
<1>4. Pending' \subseteq Own \cup Others
  <2>1. \A p \in Editors \X (1..MaxFiles) :
          p \in Pending' => IF p[1] = e THEN p[2] <= n ELSE p \in Pending
    BY <1>1, <1>3, PendingMoves DEF Begin, to
  <2>2. SUFFICES ASSUME NEW f \in Editors, NEW k \in 1..MaxFiles, <<f, k>> \in Pending'
                 PROVE  <<f, k>> \in Own \cup Others
    BY DEF Pending
  <2> QED BY <2>1, <2>2, <1>2, ImagesAssumption
<1>5. IsFiniteSet(Own) /\ Cardinality(Own) = n
  <2>1. IsFiniteSet(1..n) /\ Cardinality(1..n) = n
    BY <1>2, FS_Interval
  <2>2. IsFiniteSet({e}) /\ Cardinality({e}) = 1
    BY FS_Singleton
  <2>3. IsFiniteSet(Own) /\ Cardinality(Own) = Cardinality({e}) * Cardinality(1..n)
    BY <2>1, <2>2, FS_Product
  <2> QED BY <1>2, <2>1, <2>2, <2>3
<1>6. /\ IsFiniteSet(Others) /\ Cardinality(Others) \in Nat
      /\ Cardinality(Others) <= (Cardinality(Editors) - 1) * MaxFiles
  <2>1. Others \subseteq (Editors \ {e}) \X (1..MaxFiles)
    BY DEF Pending
  <2>2. Cardinality(Editors \ {e}) = Cardinality(Editors) - 1
    BY ImagesAssumption, FS_RemoveElement
  <2> QED BY <2>1, <2>2, PendingBound
<1>7. Cardinality(Pending') \in Nat /\ Cardinality(Pending') <= n + Cardinality(Others)
  <2>1. /\ IsFiniteSet(Own \cup Others)
        /\ Cardinality(Own \cup Others)
             = Cardinality(Own) + Cardinality(Others) - Cardinality(Own \cap Others)
    BY <1>5, <1>6, FS_Union
  <2>2. Cardinality(Own \cap Others) \in Nat
    BY <1>5, FS_Intersection, FS_CardinalityType
  <2>3. Cardinality(Pending') \in Nat /\ Cardinality(Pending') <= Cardinality(Own \cup Others)
    BY <1>4, <2>1, FS_Subset, FS_CardinalityType
  <2> QED BY <1>2, <1>5, <1>6, <2>1, <2>2, <2>3, FS_CardinalityType
<1>8. CASE overlapped'
  <2>1. Surplus' = (Cardinality(Editors) - 1) * MaxFiles
    BY <1>8 DEF Surplus
  <2>2. (Cardinality(Editors) - 1) * MaxFiles \in Int
    BY ImagesAssumption, FS_CardinalityType
  <2> QED BY <1>1, <1>2, <1>6, <1>7, <2>1, <2>2, ImagesAssumption DEF RoomLeft
<1>9. CASE ~overlapped'
  <2>1. \A f \in Editors \ {e} : editors[f] = IdleEdit
    BY <1>1, <1>9 DEF Begin
  <2>2. Others = {}
    BY <2>1, IdleIsRequest DEF Pending
  <2>3. Cardinality(Others) = 0 /\ Surplus' = 0
    BY <2>2, <1>9, FS_EmptySet DEF Surplus
  <2> QED BY <1>1, <1>2, <1>7, <2>3, ImagesAssumption DEF RoomLeft
<1> QED BY <1>8, <1>9

\* A stored file takes the place of a pending one.
LEMMA RoomForImage ==
  ASSUME RoomLeft, PropertyImagesTypeOK, LifecycleTypeOK, NEW e \in Editors, StoreImage(e),
         UNCHANGED overlapped
  PROVE  RoomLeft'
<1> DEFINE edit == editors[e]
<1>t. edit \in EditRequest /\ edit.pc = "upload" /\ edit.files \in 1..MaxFiles
  BY DEF StoreImage, PropertyImagesTypeOK
<1>1. CASE EditGoto(e, IdleEdit) /\ UNCHANGED images
  <2>1. LiveImages' = LiveImages
    BY <1>1 DEF LiveImages, Live
  <2>2. Pending' \subseteq Pending
    BY <1>1, PendingMoves, IdleIsRequest DEF Pending
  <2> QED BY <2>1, <2>2, RoomKept
<1>2. CASE ~(EditGoto(e, IdleEdit) /\ UNCHANGED images)
  <2>1. PICK i \in Images :
          /\ images[i] = "unborn"
          /\ images' = [images EXCEPT ![i] = IF edit.main = 1 THEN "cover" ELSE "plain"]
          /\ EditGoto(e, [edit EXCEPT !.files = @ - 1,
                            !.main = IF edit.files = 1 \/ @ = 0 THEN 0 ELSE @ - 1,
                            !.first = IF @ = NoImage THEN i ELSE @,
                            !.pc = IF edit.files = 1 THEN "stored" ELSE "upload"])
    BY <1>2 DEF StoreImage
  <2> DEFINE to == [edit EXCEPT !.files = @ - 1,
                            !.main = IF edit.files = 1 \/ @ = 0 THEN 0 ELSE @ - 1,
                            !.first = IF @ = NoImage THEN i ELSE @,
                            !.pc = IF edit.files = 1 THEN "stored" ELSE "upload"]
  <2>2. to.files = edit.files - 1 /\ EditGoto(e, to)
    BY <1>t, <2>1 DEF EditRequest
  <2> HIDE DEF to
  <2>3. LiveImages' = LiveImages \cup {i} /\ i \notin LiveImages
    BY <2>1 DEF LiveImages, Live, LifecycleTypeOK
  <2>4. /\ IsFiniteSet(LiveImages') /\ Cardinality(LiveImages') = Cardinality(LiveImages) + 1
        /\ Cardinality(LiveImages) \in Nat
    BY <2>3, FS_AddElement, FS_CardinalityType DEF RoomLeft
  <2>5. <<e, edit.files>> \in Pending /\ Pending \subseteq Editors \X (1..MaxFiles)
    BY <1>t DEF Pending
  <2>6. Pending' \subseteq Pending \ {<<e, edit.files>>}
    <3>1. SUFFICES ASSUME NEW f \in Editors, NEW k \in 1..MaxFiles, <<f, k>> \in Pending'
                   PROVE  <<f, k>> \in Pending \ {<<e, edit.files>>}
      BY DEF Pending
    <3>2. IF f = e THEN k <= to.files ELSE <<f, k>> \in Pending
      BY <2>2, <3>1, PendingMoves
    <3> QED BY <1>t, <2>2, <3>2, ImagesAssumption DEF Pending
  <2>7. IsFiniteSet(Pending) /\ Cardinality(Pending) \in Nat
    BY <2>5, PendingBound
  <2>8. /\ IsFiniteSet(Pending \ {<<e, edit.files>>})
        /\ Cardinality(Pending \ {<<e, edit.files>>}) = Cardinality(Pending) - 1
    BY <2>5, <2>7, FS_RemoveElement
  <2>9. Cardinality(Pending') \in Nat /\ Cardinality(Pending') <= Cardinality(Pending) - 1
    BY <2>6, <2>8, FS_Subset, FS_CardinalityType
  <2>10. Surplus' = Surplus /\ Surplus \in Nat
    BY SurplusGrows DEF Surplus
  <2> QED BY <2>4, <2>7, <2>9, <2>10, ImagesAssumption DEF RoomLeft
<1> QED BY <1>1, <1>2

\* A request about the status, a deletion or a booking leaves the images as they are or,
\* with the listing gone, none; and a listing that is gone stays gone.
LEMMA LifecycleImages ==
  ASSUME LifecycleNext
  PROVE  /\ Gone => Gone'
         /\ \/ UNCHANGED images
            \/ Gone' /\ images' = [i \in Images |-> IF Live(i) THEN "deleted" ELSE images[i]]
<1>1. ASSUME NEW d \in Deciders, UpdateProperty(d)
      PROVE  (Gone => Gone') /\ UNCHANGED images
  <2>1. \/ UNCHANGED rowVars
        \/ UNCHANGED images /\ (Gone => listing' \in {listing})
    BY <1>1 DEF UpdateProperty, Ask
  <2> QED BY <2>1 DEF Gone, rowVars
<1>2. CASE ~\E d \in Deciders : UpdateProperty(d)
  BY <1>2 DEF Gone, LifecycleNext, SubmitForApproval, UnpublishProperty, RepublishProperty,
     RequestPropertyRemoval, CancelRemovalRequest, ApproveProperty, RejectProperty,
     ApproveRemovalRequest, RejectRemovalRequest, ArchiveProperty, RestoreProperty,
     HardDeleteProperty, OpenBooking, CommitBooking, Ask, Decide, rowVars
<1> QED BY <1>1, <1>2

\* Every step keeps the images within the limit.
LEMMA RoomStep ==
  ASSUME ListingInv, PropertyImagesTypeOK, RoomLeft, Next
  PROVE  RoomLeft'
<1>t. images \in [Images -> {"unborn", "plain", "cover", "deleted"}]
  BY DEF ListingInv, LifecycleTypeOK
<1>1. CASE LifecycleNext /\ UNCHANGED <<editors, failed, overlapped, strayed>>
  <2>1. LiveImages' \subseteq LiveImages
    BY <1>t, <1>1, LifecycleImages DEF LiveImages, Live
  <2> QED BY <1>1, <2>1, RoomKept DEF Pending
<1>2. ASSUME NEW e \in Editors, LiveImages' \subseteq LiveImages, overlapped => overlapped',
             NEW to, EditGoto(e, to), to.pc # "upload"
      PROVE  RoomLeft'
  <2>1. Pending' \subseteq Pending
    BY <1>2, PendingMoves DEF Pending
  <2> QED BY <1>2, <2>1, RoomKept
<1>3. ASSUME NEW e \in Editors, BeginUpload(e)
      PROVE  RoomLeft'
  BY <1>3, RoomForUpload
<1>4. ASSUME NEW e \in Editors, BeginCover(e) \/ BeginDelete(e) \/ BeginStrayDelete(e)
      PROVE  RoomLeft'
  <2>1. ASSUME BeginCover(e) PROVE \E to : Begin(e, to) /\ to.pc # "upload"
    <3>1. PICK i \in Images : Begin(e, [IdleEdit EXCEPT !.pc = "cover", !.first = i])
      BY <2>1 DEF BeginCover, LiveImages
    <3>2. [IdleEdit EXCEPT !.pc = "cover", !.first = i].pc # "upload"
      BY DEF IdleEdit
    <3> QED BY <3>1, <3>2
  <2>2. ASSUME BeginDelete(e) PROVE \E to : Begin(e, to) /\ to.pc # "upload"
    <3>1. PICK i \in Images :
            Begin(e, [IdleEdit EXCEPT !.pc = "delete", !.first = i,
                                      !.main = IF images[i] = "cover" THEN 1 ELSE 0])
      BY <2>2 DEF BeginDelete, LiveImages
    <3> DEFINE to == [IdleEdit EXCEPT !.pc = "delete", !.first = i,
                                      !.main = IF images[i] = "cover" THEN 1 ELSE 0]
    <3>2. to.pc # "upload"
      BY DEF IdleEdit
    <3>3. Begin(e, to)
      BY <3>1
    <3> HIDE DEF to
    <3> QED BY <3>2, <3>3
  <2>5. ASSUME BeginStrayDelete(e) PROVE \E to : Begin(e, to) /\ to.pc # "upload"
    <3>1. /\ [IdleEdit EXCEPT !.pc = "deleted"].pc # "upload"
          /\ \A i \in Images : [IdleEdit EXCEPT !.pc = "delete", !.first = i].pc # "upload"
      BY DEF IdleEdit
    <3>2. CASE Begin(e, [IdleEdit EXCEPT !.pc = "deleted"])
      BY <3>1, <3>2
    <3>3. CASE \E i \in Images : Begin(e, [IdleEdit EXCEPT !.pc = "delete", !.first = i])
      BY <3>1, <3>3
    <3> QED BY <2>5, <3>2, <3>3 DEF BeginStrayDelete, LiveImages
  <2>3. PICK to : Begin(e, to) /\ to.pc # "upload"
    BY <1>4, <2>1, <2>2, <2>5
  <2>4. LiveImages' = LiveImages
    BY <1>4 DEF BeginCover, BeginDelete, BeginStrayDelete, LiveImages, Live, rowVars
  <2> QED BY <1>2, <2>3, <2>4 DEF Begin
<1>5. ASSUME NEW e \in Editors, StoreImage(e), UNCHANGED overlapped
      PROVE  RoomLeft'
  BY <1>5, RoomForImage DEF ListingInv
<1>6. ASSUME NEW e \in Editors, UNCHANGED overlapped,
             \/ SearchCover(e) \/ PromoteImage(e) \/ SetCover(e)
             \/ DeleteImage(e) \/ SearchNext(e) \/ FailEdit(e)
      PROVE  RoomLeft'
  <2>1. LiveImages' \subseteq LiveImages
    <3>1. CASE SearchCover(e) \/ SearchNext(e) \/ FailEdit(e)
      BY <3>1 DEF SearchCover, SearchNext, FailEdit, rowVars, LiveImages, Live
    <3>2. CASE PromoteImage(e)
      BY <1>t, <3>2 DEF PromoteImage, LiveImages, Live
    <3>3. CASE SetCover(e)
      BY <1>t, <3>3 DEF SetCover, LiveImages, Live
    <3>4. CASE DeleteImage(e)
      BY <1>t, <3>4 DEF DeleteImage, LiveImages, Live
    <3> QED BY <1>6, <3>1, <3>2, <3>3, <3>4
  <2>2. editors[e] \in EditRequest
    BY DEF PropertyImagesTypeOK
  <2>3. \/ EditGoto(e, IdleEdit)
        \/ \E pc \in {"promote", "deleted"} : EditGoto(e, [editors[e] EXCEPT !.pc = pc])
        \/ \E i \in Images : EditGoto(e, [editors[e] EXCEPT !.pc = "promote", !.first = i])
    BY <1>6 DEF SearchCover, PromoteImage, SetCover, DeleteImage, SearchNext, FailEdit,
       LiveImages
  <2>4. /\ \A pc \in {"promote", "deleted"} : [editors[e] EXCEPT !.pc = pc].pc # "upload"
        /\ \A i \in Images : [editors[e] EXCEPT !.pc = "promote", !.first = i].pc # "upload"
    BY <2>2 DEF EditRequest
  <2>5. IdleEdit.pc # "upload"
    BY IdleIsRequest
  <2> DEFINE NotUpload == \E to : EditGoto(e, to) /\ to.pc # "upload"
  <2>6. ASSUME NEW to, EditGoto(e, to), to.pc # "upload" PROVE NotUpload
    BY <2>6
  <2> HIDE DEF NotUpload
  <2>7. NotUpload
    <3>1. CASE EditGoto(e, IdleEdit)
      BY <2>5, <2>6, <3>1
    <3>2. CASE \E pc \in {"promote", "deleted"} : EditGoto(e, [editors[e] EXCEPT !.pc = pc])
      BY <2>4, <2>6, <3>2
    <3>3. CASE \E i \in Images :
                 EditGoto(e, [editors[e] EXCEPT !.pc = "promote", !.first = i])
      BY <2>4, <2>6, <3>3
    <3> QED BY <2>3, <3>1, <3>2, <3>3
  <2> QED BY <1>2, <1>6, <2>1, <2>7 DEF NotUpload
<1> QED BY <1>1, <1>3, <1>4, <1>5, <1>6 DEF Next, PropertyImagesNext, FailEdit

\* However many tabs the host uploads from, the images exceed the limit by no more than
\* each overlapping upload but one may bring; and uploads, choices and deletions that wait
\* for one another never exceed it (properties.service.ts:626).
THEOREM ImagesLimited == Spec => []ImageLimit
<1>1. Init => RoomLeft
  <2> SUFFICES ASSUME Init PROVE RoomLeft
    OBVIOUS
  <2>1. LiveImages = {} /\ Pending = {}
    BY IdleIsRequest DEF Init, LifecycleInit, PropertyImagesInit, LiveImages, Live, Pending
  <2>2. Surplus = 0
    BY DEF Init, PropertyImagesInit, Surplus
  <2> QED BY <2>1, <2>2, FS_EmptySet, ImagesAssumption DEF RoomLeft
<1>2. ListingInv /\ PropertyImagesTypeOK /\ RoomLeft /\ [Next]_vars => RoomLeft'
  <2>1. UNCHANGED vars => (RoomLeft => RoomLeft')
    BY DEF vars, rowVars, RoomLeft, LiveImages, Live, Pending, Surplus
  <2> QED BY <2>1, RoomStep
<1>3. RoomLeft => ImageLimit
  <2>1. Pending \subseteq Editors \X (1..MaxFiles)
    BY DEF Pending
  <2>2. Cardinality(Pending) \in Nat
    BY <2>1, PendingBound
  <2>3. RoomLeft => Cardinality(LiveImages) \in Nat
    BY FS_CardinalityType DEF RoomLeft
  <2> QED BY <2>2, <2>3, SurplusType, ImagesAssumption DEF RoomLeft, ImageLimit
<1>4. ListingTypeOK => PropertyImagesTypeOK
  BY DEF ListingTypeOK
<1> QED BY <1>1, <1>2, <1>3, <1>4, ListingTypes, ListingInvariant, PTL DEF Spec

------------------------------------------------------------------------------
(***************************************************************************)
(* The cover, while image requests wait for one another.                   *)
(***************************************************************************)

Covered == \E i \in Images : images[i] = "cover"

\* The request e is about, the only one under way: at most one cover; a request about to
\* make one finds none; what a request is about is there, unless the listing is gone; and
\* between requests images have a cover.
CoverKept(e) ==
  LET edit == editors[e]
  IN  /\ \A i, j \in Images : images[i] = "cover" /\ images[j] = "cover" => i = j
      /\ edit.pc \in {"promote", "deleted"} => ~Covered
      /\ edit.pc = "upload" /\ edit.main >= 1 => ~Covered
      /\ edit.pc = "upload" /\ edit.first # NoImage /\ ~Gone => Live(edit.first)
      /\ edit.pc \in {"stored", "promote", "cover", "delete"} =>
           edit.first \in Images /\ (~Gone => Live(edit.first))
      /\ edit.pc = "delete" /\ Live(edit.first) =>
           (edit.main = 1 <=> images[edit.first] = "cover")
      /\ edit.pc \in {"idle", "cover", "delete"} /\ HasImage /\ ~failed => Covered

\* No request but that of e is under way.
Alone(e) == \A f \in Editors \ {e} : editors[f] = IdleEdit

HostInv(e) == ListingInv /\ PropertyImagesTypeOK /\ CoverKept(e)

\* Deletion of the listing and decisions about it keep the invariant of the host's images.
LEMMA HostLifecycle ==
  ASSUME NEW e \in Editors, HostInv(e), LifecycleNext,
         UNCHANGED <<editors, failed, overlapped, strayed>>
  PROVE  CoverKept(e)'
<1>t. images \in [Images -> {"unborn", "plain", "cover", "deleted"}]
  BY DEF HostInv, ListingInv, LifecycleTypeOK
<1>1. CASE UNCHANGED images
  BY <1>1, LifecycleImages DEF HostInv, CoverKept, Live, HasImage, Covered
<1>2. CASE Gone' /\ images' = [i \in Images |-> IF Live(i) THEN "deleted" ELSE images[i]]
  <2>1. ~HasImage' /\ ~Covered'
    BY <1>t, <1>2 DEF HasImage, Covered, Live
  <2>3. \A i \in Images : ~Live(i)' /\ images'[i] # "cover"
    BY <2>1 DEF HasImage, Covered
  <2> QED BY <1>2, <2>1, <2>3 DEF CoverKept, HostInv
<1> QED BY <1>1, <1>2, LifecycleImages

\* An upload that begins knows whether there was an image.
LEMMA HostBeginsUpload ==
  ASSUME NEW e \in Editors, HostInv(e), BeginUpload(e), UNCHANGED failed
  PROVE  CoverKept(e)'
<1>1. PICK n \in 1..MaxFiles, m \in 1..MaxFiles :
        /\ Cardinality(LiveImages) + n <= MaxImages
        /\ Begin(e, [pc |-> "upload", files |-> n, first |-> NoImage,
                      main |-> IF HasImage THEN 0 ELSE m])
  BY DEF BeginUpload
<1>2. /\ editors'[e].pc = "upload" /\ editors'[e].first = NoImage /\ UNCHANGED images
      /\ editors'[e].main >= 1 => ~HasImage
  BY <1>1 DEF Begin, EditGoto, HostInv, PropertyImagesTypeOK, BeginUpload, rowVars
<1>3. ~HasImage => ~Covered
  BY DEF HasImage, Covered, Live
<1>4. /\ \A i, j \in Images : images[i] = "cover" /\ images[j] = "cover" => i = j
      /\ UNCHANGED <<HasImage, Covered>>
  BY <1>2 DEF HostInv, CoverKept, HasImage, Covered, Live
<1> QED BY <1>2, <1>3, <1>4 DEF CoverKept

\* A stored file is the cover only of a listing without images.
LEMMA HostStores ==
  ASSUME NEW e \in Editors, HostInv(e), StoreImage(e), UNCHANGED failed
  PROVE  CoverKept(e)'
<1> DEFINE edit == editors[e]
<1>t. /\ images \in [Images -> {"unborn", "plain", "cover", "deleted"}]
      /\ edit \in EditRequest /\ edit.pc = "upload" /\ edit.files \in Nat
      /\ edit.main \in Nat
  <2>1. images \in [Images -> {"unborn", "plain", "cover", "deleted"}]
    BY DEF HostInv, ListingInv, LifecycleTypeOK
  <2>2. edit \in EditRequest /\ edit.pc = "upload"
    BY DEF HostInv, PropertyImagesTypeOK, StoreImage
  <2> QED BY <2>1, <2>2 DEF EditRequest
<1>1. CASE Gone /\ EditGoto(e, IdleEdit) /\ UNCHANGED images
  <2>1. editors'[e].pc = "idle"
    BY <1>1, IdleIsRequest DEF EditGoto, HostInv, PropertyImagesTypeOK
  <2>2. ~HasImage
    BY <1>1 DEF HostInv, ListingInv, DeletionIsComplete
  <2>3. /\ \A i, j \in Images : images[i] = "cover" /\ images[j] = "cover" => i = j
        /\ UNCHANGED <<HasImage, Covered>>
    BY <1>1 DEF HostInv, CoverKept, HasImage, Covered, Live
  <2> QED BY <1>1, <2>1, <2>2, <2>3 DEF CoverKept
<1>2. CASE ~(Gone /\ EditGoto(e, IdleEdit) /\ UNCHANGED images)
  <2>1. PICK i \in Images :
          /\ images[i] = "unborn"
          /\ images' = [images EXCEPT ![i] =
                          IF edit.main = 1 THEN "cover" ELSE "plain"]
          /\ EditGoto(e, [edit EXCEPT !.files = @ - 1,
                            !.main = IF edit.files = 1 \/ @ = 0 THEN 0 ELSE @ - 1,
                            !.first = IF @ = NoImage THEN i ELSE @,
                            !.pc = IF edit.files = 1 THEN "stored" ELSE "upload"])
    BY <1>2 DEF StoreImage
  <2>g. ~Gone
    BY <1>2 DEF StoreImage
  <2>2. /\ editors'[e].main = IF edit.files = 1 \/ edit.main = 0 THEN 0 ELSE edit.main - 1
        /\ editors'[e].first = IF edit.first = NoImage THEN i ELSE edit.first
        /\ editors'[e].pc = IF edit.files = 1 THEN "stored" ELSE "upload"
    BY <1>t, <2>1 DEF EditGoto, HostInv, PropertyImagesTypeOK, EditRequest
  <2>3. Live(i)' /\ \A j \in Images : Live(j) => Live(j)'
    BY <1>t, <2>1 DEF Live
  <2>4. /\ edit.first # NoImage => edit.first \in Images
        /\ edit.first # NoImage => Live(edit.first)
        /\ edit.main >= 1 => ~Covered
        /\ \A j, k \in Images : images[j] = "cover" /\ images[k] = "cover" => j = k
    BY <1>t, <2>g DEF HostInv, CoverKept, EditRequest
  <2>5. /\ editors'[e].first \in Images /\ images'[editors'[e].first] \in {"plain", "cover"}
        /\ editors'[e].pc \in {"stored", "upload"}
    BY <2>2, <2>3, <2>4 DEF Live
  <2>6. CASE edit.main = 1
    <3>1. ~Covered
      BY <2>4, <2>6
    <3>2. \A j \in Images : images'[j] = "cover" <=> j = i
      BY <1>t, <2>1, <2>6, <3>1 DEF Covered
    <3>3. ~(editors'[e].main >= 1)
      BY <2>2, <2>6
    <3>4. \A j, k \in Images : images'[j] = "cover" /\ images'[k] = "cover" => j = k
      BY <3>2
    <3> QED BY <2>5, <3>3, <3>4 DEF CoverKept, Live
  <2>7. CASE ~(edit.main = 1)
    <3>1. \A j \in Images : images'[j] = "cover" <=> images[j] = "cover"
      BY <1>t, <2>1, <2>7
    <3>2. Covered' = Covered
      BY <3>1 DEF Covered
    <3>3. editors'[e].main >= 1 => edit.main >= 1
      BY <1>t, <2>2
    <3>4. \A j, k \in Images : images'[j] = "cover" /\ images'[k] = "cover" => j = k
      BY <2>4, <3>1
    <3>5. editors'[e].main >= 1 => ~Covered'
      BY <2>2, <2>4, <3>2, <3>3
    <3> QED BY <2>5, <3>4, <3>5 DEF CoverKept, Live
  <2> QED BY <2>6, <2>7
<1> QED BY <1>1, <1>2

\* The search for a cover, the promotion and the two searches of a deletion.
LEMMA HostSearches ==
  ASSUME NEW e \in Editors, HostInv(e), UNCHANGED failed,
         SearchCover(e) \/ BeginCover(e) \/ BeginDelete(e) \/ SearchNext(e)
  PROVE  CoverKept(e)'
<1> DEFINE edit == editors[e]
<1>t. edit \in EditRequest /\ editors \in [Editors -> EditRequest]
  BY DEF HostInv, PropertyImagesTypeOK
<1>u. /\ UNCHANGED <<images, listing>> /\ UNCHANGED <<Gone, HasImage, Covered>>
      /\ \A i : Live(i)' <=> Live(i)
  BY DEF SearchCover, BeginCover, BeginDelete, SearchNext, rowVars, Gone, HasImage, Covered, Live
<1>v. \A i, j \in Images : images[i] = "cover" /\ images[j] = "cover" => i = j
  BY DEF HostInv, CoverKept
<1>w. HasImage => ~Gone
  BY DEF HostInv, ListingInv, DeletionIsComplete
<1>1. CASE SearchCover(e)
  <2>1. edit.pc = "stored" /\ edit.first \in Images /\ (~Gone => Live(edit.first))
    BY <1>1 DEF SearchCover, HostInv, CoverKept
  <2>2. CASE Covered /\ EditGoto(e, IdleEdit)
    <3>1. editors'[e].pc = "idle"
      BY <1>t, <2>2, IdleIsRequest DEF EditGoto
    <3> QED BY <1>u, <1>v, <2>2, <3>1 DEF CoverKept
  <2>3. CASE ~Covered /\ EditGoto(e, [edit EXCEPT !.pc = "promote"])
    <3>1. editors'[e].pc = "promote" /\ editors'[e].first = edit.first
      BY <1>t, <2>3 DEF EditGoto, EditRequest
    <3> QED BY <1>u, <1>v, <2>1, <2>3, <3>1 DEF CoverKept
  <2> QED BY <1>1, <2>2, <2>3 DEF SearchCover, Covered
<1>2. CASE BeginCover(e)
  <2>1. PICK i \in LiveImages : Begin(e, [IdleEdit EXCEPT !.pc = "cover", !.first = i])
    BY <1>2 DEF BeginCover
  <2>2. edit.pc = "idle"
    BY <2>1, IdleIsRequest DEF Begin
  <2>3. editors'[e].pc = "cover" /\ editors'[e].first = i /\ i \in Images /\ Live(i)
    BY <1>t, <2>1, IdleIsRequest DEF Begin, EditGoto, EditRequest, LiveImages
  <2>4. HasImage /\ ~failed => Covered
    BY <2>2 DEF HostInv, CoverKept
  <2> QED BY <1>u, <1>v, <2>3, <2>4 DEF CoverKept
<1>3. CASE BeginDelete(e)
  <2>1. PICK i \in LiveImages :
          Begin(e, [IdleEdit EXCEPT !.pc = "delete", !.first = i,
                                    !.main = IF images[i] = "cover" THEN 1 ELSE 0])
    BY <1>3 DEF BeginDelete
  <2>2. edit.pc = "idle"
    BY <2>1, IdleIsRequest DEF Begin
  <2>3. /\ editors'[e].pc = "delete" /\ editors'[e].first = i /\ i \in Images /\ Live(i)
        /\ editors'[e].main = IF images[i] = "cover" THEN 1 ELSE 0
    BY <1>t, <2>1, IdleIsRequest DEF Begin, EditGoto, EditRequest, LiveImages
  <2>4. HasImage /\ ~failed => Covered
    BY <2>2 DEF HostInv, CoverKept
  <2> QED BY <1>u, <1>v, <2>3, <2>4 DEF CoverKept
<1>4. CASE SearchNext(e)
  <2>1. edit.pc = "deleted" /\ ~Covered
    BY <1>4 DEF SearchNext, HostInv, CoverKept
  <2>2. CASE ~HasImage /\ EditGoto(e, IdleEdit)
    <3>1. editors'[e].pc = "idle"
      BY <1>t, <2>2, IdleIsRequest DEF EditGoto
    <3> QED BY <1>u, <1>v, <2>2, <3>1 DEF CoverKept
  <2>3. ASSUME NEW i \in LiveImages, EditGoto(e, [edit EXCEPT !.pc = "promote", !.first = i])
        PROVE  CoverKept(e)'
    <3>1. editors'[e].pc = "promote" /\ editors'[e].first = i /\ i \in Images /\ Live(i)
      BY <1>t, <2>3 DEF EditGoto, EditRequest, LiveImages
    <3> QED BY <1>u, <1>v, <2>1, <3>1 DEF CoverKept
  <2> QED BY <1>4, <2>2, <2>3 DEF SearchNext
<1> QED BY <1>1, <1>2, <1>3, <1>4

\* The writes that make one image the cover leave one, where any is left.
LEMMA HostChooses ==
  ASSUME NEW e \in Editors, HostInv(e), UNCHANGED failed, PromoteImage(e) \/ SetCover(e)
  PROVE  CoverKept(e)'
<1> DEFINE i == editors[e].first
<1>t. /\ images \in [Images -> {"unborn", "plain", "cover", "deleted"}]
      /\ editors \in [Editors -> EditRequest] /\ UNCHANGED listing
  BY DEF HostInv, ListingInv, LifecycleTypeOK, PropertyImagesTypeOK, PromoteImage, SetCover,
     OtherRows
<1>i. editors'[e].pc = "idle"
  BY <1>t, IdleIsRequest DEF PromoteImage, SetCover, EditGoto
<1>w. HasImage => ~Gone
  BY DEF HostInv, ListingInv, DeletionIsComplete
<1>v. \A j, k \in Images : images[j] = "cover" /\ images[k] = "cover" => j = k
  BY DEF HostInv, CoverKept
<1>1. CASE UNCHANGED images /\ ~Live(i)
  <2>1. UNCHANGED <<HasImage, Covered>>
    BY <1>1 DEF HasImage, Covered, Live
  <2>2. HasImage /\ ~failed => Covered
    BY <1>1, <1>w DEF HostInv, CoverKept, PromoteImage, SetCover
  <2> QED BY <1>1, <1>i, <1>v, <2>1, <2>2 DEF CoverKept
<1>2. ASSUME i \in Images, Live(i), images'[i] = "cover",
             \A j \in Images \ {i} : images'[j] # "cover"
      PROVE  CoverKept(e)'
  <2>1. Covered'
    BY <1>2 DEF Covered
  <2> QED BY <1>2, <1>i, <2>1 DEF CoverKept
<1>3. CASE PromoteImage(e) /\ Live(i)
  <2>1. i \in Images /\ \A j \in Images : images[j] # "cover"
    BY <1>3 DEF PromoteImage, HostInv, CoverKept, Covered
  <2>2. images' = [images EXCEPT ![i] = "cover"]
    BY <1>3 DEF PromoteImage
  <2> QED BY <1>t, <1>2, <1>3, <2>1, <2>2
<1>4. CASE SetCover(e) /\ Live(i) /\ i \in Images
  <2>1. images' = [j \in Images |-> IF j = i THEN "cover"
                                    ELSE IF Live(j) THEN "plain" ELSE images[j]]
    BY <1>4 DEF SetCover
  <2>2. \A j \in Images \ {i} : images'[j] # "cover"
    BY <1>t, <2>1 DEF Live
  <2> QED BY <1>2, <1>4, <2>1, <2>2
<1>5. SetCover(e) => i \in Images
  BY DEF SetCover, HostInv, CoverKept
<1>6. CASE ~Live(i)
  BY <1>1, <1>6 DEF PromoteImage, SetCover
<1> QED BY <1>3, <1>4, <1>5, <1>6

\* A deletion leaves the cover, or goes on to find another.
LEMMA HostDeletes ==
  ASSUME NEW e \in Editors, HostInv(e), UNCHANGED failed, DeleteImage(e)
  PROVE  CoverKept(e)'
<1> DEFINE edit == editors[e]
           i == editors[e].first
<1>t. /\ images \in [Images -> {"unborn", "plain", "cover", "deleted"}]
      /\ editors \in [Editors -> EditRequest] /\ UNCHANGED listing /\ edit \in EditRequest
  BY DEF HostInv, ListingInv, LifecycleTypeOK, PropertyImagesTypeOK, DeleteImage, OtherRows
<1>w. HasImage => ~Gone
  BY DEF HostInv, ListingInv, DeletionIsComplete
<1>v. /\ \A j, k \in Images : images[j] = "cover" /\ images[k] = "cover" => j = k
      /\ edit.pc = "delete" /\ i \in Images /\ (~Gone => Live(i))
      /\ Live(i) => (edit.main = 1 <=> images[i] = "cover")
      /\ HasImage /\ ~failed => Covered
  BY DEF HostInv, CoverKept, DeleteImage
<1>1. CASE ~Live(i)
  <2>1. UNCHANGED images /\ EditGoto(e, IdleEdit)
    BY <1>1 DEF DeleteImage
  <2>2. editors'[e].pc = "idle" /\ ~HasImage /\ UNCHANGED <<HasImage, Covered>>
    BY <1>t, <1>v, <1>w, <1>1, <2>1, IdleIsRequest DEF EditGoto, HasImage, Covered, Live
  <2> QED BY <1>v, <2>1, <2>2 DEF CoverKept
<1>2. CASE Live(i)
  <2>1. images' = [images EXCEPT ![i] = "deleted"]
    BY <1>2 DEF DeleteImage
  <2>2. /\ \A j \in Images : images'[j] = "cover" <=> (j # i /\ images[j] = "cover")
        /\ HasImage' => HasImage
    BY <1>t, <1>v, <2>1 DEF Live, HasImage
  <2>3. CASE edit.main = 1
    <3>1. editors'[e].pc = "deleted"
      BY <1>t, <1>2, <2>3 DEF DeleteImage, EditGoto, EditRequest
    <3>2. ~Covered'
      BY <1>v, <1>2, <2>2, <2>3 DEF Covered
    <3> QED BY <1>v, <2>2, <3>1, <3>2 DEF CoverKept
  <2>4. CASE edit.main # 1
    <3>1. editors'[e].pc = "idle"
      BY <1>t, <1>2, <2>4, IdleIsRequest DEF DeleteImage, EditGoto
    <3>2. Covered => Covered'
      BY <1>v, <1>2, <2>2, <2>4 DEF Covered
    <3> QED BY <1>v, <2>2, <3>1, <3>2 DEF CoverKept
  <2> QED BY <2>3, <2>4
<1> QED BY <1>1, <1>2

\* A request that breaks off leaves at most one cover.
LEMMA HostFails ==
  ASSUME NEW e \in Editors, HostInv(e), FailEdit(e)
  PROVE  CoverKept(e)'
<1>1. editors'[e].pc = "idle" /\ failed' /\ UNCHANGED images
  BY IdleIsRequest DEF FailEdit, EditGoto, HostInv, PropertyImagesTypeOK, rowVars
<1>2. \A j, k \in Images : images[j] = "cover" /\ images[k] = "cover" => j = k
  BY DEF HostInv, CoverKept
<1> QED BY <1>1, <1>2 DEF CoverKept

\* A request to choose a cover has an image it is about.
Focused(e) == editors[e].pc = "cover" => editors[e].first \in Images

\* While image requests wait for one another, one of them at most is under way; and while
\* no deletion strayed, or a cover was chosen since, it keeps the cover.
CoverInv ==
  ~overlapped => \E e \in Editors : Alone(e) /\ Focused(e) /\ (strayed \/ CoverKept(e))

\* Where no request is under way, any editor may stand for the one that is.
LEMMA AnyoneIdle ==
  ASSUME NEW e \in Editors, NEW f \in Editors, Alone(e), editors[e] = IdleEdit
  PROVE  Alone(f) /\ Focused(f) /\ (CoverKept(e) => CoverKept(f))
BY IdleIsRequest DEF Alone, CoverKept, Focused

\* Whatever strayed before, a choice leaves the chosen image as the only cover.
LEMMA ChoiceSettles ==
  ASSUME ListingInv, PropertyImagesTypeOK, NEW e \in Editors, Focused(e), SetCover(e),
         Live(editors[e].first)
  PROVE  CoverKept(e)'
<1> DEFINE i == editors[e].first
<1>t. /\ images \in [Images -> {"unborn", "plain", "cover", "deleted"}]
      /\ editors \in [Editors -> EditRequest] /\ i \in Images
  BY DEF ListingInv, LifecycleTypeOK, PropertyImagesTypeOK, SetCover, Focused
<1>1. images' = [j \in Images |-> IF j = i THEN "cover"
                                  ELSE IF Live(j) THEN "plain" ELSE images[j]]
  BY DEF SetCover
<1>2. \A j \in Images : images'[j] = "cover" <=> j = i
  BY <1>t, <1>1 DEF Live
<1>3. editors'[e].pc = "idle"
  BY <1>t, IdleIsRequest DEF SetCover, EditGoto
<1>4. Covered'
  BY <1>t, <1>2 DEF Covered
<1> QED BY <1>2, <1>3, <1>4 DEF CoverKept

\* No image request goes on to a choice without an image.
LEMMA FocusKept ==
  ASSUME PropertyImagesTypeOK, PropertyImagesNext, NEW e \in Editors, Focused(e)
  PROVE  Focused(e)'
<1>t. editors \in [Editors -> EditRequest] /\ editors[e] \in EditRequest
  BY DEF PropertyImagesTypeOK
<1>1. PICK f \in Editors :
        \/ BeginUpload(f) \/ StoreImage(f) \/ SearchCover(f) \/ PromoteImage(f)
        \/ BeginCover(f) \/ SetCover(f)
        \/ BeginDelete(f) \/ BeginStrayDelete(f) \/ DeleteImage(f) \/ SearchNext(f)
        \/ FailEdit(f)
  BY DEF PropertyImagesNext
<1>2. PICK to : EditGoto(f, to) /\ (to.pc = "cover" => to.first \in Images)
  <2>1. CASE \/ SearchCover(f) \/ PromoteImage(f) \/ SetCover(f) \/ DeleteImage(f)
             \/ SearchNext(f) \/ FailEdit(f)
    <3>1. \/ EditGoto(f, IdleEdit)
          \/ \E pc \in {"promote", "deleted"} : EditGoto(f, [editors[f] EXCEPT !.pc = pc])
          \/ \E i \in Images : EditGoto(f, [editors[f] EXCEPT !.pc = "promote", !.first = i])
      BY <2>1 DEF SearchCover, PromoteImage, SetCover, DeleteImage, SearchNext, FailEdit,
         LiveImages
    <3>2. /\ \A pc \in {"promote", "deleted"} : [editors[f] EXCEPT !.pc = pc].pc # "cover"
          /\ \A i \in Images : [editors[f] EXCEPT !.pc = "promote", !.first = i].pc # "cover"
          /\ IdleEdit.pc # "cover"
      BY <1>t, IdleIsRequest DEF EditRequest
    <3>3. ASSUME NEW next, EditGoto(f, next), next.pc # "cover"
          PROVE  \E go : EditGoto(f, go) /\ (go.pc = "cover" => go.first \in Images)
      BY <3>3
    <3>4. CASE EditGoto(f, IdleEdit)
      BY <3>2, <3>3, <3>4
    <3>5. CASE \E pc \in {"promote", "deleted"} : EditGoto(f, [editors[f] EXCEPT !.pc = pc])
      BY <3>2, <3>3, <3>5
    <3>6. CASE \E i \in Images : EditGoto(f, [editors[f] EXCEPT !.pc = "promote", !.first = i])
      BY <3>2, <3>3, <3>6
    <3> QED BY <3>1, <3>4, <3>5, <3>6
  <2>2. CASE BeginUpload(f)
    <3>1. PICK n, m : EditGoto(f, [pc |-> "upload", files |-> n, first |-> NoImage,
                                   main |-> IF HasImage THEN 0 ELSE m])
      BY <2>2 DEF BeginUpload, Begin
    <3> QED BY <3>1
  <2>3. CASE StoreImage(f)
    <3>1. CASE EditGoto(f, IdleEdit)
      BY <3>1, IdleIsRequest
    <3>2. CASE ~EditGoto(f, IdleEdit)
      <4> DEFINE edit == editors[f]
                 after(i) == [edit EXCEPT !.files = @ - 1,
                                !.main = IF edit.files = 1 \/ @ = 0 THEN 0 ELSE @ - 1,
                                !.first = IF @ = NoImage THEN i ELSE @,
                                !.pc = IF edit.files = 1 THEN "stored" ELSE "upload"]
      <4>1. PICK i \in Images : EditGoto(f, after(i))
        BY <2>3, <3>2 DEF StoreImage
      <4>2. after(i).pc \in {"stored", "upload"}
        BY <1>t DEF EditRequest
      <4> HIDE DEF after
      <4> QED BY <4>1, <4>2
    <3> QED BY <3>1, <3>2
  <2>4. CASE BeginCover(f)
    <3>1. PICK i \in Images : EditGoto(f, [IdleEdit EXCEPT !.pc = "cover", !.first = i])
      BY <2>4 DEF BeginCover, Begin, LiveImages
    <3>2. [IdleEdit EXCEPT !.pc = "cover", !.first = i].first = i
      BY DEF IdleEdit
    <3> QED BY <3>1, <3>2
  <2>5. CASE BeginDelete(f) \/ BeginStrayDelete(f)
    <3>1. \/ \E i \in Images, main \in {0, 1} :
               EditGoto(f, [IdleEdit EXCEPT !.pc = "delete", !.first = i, !.main = main])
          \/ \E i \in Images : EditGoto(f, [IdleEdit EXCEPT !.pc = "delete", !.first = i])
          \/ EditGoto(f, [IdleEdit EXCEPT !.pc = "deleted"])
      <4>1. ASSUME BeginDelete(f)
            PROVE  \E i \in Images, main \in {0, 1} :
                     EditGoto(f, [IdleEdit EXCEPT !.pc = "delete", !.first = i, !.main = main])
        <5>1. PICK i \in Images :
                EditGoto(f, [IdleEdit EXCEPT !.pc = "delete", !.first = i,
                                             !.main = IF images[i] = "cover" THEN 1 ELSE 0])
          BY <4>1 DEF BeginDelete, Begin, LiveImages
        <5>2. (IF images[i] = "cover" THEN 1 ELSE 0) \in {0, 1}
          OBVIOUS
        <5> QED BY <5>1, <5>2
      <4>2. ASSUME BeginStrayDelete(f)
            PROVE  \/ \E i \in Images :
                          EditGoto(f, [IdleEdit EXCEPT !.pc = "delete", !.first = i])
                   \/ EditGoto(f, [IdleEdit EXCEPT !.pc = "deleted"])
        BY <4>2 DEF BeginStrayDelete, Begin, LiveImages
      <4> QED BY <2>5, <4>1, <4>2
    <3>2. /\ \A i \in Images, main \in {0, 1} :
               [IdleEdit EXCEPT !.pc = "delete", !.first = i, !.main = main].pc # "cover"
          /\ \A i \in Images : [IdleEdit EXCEPT !.pc = "delete", !.first = i].pc # "cover"
          /\ [IdleEdit EXCEPT !.pc = "deleted"].pc # "cover"
      BY DEF IdleEdit
    <3>3. ASSUME NEW next, EditGoto(f, next), next.pc # "cover"
          PROVE  \E go : EditGoto(f, go) /\ (go.pc = "cover" => go.first \in Images)
      BY <3>3
    <3>4. CASE EditGoto(f, [IdleEdit EXCEPT !.pc = "deleted"])
      BY <3>2, <3>3, <3>4
    <3>5. CASE \E i \in Images : EditGoto(f, [IdleEdit EXCEPT !.pc = "delete", !.first = i])
      BY <3>2, <3>3, <3>5
    <3>6. CASE \E i \in Images, main \in {0, 1} :
                 EditGoto(f, [IdleEdit EXCEPT !.pc = "delete", !.first = i, !.main = main])
      BY <3>2, <3>3, <3>6
    <3> QED BY <3>1, <3>4, <3>5, <3>6
  <2> QED BY <1>1, <2>1, <2>2, <2>3, <2>4, <2>5
<1> QED BY <1>t, <1>2 DEF EditGoto, Focused

\* A step of the only request, or of the next one, keeps the cover.
LEMMA CoverStep ==
  ASSUME ListingInv, PropertyImagesTypeOK, CoverInv, Next
  PROVE  CoverInv'
<1> SUFFICES ASSUME ~overlapped'
             PROVE  (\E e \in Editors : Alone(e) /\ Focused(e) /\ (strayed \/ CoverKept(e)))'
  BY DEF CoverInv
<1>1. ~overlapped
  BY DEF Next, PropertyImagesNext, BeginUpload, BeginCover, BeginDelete, BeginStrayDelete, Begin,
     FailEdit
<1>2. PICK e \in Editors : Alone(e) /\ Focused(e) /\ (strayed \/ CoverKept(e))
  BY <1>1 DEF CoverInv
<1>3. CASE LifecycleNext /\ UNCHANGED <<editors, failed, overlapped, strayed>>
  <2>1. Alone(e)' /\ Focused(e)'
    BY <1>2, <1>3 DEF Alone, Focused
  <2>2. strayed' \/ CoverKept(e)'
    BY <1>2, <1>3, HostLifecycle DEF HostInv
  <2> QED BY <2>1, <2>2
<1>4. CASE PropertyImagesNext
  <2>1. PICK f \in Editors :
          \/ /\ BeginUpload(f) \/ BeginCover(f) \/ BeginDelete(f)
             /\ UNCHANGED <<failed, strayed>>
          \/ BeginStrayDelete(f) /\ UNCHANGED failed
          \/ /\ StoreImage(f) \/ SearchCover(f) \/ PromoteImage(f)
                \/ DeleteImage(f) \/ SearchNext(f)
             /\ UNCHANGED <<failed, overlapped, strayed>>
          \/ SetCover(f) /\ UNCHANGED <<failed, overlapped>>
          \/ FailEdit(f)
    BY <1>4 DEF PropertyImagesNext, BeginDelete
  <2>2. editors[f] = IdleEdit => editors[e] = IdleEdit \/ e = f
    <3>1. ASSUME editors[f] = IdleEdit, e # f PROVE editors[e] = IdleEdit
      <4>1. BeginUpload(f) \/ BeginCover(f) \/ BeginDelete(f) \/ BeginStrayDelete(f)
        BY <2>1, <3>1, IdleIsRequest
           DEF StoreImage, SearchCover, PromoteImage, SetCover, DeleteImage, SearchNext, FailEdit
      <4> QED BY <3>1, <4>1 DEF BeginUpload, BeginCover, BeginDelete, BeginStrayDelete, Begin
    <3> QED BY <3>1
  <2>3. editors[f] # IdleEdit => e = f
    BY <1>2 DEF Alone
  <2>4. Alone(f) /\ Focused(f) /\ (strayed \/ CoverKept(f))
    BY <1>2, <2>2, <2>3, AnyoneIdle
  <2>5. strayed' \/ CoverKept(f)'
    <3>1. CASE strayed
      <4>1. CASE SetCover(f) /\ Live(editors[f].first)
        BY <2>4, <4>1, ChoiceSettles
      <4>2. CASE ~(SetCover(f) /\ Live(editors[f].first))
        BY <2>1, <3>1, <4>2 DEF SetCover, BeginStrayDelete, FailEdit
      <4> QED BY <4>1, <4>2
    <3>2. CASE BeginStrayDelete(f)
      BY <3>2 DEF BeginStrayDelete
    <3>3. CASE ~strayed /\ ~BeginStrayDelete(f)
      BY <2>1, <2>4, <3>3, HostBeginsUpload, HostStores, HostSearches, HostChooses, HostDeletes,
         HostFails DEF HostInv
    <3> QED BY <3>1, <3>2, <3>3
  <2>6. \E to : EditGoto(f, to)
    BY <2>1 DEF BeginUpload, BeginCover, BeginDelete, BeginStrayDelete, Begin, StoreImage,
       SearchCover, PromoteImage, SetCover, DeleteImage, SearchNext, FailEdit
  <2>7. Alone(f)'
    BY <2>4, <2>6 DEF Alone, EditGoto, PropertyImagesTypeOK
  <2>8. Focused(f)'
    BY <1>4, <2>4, FocusKept
  <2> QED BY <2>5, <2>7, <2>8
<1> QED BY <1>3, <1>4 DEF Next

\* After image requests of any number of tabs that waited for one another a listing has one
\* cover, or none where a request broke off or there is no image; a deletion with the path
\* of another listing suspends this until the next choice of a cover
\* (properties.service.ts:650, :660-709).
THEOREM CoverIsSingle == Spec => []OneCover
<1>1. Init => CoverInv
  <2> SUFFICES ASSUME Init PROVE CoverInv
    OBVIOUS
  <2>1. PICK e : e \in Editors
    BY ImagesAssumption
  <2>2. \A f \in Editors : editors[f] = IdleEdit
    BY DEF Init, PropertyImagesInit
  <2>3. \A i \in Images : images[i] = "unborn"
    BY DEF Init, LifecycleInit
  <2>4. Alone(e) /\ Focused(e) /\ CoverKept(e)
    BY <2>1, <2>2, <2>3, IdleIsRequest DEF Alone, Focused, CoverKept, HasImage, Live
  <2> QED BY <2>1, <2>4 DEF CoverInv
<1>2. ListingInv /\ PropertyImagesTypeOK /\ CoverInv /\ [Next]_vars => CoverInv'
  <2>1. CoverInv /\ UNCHANGED vars => CoverInv'
    BY DEF vars, rowVars, CoverInv, Alone, Focused, CoverKept, Live, HasImage, Covered, Gone
  <2> QED BY <2>1, CoverStep
<1>3. CoverInv => OneCover
  <2> SUFFICES ASSUME NEW e \in Editors, CoverKept(e), editors[e] = IdleEdit
               PROVE  /\ Cardinality({i \in Images : images[i] = "cover"}) <= 1
                      /\ HasImage /\ ~failed => {i \in Images : images[i] = "cover"} # {}
    BY DEF OneCover, CoverInv
  <2> DEFINE covers == {i \in Images : images[i] = "cover"}
  <2>1. \A i, j \in covers : i = j
    BY DEF CoverKept
  <2>2. Cardinality(covers) <= 1
    <3>1. CASE covers = {}
      BY <3>1, FS_EmptySet
    <3>2. ASSUME NEW i \in covers PROVE Cardinality(covers) <= 1
      <4>1. covers = {i}
        BY <2>1
      <4>2. Cardinality({i}) = 1
        BY FS_Singleton
      <4> QED BY <4>1, <4>2
    <3> QED BY <3>1, <3>2
  <2>3. HasImage /\ ~failed => covers # {}
    BY IdleIsRequest DEF CoverKept, Covered
  <2> QED BY <2>2, <2>3
<1>4. ListingTypeOK => PropertyImagesTypeOK
  BY DEF ListingTypeOK
<1> QED BY <1>1, <1>2, <1>3, <1>4, ListingTypes, ListingInvariant, PTL DEF Spec

==============================================================================
