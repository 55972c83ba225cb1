---------------------------- MODULE PropertyImages ----------------------------
(***************************************************************************)
(* The image rows of the listing: uploads of several files, the choice of  *)
(* a cover, and deletion.  Every request runs its statements one by one    *)
(* and, except for the choice of a cover, outside any transaction.         *)
(***************************************************************************)
EXTENDS PropertyLifecycle

CONSTANTS
  Editors,      \* browser tabs of the host, each with one image request at a time
  MaxImages,    \* images a listing may have: ten
  MaxFiles      \* files in one upload, at most

ASSUME ImagesAssumption ==
  MaxImages \in Nat /\ MaxFiles \in Nat /\ IsFiniteSet(Editors) /\ Editors # {}

VARIABLES
  editors,
  failed,      \* a statement of an image request has failed, or the server died in one
  overlapped,  \* an image request began while another was under way
  strayed      \* a deletion named this listing and an image of another, or the reverse,
               \* and no cover was chosen since

NoImage == "none"

\* files: still to store; main: position of the chosen cover among them, from 1, and 0 when
\* images were counted at the start; first: the upload's first image, or the image another
\* request is about.
EditRequest ==
  [pc : {"idle", "upload", "stored", "cover", "delete", "deleted", "promote"},
   files : Nat, main : Nat, first : Images \cup {NoImage}]

IdleEdit == [pc |-> "idle", files |-> 0, main |-> 0, first |-> NoImage]

PropertyImagesTypeOK ==
  /\ editors \in [Editors -> EditRequest]
  /\ \A e \in Editors : editors[e].pc = "upload" => editors[e].files \in 1..MaxFiles
  /\ failed \in BOOLEAN
  /\ overlapped \in BOOLEAN /\ strayed \in BOOLEAN

PropertyImagesInit ==
  /\ editors = [e \in Editors |-> IdleEdit]
  /\ failed = FALSE /\ overlapped = FALSE /\ strayed = FALSE

EditGoto(e, to) == editors' = [editors EXCEPT ![e] = to]

\* A request passes its tests and goes on to its first write.
Begin(e, to) ==
  /\ editors[e] = IdleEdit
  /\ EditGoto(e, to)
  /\ overlapped' = (overlapped \/ \E o \in Editors \ {e} : editors[o] # IdleEdit)

OtherRows == <<listing, newest, booking, deciders>>

LiveImages == {i \in Images : Live(i)}

------------------------------------------------------------------------------
(***************************************************************************)
(* uploadPropertyImages.                                                   *)
(***************************************************************************)

\* Mutation: the limit is compared before the new files are added.
BeginUploadUnlimited(e) ==
  /\ ~Gone
  /\ \E n \in 1..MaxFiles, m \in 1..MaxFiles :
       /\ Cardinality(LiveImages) <= MaxImages
       /\ Begin(e, [pc |-> "upload", files |-> n, first |-> NoImage,
                    main |-> IF HasImage THEN 0 ELSE m])
  /\ UNCHANGED rowVars /\ UNCHANGED deciders

\* The position of the cover is the client's and may lie beyond the files.
BeginUpload(e) ==
  /\ ~Gone
  /\ \E n \in 1..MaxFiles, m \in 1..MaxFiles :
       /\ Cardinality(LiveImages) + n <= MaxImages
       /\ Begin(e, [pc |-> "upload", files |-> n, first |-> NoImage,
                    main |-> IF HasImage THEN 0 ELSE m])
  /\ UNCHANGED rowVars /\ UNCHANGED deciders

\* Mutation: an image row is stored for a listing that is gone.
StoreOrphan(e) ==
  LET edit == editors[e]
  IN  /\ edit.pc = "upload"
      /\ \E i \in Images :
           /\ images[i] = "unborn"
           /\ images' = [images EXCEPT ![i] = IF edit.main = 1 THEN "cover" ELSE "plain"]
           /\ EditGoto(e, [edit EXCEPT !.files = @ - 1,
                             !.main = IF edit.files = 1 \/ @ = 0 THEN 0 ELSE @ - 1,
                             !.first = IF @ = NoImage THEN i ELSE @,
                             !.pc = IF edit.files = 1 THEN "stored" ELSE "upload"])
      /\ UNCHANGED OtherRows

\* Mutation: the loop over the files does not end with the last of them.
StoreBeyond(e) ==
  /\ editors[e].pc = "upload" /\ ~Gone
  /\ \E i \in Images :
       /\ images[i] = "unborn"
       /\ images' = [images EXCEPT ![i] = "plain"]
       /\ EditGoto(e, [editors[e] EXCEPT !.files = @ - 1, !.first = i])
  /\ UNCHANGED OtherRows

\* One file is stored as the next image.  The row refers to the listing, so that on a
\* deleted listing the insert throws.
StoreImage(e) ==
  LET edit == editors[e]
  IN  /\ edit.pc = "upload"
      /\ \/ Gone /\ EditGoto(e, IdleEdit) /\ UNCHANGED images
         \/ /\ ~Gone
            /\ \E i \in Images :
                 /\ images[i] = "unborn"
                 /\ images' = [images EXCEPT ![i] =
                                 IF edit.main = 1 THEN "cover" ELSE "plain"]
                 /\ EditGoto(e, [edit EXCEPT !.files = @ - 1,
                                   !.main = IF edit.files = 1 \/ @ = 0 THEN 0 ELSE @ - 1,
                                   !.first = IF @ = NoImage THEN i ELSE @,
                                   !.pc = IF edit.files = 1 THEN "stored" ELSE "upload"])
      /\ UNCHANGED OtherRows

\* Mutation: the upload trusts the client's choice of a cover.
TrustPosition(e) ==
  /\ editors[e].pc = "stored"
  /\ EditGoto(e, IdleEdit)
  /\ UNCHANGED rowVars /\ UNCHANGED deciders

\* The search for a cover; without one the upload's first image is promoted.
SearchCover(e) ==
  /\ editors[e].pc = "stored"
  /\ EditGoto(e, IF \E i \in Images : images[i] = "cover" THEN IdleEdit
                 ELSE [editors[e] EXCEPT !.pc = "promote"])
  /\ UNCHANGED rowVars /\ UNCHANGED deciders

\* The update that makes one image the cover; it throws if the image is gone.
PromoteImage(e) ==
  LET i == editors[e].first
  IN  /\ editors[e].pc = "promote"
      /\ images' = IF Live(i) THEN [images EXCEPT ![i] = "cover"] ELSE images
      /\ EditGoto(e, IdleEdit)
      /\ UNCHANGED OtherRows

------------------------------------------------------------------------------
(***************************************************************************)
(* setCoverImage and deletePropertyImage.                                  *)
(***************************************************************************)
BeginCover(e) ==
  /\ \E i \in LiveImages : Begin(e, [IdleEdit EXCEPT !.pc = "cover", !.first = i])
  /\ UNCHANGED rowVars /\ UNCHANGED deciders

\* Both updates in one transaction, rolled back when the image is gone.
SetCover(e) ==
  LET i == editors[e].first
  IN  /\ editors[e].pc = "cover"
      /\ images' = IF ~Live(i) THEN images
                   ELSE [j \in Images |-> IF j = i THEN "cover"
                                          ELSE IF Live(j) THEN "plain" ELSE images[j]]
      /\ EditGoto(e, IdleEdit)
      /\ strayed' = (strayed /\ ~Live(i))
      /\ UNCHANGED OtherRows

\* main: whether the image was the cover when it was read.
BeginDelete(e) ==
  /\ \E i \in LiveImages :
       Begin(e, [IdleEdit EXCEPT !.pc = "delete", !.first = i,
                                 !.main = IF images[i] = "cover" THEN 1 ELSE 0])
  /\ UNCHANGED strayed
  /\ UNCHANGED rowVars /\ UNCHANGED deciders

\* Nothing compares the image's listing with the one in the path, where the next cover is
\* looked for: an image of this listing goes with no cover promoted here, or the cover of
\* another is gone and an image is promoted here.
BeginStrayDelete(e) ==
  /\ \/ \E i \in LiveImages : Begin(e, [IdleEdit EXCEPT !.pc = "delete", !.first = i])
     \/ Begin(e, [IdleEdit EXCEPT !.pc = "deleted"])
  /\ strayed' = TRUE
  /\ UNCHANGED rowVars /\ UNCHANGED deciders

DeleteImage(e) ==
  LET i == editors[e].first
  IN  /\ editors[e].pc = "delete"
      /\ images' = IF Live(i) THEN [images EXCEPT ![i] = "deleted"] ELSE images
      /\ EditGoto(e, IF Live(i) /\ editors[e].main = 1
                       THEN [editors[e] EXCEPT !.pc = "deleted"] ELSE IdleEdit)
      /\ UNCHANGED OtherRows

\* The search for any remaining image to promote.
SearchNext(e) ==
  /\ editors[e].pc = "deleted"
  /\ \/ /\ ~HasImage
        /\ EditGoto(e, IdleEdit)
     \/ \E i \in LiveImages :
          EditGoto(e, [editors[e] EXCEPT !.pc = "promote", !.first = i])
  /\ UNCHANGED rowVars /\ UNCHANGED deciders

\* Storage or database throw, or the server dies: what was written stays.
FailEdit(e) ==
  /\ editors[e] # IdleEdit
  /\ EditGoto(e, IdleEdit)
  /\ failed' = TRUE
  /\ UNCHANGED <<overlapped, strayed>>
  /\ UNCHANGED rowVars /\ UNCHANGED deciders

PropertyImagesNext ==
  \E e \in Editors :
    \/ (BeginUpload(e) \/ BeginCover(e)) /\ UNCHANGED <<failed, strayed>>
    \/ (BeginDelete(e) \/ BeginStrayDelete(e)) /\ UNCHANGED failed
    \/ /\ \/ StoreImage(e) \/ SearchCover(e) \/ PromoteImage(e)
          \/ DeleteImage(e) \/ SearchNext(e)
       /\ UNCHANGED <<failed, overlapped, strayed>>
    \/ SetCover(e) /\ UNCHANGED <<failed, overlapped>>
    \/ FailEdit(e)

==============================================================================
