\* Two clients decide about the listing while two tabs of the host edit its images; three
\* image rows over the life of a listing that may have two.
SPECIFICATION Spec
CONSTANTS
  Deciders = {d1, d2}
  Images = {i1, i2, i3}
  EditStatuses = {"PUBLISHED", "REJECTED"}
  Editors = {e1, e2}
  MaxImages = 2
  MaxFiles = 2
CONSTRAINT TwoRequests
SYMMETRY ListingSymmetry
INVARIANTS
  ListingTypeOK
  DecisionsAreExplained
  HistoryTellsStatus
  DeletionIsComplete
  ImageLimit
  OneCover
CHECK_DEADLOCK FALSE
