\* The host's page and one administrator's, two queries of each under way.
SPECIFICATION Spec
CONSTANTS
  h1 = h1
  a1 = a1
  Deciders = {h1, a1}
  HostPages = {h1}
  MaxFetches = 2
  Images = {i1}
  EditStatuses = {}
INVARIANTS
  PagesTypeOK
  PublishedWasApproved
PROPERTIES
  RefusedMeansStale
CHECK_DEADLOCK FALSE
