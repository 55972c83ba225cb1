\* The host's page alone.
SPECIFICATION Spec
CONSTANTS
  h1 = h1
  Deciders = {h1}
  HostPages = {h1}
  MaxFetches = 2
  Images = {i1}
  EditStatuses = {}
PROPERTIES
  HostSeesListing
CHECK_DEADLOCK FALSE
