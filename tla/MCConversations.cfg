\* The guest has a page open, the host sends from elsewhere; two conversations, two messages.
SPECIFICATION Spec
CONSTANTS
  People = {guest, host}
  Conversations = {v1,v2}
  Viewers = {guest}
  Messages = {m1, m2}
  Fetches = {f1}
  Nobody = Nobody
  MaxCommands = 1
SYMMETRY ChatSymmetry
INVARIANTS
  ConversationsTypeOK
  ShownOnce
  MarkedIsReturned
  AnsweredIsNotified
CHECK_DEADLOCK FALSE
