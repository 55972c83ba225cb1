\* Two users, both administrators at first; one clerk's guarded requests among everything
\* that changes a row without a guard.
SPECIFICATION Spec
CONSTANTS
  Users = {u1, u2}
  Founders = {u1, u2}
  Clerks = {c1}
INVARIANTS
  AccountsTypeOK
PROPERTIES
  GuardsLeaveAnAdministrator
CHECK_DEADLOCK FALSE
