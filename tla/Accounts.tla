------------------------------- MODULE Accounts -------------------------------
(***************************************************************************)
(* The user rows as administrators change them - restriction, role,        *)
(* deletion, host applications - and the owners themselves.                *)
(*                                                                         *)
(* A request that could remove an administrator reads the row, counts the  *)
(* administrators and writes, in three statements.  The others have no     *)
(* test between their read and their write and are one step.  isBlocked    *)
(* and isBanned, which nothing here tells apart, are one restriction: a    *)
(* request that clears one of the two may leave the other.                 *)
(***************************************************************************)
EXTENDS FiniteSets, Integers

CONSTANTS
  Users,
  Founders,       \* the administrators the seed creates
  Clerks          \* clients that administrators work with, one request at a time

ASSUME FoundersAssumption == Founders \subseteq Users /\ IsFiniteSet(Users)

VARIABLES
  users,          \* role, isActive and the restrictions of each row
  staff,          \* users who hold an access token that names them ADMIN
  applicants,     \* users with a host application, of whatever status
  request         \* what each clerk's request is about to do

vars == <<users, staff, applicants, request>>

Roles == {"GUEST", "HOST", "ADMIN"}
Restrictions == {"suspended", "barred"}

Exists(u) == users[u].role # "GONE"
SignedInAllowed(u) == users[u].active /\ "suspended" \notin users[u].flags

\* The administrators that updateUserRole counts, updateUserModerationStatus counts, and
\* deleteUser counts.
Administrators == {u \in Users : users[u].role = "ADMIN" /\ SignedInAllowed(u)}
Unrestricted == {u \in Administrators : users[u].flags = {}}
AdminRows == {u \in Users : users[u].role = "ADMIN"}

\* calm: no row has changed since the request read one.
IdleRequest ==
  [op |-> "none", target |-> "none", pc |-> "idle", calm |-> FALSE]
GuardedOps == {"SUSPEND", "BLOCK", "BAN", "DEACTIVATE", "toGUEST", "toHOST", "DELETE"}

\* Types; and applications belong to users that exist.
AccountsTypeOK ==
  /\ users \in [Users -> [role : Roles \cup {"GONE"}, active : BOOLEAN,
                          flags : SUBSET Restrictions]]
  /\ staff \subseteq Users
  /\ applicants \subseteq {u \in Users : Exists(u)}
  /\ request \in [Clerks -> [op : GuardedOps \cup {"none"}, target : Users \cup {"none"},
                             pc : {"idle", "count", "write"}, calm : BOOLEAN]]

AccountsInit ==
  /\ users = [u \in Users |->
       [role |-> IF u \in Founders THEN "ADMIN" ELSE "GUEST", active |-> TRUE, flags |-> {}]]
  /\ staff = Founders
  /\ applicants = {}
  /\ request = [c \in Clerks |-> IdleRequest]

------------------------------------------------------------------------------
\* Every write of a user row disturbs the requests that have read one.
Disturbed(requests) == [c \in Clerks |-> [requests[c] EXCEPT !.calm = FALSE]]
Finished(c) == [request EXCEPT ![c] = IdleRequest]

\* A write outside the clerks' guarded requests.
WriteRow(u, row) ==
  /\ users' = [users EXCEPT ![u] = row]
  /\ request' = Disturbed(request)

\* The read of the target, with the tests on who asks.
Begin(c, u, op) ==
  /\ request[c] = IdleRequest
  /\ \E by \in staff : op \in {"toGUEST", "toHOST"} \/ by # u
  /\ Exists(u)
  /\ request' = [request EXCEPT ![c] =
       [op |-> op, target |-> u, pc |-> IF users[u].role = "ADMIN" THEN "count" ELSE "write",
        calm |-> TRUE]]
  /\ UNCHANGED <<users, staff, applicants>>

\* Mutation: the guard of the role change counts every administrator.
CountedAll(op) ==
  IF op \in {"toGUEST", "toHOST", "DELETE"} THEN AdminRows ELSE Unrestricted

Counted(op) ==
  CASE op \in {"toGUEST", "toHOST"} -> Administrators
    [] op = "DELETE" -> AdminRows
    [] OTHER -> Unrestricted

Count(c) ==
  /\ request[c].pc = "count"
  /\ request' = IF Cardinality(Counted(request[c].op)) <= 1
                  THEN Finished(c) ELSE [request EXCEPT ![c].pc = "write"]
  /\ UNCHANGED <<users, staff, applicants>>

\* What the statement makes of the row.
Rewritten(row, op) ==
  CASE op = "SUSPEND" -> [row EXCEPT !.flags = @ \cup {"suspended"}]
    [] op = "BLOCK" -> [row EXCEPT !.flags = @ \cup {"barred"}]
    [] op = "BAN" -> [row EXCEPT !.flags = @ \cup {"barred"}, !.active = FALSE]
    [] op = "DEACTIVATE" -> [row EXCEPT !.active = FALSE]
    [] op = "toGUEST" -> [row EXCEPT !.role = "GUEST"]
    [] op = "toHOST" -> [row EXCEPT !.role = "HOST"]
    [] op = "DELETE" -> [role |-> "GONE", active |-> FALSE, flags |-> {}]

\* Mutation: the applications of a deleted user stay.
WriteOrphans(c) ==
  LET u == request[c].target
      op == request[c].op
  IN  /\ request[c].pc = "write"
      /\ \/ ~Exists(u) /\ request' = Finished(c) /\ UNCHANGED users
         \/ /\ Exists(u)
            /\ users' = [users EXCEPT ![u] = Rewritten(@, op)]
            /\ request' = Disturbed(Finished(c))
      /\ UNCHANGED <<staff, applicants>>

\* Deleting a user deletes the user's applications; a row deleted meanwhile makes the
\* statement throw.
Write(c) ==
  LET u == request[c].target
      op == request[c].op
  IN  /\ request[c].pc = "write"
      /\ \/ ~Exists(u) /\ request' = Finished(c) /\ UNCHANGED <<users, applicants>>
         \/ /\ Exists(u)
            /\ users' = [users EXCEPT ![u] = Rewritten(@, op)]
            /\ request' = Disturbed(Finished(c))
            /\ applicants' = IF op = "DELETE" THEN applicants \ {u} ELSE applicants
      /\ UNCHANGED staff

------------------------------------------------------------------------------
\* The requests that lift a restriction or promote.
Lift(u) ==
  /\ staff # {} /\ Exists(u)
  /\ \/ \E flag \in Restrictions : WriteRow(u, [users[u] EXCEPT !.flags = @ \ {flag}])
     \/ \E cleared \in {{}, {"barred"}} :
          WriteRow(u, [users[u] EXCEPT !.flags = @ \ cleared, !.active = TRUE])
     \/ WriteRow(u, [users[u] EXCEPT !.flags = {}, !.active = TRUE])
     \/ WriteRow(u, [users[u] EXCEPT !.role = "ADMIN"])
  /\ UNCHANGED <<staff, applicants>>

\* updateUserStatus and deactivateAccount count nobody.
SetStatus(u) ==
  /\ staff # {} /\ Exists(u)
  /\ \/ \E active \in BOOLEAN : WriteRow(u, [users[u] EXCEPT !.active = active])
     \/ WriteRow(u, [users[u] EXCEPT !.flags = @ \cup {"suspended"}])
     \/ WriteRow(u, [users[u] EXCEPT !.flags = @ \ {"suspended"}])
  /\ UNCHANGED <<staff, applicants>>

DeactivateAccount(u) ==
  /\ Exists(u)
  /\ WriteRow(u, [users[u] EXCEPT !.active = FALSE])
  /\ UNCHANGED <<staff, applicants>>

\* Roles are read from the access token, which a sign-in or a refresh takes from the row
\* and which runs out.
SignIn(u) ==
  /\ users[u].role = "ADMIN" /\ SignedInAllowed(u)
  /\ staff' = staff \cup {u}
  /\ UNCHANGED <<users, applicants, request>>

TokenExpires(u) ==
  /\ u \in staff /\ staff' = staff \ {u}
  /\ UNCHANGED <<users, applicants, request>>

------------------------------------------------------------------------------
\* applyForHost; its test for a pending application is no matter here, and an application
\* can be approved whatever its status.
ApplyForHost(u) ==
  /\ Exists(u) /\ users[u].role # "HOST"
  /\ applicants' = applicants \cup {u}
  /\ UNCHANGED <<users, staff, request>>

\* An approval makes the applicant a host, whatever the applicant's role is.
ReviewHostApplication(u) ==
  /\ staff # {} /\ u \in applicants
  /\ WriteRow(u, [users[u] EXCEPT !.role = "HOST"])
  /\ UNCHANGED <<staff, applicants>>

------------------------------------------------------------------------------
Next ==
  \/ \E c \in Clerks :
       \/ \E u \in Users, op \in GuardedOps : Begin(c, u, op)
       \/ Count(c) \/ Write(c)
  \/ \E u \in Users :
       \/ Lift(u) \/ SetStatus(u) \/ DeactivateAccount(u) \/ SignIn(u) \/ TokenExpires(u)
       \/ ApplyForHost(u) \/ ReviewHostApplication(u)

Init == AccountsInit

Spec == Init /\ [][Next]_vars

------------------------------------------------------------------------------
\* What a guarded request of clerk c does when it writes and nobody wrote since its read.
WritesCalmly(c) ==
  request[c].pc = "write" /\ request[c].calm /\ request'[c] = IdleRequest

\* A restriction or a role change that nobody disturbs leaves an administrator who can
\* sign in (admin.service.ts:433, :751), and a deletion leaves a row with the role (:780):
\* the guards count the right rows for what the request is going to write.
GuardsLeaveAnAdministrator ==
  [][\A c \in Clerks : WritesCalmly(c) =>
       IF request[c].op = "DELETE" THEN AdminRows # {} => AdminRows' # {}
                                   ELSE Administrators # {} => Administrators' # {}]_vars

==============================================================================
