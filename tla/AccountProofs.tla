----------------------------- MODULE AccountProofs -----------------------------
(***************************************************************************)
(* Accounts' type invariant, and that a guarded request which nobody       *)
(* disturbs leaves an administrator, for any users, founders and clerks.   *)
(***************************************************************************)
EXTENDS Accounts, FiniteSetTheorems, TLAPS

Rows == [role : Roles \cup {"GONE"}, active : BOOLEAN, flags : SUBSET Restrictions]
RequestRecord == [op : GuardedOps \cup {"none"}, target : Users \cup {"none"},
                  pc : {"idle", "count", "write"}, calm : BOOLEAN]

RowsOK ==
  /\ users \in [Users -> Rows]
  /\ staff \subseteq Users
  /\ applicants \subseteq {u \in Users : Exists(u)}

\* A request under way has an operation and a target.
UnderWay(r) == r.pc # "idle" => r.op \in GuardedOps /\ r.target \in Users

RequestsOK ==
  /\ request \in [Clerks -> RequestRecord]
  /\ \A c \in Clerks : UnderWay(request[c])

\* What the guard has seen stands as long as no row changes: the target is no administrator,
\* or another of the rows that were counted is there.
Guarded(r) ==
  r.pc = "write" /\ r.calm =>
    users[r.target].role # "ADMIN" \/ \E u \in Counted(r.op) : u # r.target

\* The inductive invariant.
Inv == RowsOK /\ RequestsOK /\ \A c \in Clerks : Guarded(request[c])

\* The invariant contains the types.
LEMMA InvImplies ==
  ASSUME Inv
  PROVE  AccountsTypeOK
  BY DEF Inv, RowsOK, Rows, RequestsOK, RequestRecord, AccountsTypeOK

\* The seeded rows satisfy the invariant.
LEMMA InitInv ==
  ASSUME Init
  PROVE  Inv
<1> USE DEF Init, AccountsInit
<1>1. RowsOK
  BY FoundersAssumption DEF RowsOK, Rows, Roles, Exists
<1>2. RequestsOK
  BY DEF RequestsOK, RequestRecord, UnderWay, IdleRequest
<1>3. \A c \in Clerks : Guarded(request[c])
  BY DEF Guarded, IdleRequest
<1> QED BY <1>1, <1>2, <1>3 DEF Inv

\* A finite set of more than one member has one besides any given.
LEMMA AnotherOne ==
  ASSUME NEW S, IsFiniteSet(S), Cardinality(S) > 1, NEW x
  PROVE  \E y \in S : y # x
<1>1. SUFFICES ASSUME S \subseteq {x} PROVE FALSE
  OBVIOUS
<1>2. IsFiniteSet({x}) /\ Cardinality({x}) = 1
  BY FS_Singleton
<1>3. Cardinality(S) <= 1
  BY <1>1, <1>2, FS_Subset
<1> QED BY <1>3, FS_CardinalityType

\* A guard counts administrators.
LEMMA CountedAreUsers ==
  ASSUME NEW op
  PROVE  /\ Counted(op) \subseteq Users /\ IsFiniteSet(Counted(op))
         /\ Counted(op) \subseteq AdminRows
         /\ op # "DELETE" => Counted(op) \subseteq Administrators
<1>1. /\ Counted(op) \subseteq Users /\ Counted(op) \subseteq AdminRows
      /\ op # "DELETE" => Counted(op) \subseteq Administrators
  BY DEF Counted, Administrators, Unrestricted, AdminRows
<1> QED BY <1>1, FS_Subset, FoundersAssumption

------------------------------------------------------------------------------
(***************************************************************************)
(* Steps that write no row, and steps that write one.                      *)
(***************************************************************************)
LEMMA RowsUnchanged ==
  ASSUME Inv, UNCHANGED users, staff' \subseteq Users,
         applicants' \subseteq {u \in Users : Exists(u)}
  PROVE  /\ RowsOK'
         /\ \A r : Guarded(r)' <=> Guarded(r)
  BY DEF Inv, RowsOK, Exists, Guarded, Counted, Administrators, Unrestricted, AdminRows,
         SignedInAllowed

\* A step of one request that changes no row keeps the invariant.
LEMMA RequestStep ==
  ASSUME Inv, NEW c \in Clerks, NEW r \in RequestRecord, UnderWay(r), Guarded(r),
         request' = [request EXCEPT ![c] = r], UNCHANGED <<users, staff, applicants>>
  PROVE  Inv'
<1>1. RequestsOK'
  BY DEF Inv, RequestsOK, UnderWay
<1>2. \A d \in Clerks : Guarded(request'[d])
  BY DEF Inv, RequestsOK
<1>3. RowsOK' /\ \A d \in Clerks : Guarded(request[d])'
  BY <1>2, RowsUnchanged DEF Inv, RowsOK
<1> QED BY <1>1, <1>3 DEF Inv

\* The read of a guarded request keeps the invariant.
LEMMA BeginKeeps ==
  ASSUME Inv, NEW c \in Clerks, NEW u \in Users, NEW op \in GuardedOps, Begin(c, u, op)
  PROVE  Inv'
<1> DEFINE r == [op |-> op, target |-> u,
                 pc |-> IF users[u].role = "ADMIN" THEN "count" ELSE "write", calm |-> TRUE]
<1>1. r \in RequestRecord /\ UnderWay(r)
  BY DEF RequestRecord, UnderWay
<1>2. Guarded(r)
  BY DEF Guarded
<1>3. request' = [request EXCEPT ![c] = r] /\ UNCHANGED <<users, staff, applicants>>
  BY DEF Begin
<1> HIDE DEF r
<1> QED BY <1>1, <1>2, <1>3, RequestStep

\* An idle request claims nothing.
LEMMA IdleOK == IdleRequest \in RequestRecord /\ UnderWay(IdleRequest) /\ IdleRequest.pc = "idle"
  BY DEF IdleRequest, RequestRecord, UnderWay

\* A count that lets the request pass leaves it guarded.
LEMMA CountKeeps ==
  ASSUME Inv, NEW c \in Clerks, Count(c)
  PROVE  Inv'
<1>1. CASE Cardinality(Counted(request[c].op)) <= 1
  <2>1. request' = [request EXCEPT ![c] = IdleRequest] /\ UNCHANGED <<users, staff, applicants>>
    BY <1>1 DEF Count, Finished
  <2> QED BY <2>1, IdleOK, RequestStep DEF Guarded
<1>2. CASE ~(Cardinality(Counted(request[c].op)) <= 1)
  <2> DEFINE r == [request[c] EXCEPT !.pc = "write"]
  <2>1. request[c] \in RequestRecord /\ UnderWay(request[c])
    BY DEF Inv, RequestsOK
  <2>2. /\ r \in RequestRecord /\ UnderWay(r)
        /\ r.op = request[c].op /\ r.target = request[c].target
    BY <2>1 DEF RequestRecord, UnderWay, Count
  <2>3. Cardinality(Counted(request[c].op)) > 1
    BY <1>2, CountedAreUsers, FS_CardinalityType
  <2>4. \E u \in Counted(r.op) : u # r.target
    BY <2>2, <2>3, CountedAreUsers, AnotherOne
  <2>5. Guarded(r)
    BY <2>4 DEF Guarded
  <2>6. request' = [request EXCEPT ![c] = r] /\ UNCHANGED <<users, staff, applicants>>
    BY <1>2 DEF Count
  <2> HIDE DEF r
  <2> QED BY <2>2, <2>5, <2>6, RequestStep
<1> QED BY <1>1, <1>2

\* A row that is written disturbs every request.
LEMMA DisturbedKeeps ==
  ASSUME Inv, NEW before \in [Clerks -> RequestRecord], \A c \in Clerks : UnderWay(before[c]),
         request' = Disturbed(before), RowsOK'
  PROVE  Inv'
<1>1. \A c \in Clerks : request'[c] = [before[c] EXCEPT !.calm = FALSE]
  BY DEF Disturbed
<1>2. \A c \in Clerks : request'[c] \in RequestRecord /\ UnderWay(request'[c]) /\ ~request'[c].calm
  BY <1>1 DEF RequestRecord, UnderWay
<1>3. RequestsOK'
  BY <1>2 DEF RequestsOK, Disturbed, UnderWay
<1>4. (\A c \in Clerks : Guarded(request[c]))'
  BY <1>2 DEF Guarded
<1> QED BY <1>3, <1>4 DEF Inv

\* What a guarded request writes is a row.
LEMMA RewrittenOK ==
  ASSUME NEW row \in Rows, row.role # "GONE", NEW op \in GuardedOps
  PROVE  /\ Rewritten(row, op) \in Rows
         /\ op # "DELETE" => Rewritten(row, op).role # "GONE"
  BY DEF Rows, Roles, Restrictions, GuardedOps, Rewritten

\* A request that is over is idle.
LEMMA FinishedOK ==
  ASSUME Inv, NEW c \in Clerks
  PROVE  Finished(c) \in [Clerks -> RequestRecord] /\ \A d \in Clerks : UnderWay(Finished(c)[d])
  BY IdleOK DEF Inv, RequestsOK, Finished

\* The write of a guarded request keeps the invariant.
LEMMA WriteKeeps ==
  ASSUME Inv, NEW c \in Clerks, Write(c)
  PROVE  Inv'
<1> DEFINE u == request[c].target
           op == request[c].op
<1>1. u \in Users /\ op \in GuardedOps
  BY DEF Inv, RequestsOK, UnderWay, Write
<1>2. CASE ~Exists(u)
  <2>1. request' = [request EXCEPT ![c] = IdleRequest] /\ UNCHANGED <<users, staff, applicants>>
    BY <1>2 DEF Write, Finished
  <2> QED BY <2>1, IdleOK, RequestStep DEF Guarded
<1>3. CASE Exists(u)
  <2>1. /\ users' = [users EXCEPT ![u] = Rewritten(users[u], op)]
        /\ request' = Disturbed(Finished(c))
        /\ applicants' = IF op = "DELETE" THEN applicants \ {u} ELSE applicants
        /\ UNCHANGED staff
    BY <1>3 DEF Write
  <2>2. users[u] \in Rows /\ users[u].role # "GONE"
    BY <1>1, <1>3 DEF Inv, RowsOK, Exists
  <2>3. /\ Rewritten(users[u], op) \in Rows
        /\ op # "DELETE" => Rewritten(users[u], op).role # "GONE"
    BY <1>1, <2>2, RewrittenOK
  <2>4. users' \in [Users -> Rows] /\ \A v \in Users : v # u => users'[v] = users[v]
    BY <1>1, <2>1, <2>3 DEF Inv, RowsOK
  <2>5. RowsOK'
    BY <1>1, <2>1, <2>3, <2>4 DEF Inv, RowsOK, Exists
  <2> QED BY <2>1, <2>5, FinishedOK, DisturbedKeeps
<1> QED BY <1>2, <1>3

\* Everything else that writes a row leaves it there.
LEMMA WriteRowKeeps ==
  ASSUME Inv, NEW u \in Users, Exists(u), NEW row \in Rows, row.role # "GONE", WriteRow(u, row),
         UNCHANGED <<staff, applicants>>
  PROVE  Inv'
<1>1. RowsOK'
  BY DEF Inv, RowsOK, WriteRow, Exists
<1> QED BY <1>1, DisturbedKeeps DEF Inv, RequestsOK, WriteRow

\* A row that exists, with other flags, state or role, is a row that exists.
LEMMA ChangedRowOK ==
  ASSUME Inv, NEW u \in Users, Exists(u),
         NEW role \in Roles, NEW active \in BOOLEAN, NEW flags \in SUBSET Restrictions
  PROVE  /\ [users[u] EXCEPT !.flags = flags] \in Rows
         /\ [users[u] EXCEPT !.flags = flags].role # "GONE"
         /\ [users[u] EXCEPT !.active = active] \in Rows
         /\ [users[u] EXCEPT !.active = active].role # "GONE"
         /\ [users[u] EXCEPT !.flags = flags, !.active = active] \in Rows
         /\ [users[u] EXCEPT !.flags = flags, !.active = active].role # "GONE"
         /\ [users[u] EXCEPT !.role = role] \in Rows
         /\ [users[u] EXCEPT !.role = role].role # "GONE"
<1>1. users[u] \in Rows /\ users[u].role # "GONE"
  BY DEF Inv, RowsOK, Exists
<1> QED BY <1>1 DEF Rows, Roles

\* Lifting a restriction keeps the invariant.
LEMMA LiftKeeps ==
  ASSUME Inv, NEW u \in Users, Lift(u)
  PROVE  Inv'
<1>1. Exists(u) /\ users[u].flags \subseteq Restrictions /\ UNCHANGED <<staff, applicants>>
  BY DEF Lift, Inv, RowsOK, Rows
<1>2. CASE \E flag \in Restrictions :
             WriteRow(u, [users[u] EXCEPT !.flags = users[u].flags \ {flag}])
  BY <1>1, <1>2, ChangedRowOK, WriteRowKeeps DEF Roles
<1>3. CASE \E cleared \in {{}, {"barred"}} :
             WriteRow(u, [users[u] EXCEPT !.flags = users[u].flags \ cleared, !.active = TRUE])
  BY <1>1, <1>3, ChangedRowOK, WriteRowKeeps DEF Roles
<1>4. CASE WriteRow(u, [users[u] EXCEPT !.flags = {}, !.active = TRUE])
  BY <1>1, <1>4, ChangedRowOK, WriteRowKeeps DEF Roles
<1>5. CASE WriteRow(u, [users[u] EXCEPT !.role = "ADMIN"])
  BY <1>1, <1>5, ChangedRowOK, WriteRowKeeps DEF Roles
<1> QED BY <1>2, <1>3, <1>4, <1>5 DEF Lift

\* So does the older status request.
LEMMA SetStatusKeeps ==
  ASSUME Inv, NEW u \in Users, SetStatus(u)
  PROVE  Inv'
<1>1. Exists(u) /\ users[u].flags \subseteq Restrictions /\ UNCHANGED <<staff, applicants>>
  BY DEF SetStatus, Inv, RowsOK, Rows
<1>2. CASE \E active \in BOOLEAN : WriteRow(u, [users[u] EXCEPT !.active = active])
  BY <1>1, <1>2, ChangedRowOK, WriteRowKeeps DEF Roles
<1>3. CASE WriteRow(u, [users[u] EXCEPT !.flags = users[u].flags \cup {"suspended"}])
  BY <1>1, <1>3, ChangedRowOK, WriteRowKeeps DEF Roles, Restrictions
<1>4. CASE WriteRow(u, [users[u] EXCEPT !.flags = users[u].flags \ {"suspended"}])
  BY <1>1, <1>4, ChangedRowOK, WriteRowKeeps DEF Roles
<1> QED BY <1>2, <1>3, <1>4 DEF SetStatus

\* So does an owner who deactivates the account.
LEMMA DeactivateAccountKeeps ==
  ASSUME Inv, NEW u \in Users, DeactivateAccount(u)
  PROVE  Inv'
  BY ChangedRowOK, WriteRowKeeps DEF DeactivateAccount, Roles

\* So does an approved application.
LEMMA ReviewHostApplicationKeeps ==
  ASSUME Inv, NEW u \in Users, ReviewHostApplication(u)
  PROVE  Inv'
<1>1. Exists(u)
  BY DEF ReviewHostApplication, Inv, RowsOK
<1> QED BY <1>1, ChangedRowOK, WriteRowKeeps DEF ReviewHostApplication, Roles

\* Sign-ins and applications write no row.
LEMMA OthersKeep ==
  ASSUME Inv, NEW u \in Users, SignIn(u) \/ TokenExpires(u) \/ ApplyForHost(u)
  PROVE  Inv'
<1>1. /\ UNCHANGED <<users, request>> /\ staff' \subseteq Users
      /\ applicants' \subseteq {v \in Users : Exists(v)}
  BY DEF Inv, RowsOK, SignIn, TokenExpires, ApplyForHost
<1>2. RequestsOK'
  BY <1>1 DEF Inv, RequestsOK, UnderWay
<1>3. RowsOK' /\ (\A c \in Clerks : Guarded(request[c]))'
  BY <1>1, RowsUnchanged DEF Inv
<1> QED BY <1>2, <1>3 DEF Inv

\* Every step keeps the invariant.
LEMMA NextKeeps ==
  ASSUME Inv, [Next]_vars
  PROVE  Inv'
<1>1. CASE UNCHANGED vars
  <2>1. RequestsOK'
    BY <1>1 DEF vars, Inv, RequestsOK, UnderWay
  <2>2. RowsOK' /\ (\A c \in Clerks : Guarded(request[c]))'
    BY <1>1, RowsUnchanged DEF vars, Inv, RowsOK
  <2> QED BY <2>1, <2>2 DEF Inv
<1>2. CASE \E c \in Clerks :
             (\E u \in Users, op \in GuardedOps : Begin(c, u, op)) \/ Count(c) \/ Write(c)
  BY <1>2, BeginKeeps, CountKeeps, WriteKeeps
<1>3. CASE \E u \in Users :
             \/ Lift(u) \/ SetStatus(u) \/ DeactivateAccount(u) \/ SignIn(u) \/ TokenExpires(u)
             \/ ApplyForHost(u) \/ ReviewHostApplication(u)
  BY <1>3, LiftKeeps, SetStatusKeeps, DeactivateAccountKeeps, OthersKeep,
     ReviewHostApplicationKeeps
<1> QED BY <1>1, <1>2, <1>3 DEF Next

\* The inductive invariant of user rows: types, and for a request that has counted an
\* unchanged table the administrator its guard found (admin.service.ts:433, 751, 816).
THEOREM Invariance == Spec => []Inv
  BY InitInv, NextKeeps, PTL DEF Spec

\* Every variable has its type, and applications belong to users that exist
\* (admin.service.ts:770-787).
THEOREM TypeCorrect == Spec => []AccountsTypeOK
  BY Invariance, InvImplies, PTL

------------------------------------------------------------------------------
(***************************************************************************)
(* A guarded request that nobody disturbs leaves an administrator.         *)
(***************************************************************************)
Leaves(op) ==
  IF op = "DELETE" THEN AdminRows # {} => AdminRows' # {}
                   ELSE Administrators # {} => Administrators' # {}

\* Where no row changes nobody is removed.
LEMMA UnwrittenLeaves ==
  ASSUME UNCHANGED users, NEW op
  PROVE  Leaves(op)
  BY DEF Leaves, AdminRows, Administrators, SignedInAllowed

\* A guarded write on an unchanged table leaves the administrator the guard found.
LEMMA WriteLeaves ==
  ASSUME Inv, NEW c \in Clerks, Write(c), request[c].calm
  PROVE  Leaves(request[c].op)
<1> DEFINE u == request[c].target
           op == request[c].op
<1>1. u \in Users /\ op \in GuardedOps
  BY DEF Inv, RequestsOK, UnderWay, Write
<1>2. CASE ~Exists(u)
  BY <1>2, UnwrittenLeaves DEF Write
<1>3. CASE Exists(u)
  <2>1. users' = [users EXCEPT ![u] = Rewritten(users[u], op)]
    BY <1>3 DEF Write
  <2>2. \A v \in Users : v # u => users'[v] = users[v]
    BY <1>1, <2>1 DEF Inv, RowsOK
  <2>3. users[u].role # "ADMIN" \/ \E v \in Counted(op) : v # u
    BY DEF Inv, Guarded, Write
  <2>4. CASE op = "DELETE"
    <3>1. AdminRows # {} => \E v \in AdminRows : v # u
      BY <2>3, CountedAreUsers DEF AdminRows
    <3>2. \A v \in AdminRows : v # u => v \in AdminRows'
      BY <2>2 DEF AdminRows
    <3> QED BY <2>4, <3>1, <3>2 DEF Leaves
  <2>5. CASE op # "DELETE"
    <3>1. Administrators # {} => \E v \in Administrators : v # u
      BY <2>3, <2>5, CountedAreUsers DEF Administrators
    <3>2. \A v \in Administrators : v # u => v \in Administrators'
      BY <2>2 DEF Administrators, SignedInAllowed
    <3> QED BY <2>5, <3>1, <3>2 DEF Leaves
  <2> QED BY <2>4, <2>5
<1> QED BY <1>2, <1>3

\* Only a request's own write ends it without having disturbed it.
LEMMA CalmWriteIsWrite ==
  ASSUME Inv, Next, NEW c \in Clerks, WritesCalmly(c)
  PROVE  Write(c) \/ UNCHANGED users
<1>1. request[c] \in RequestRecord /\ request[c].pc = "write" /\ request'[c].pc = "idle"
  BY IdleOK DEF Inv, RequestsOK, WritesCalmly
<1>2. ASSUME NEW before \in [Clerks -> RequestRecord], before[c] = request[c],
             request' = Disturbed(before)
      PROVE  FALSE
  BY <1>1, <1>2 DEF Disturbed, RequestRecord
<1>3. ASSUME NEW d \in Clerks, Write(d), d # c
      PROVE  UNCHANGED users
  <2>1. Finished(d) \in [Clerks -> RequestRecord] /\ Finished(d)[c] = request[c]
    BY <1>3, FinishedOK DEF Inv, RequestsOK, Finished
  <2> QED BY <1>2, <1>3, <2>1 DEF Write
<1>4. ASSUME NEW u \in Users,
             Lift(u) \/ SetStatus(u) \/ DeactivateAccount(u) \/ ReviewHostApplication(u)
      PROVE  FALSE
  <2>1. request' = Disturbed(request)
    BY <1>4 DEF Lift, SetStatus, DeactivateAccount, ReviewHostApplication, WriteRow
  <2> QED BY <1>2, <2>1 DEF Inv, RequestsOK
<1> QED BY <1>3, <1>4 DEF Next, Begin, Count, SignIn, TokenExpires, ApplyForHost

LeavesAnAdministrator == \A c \in Clerks : WritesCalmly(c) => Leaves(request[c].op)

\* Every step leaves an administrator as the property says.
LEMMA StepLeaves ==
  ASSUME Inv, [Next]_vars
  PROVE  LeavesAnAdministrator
<1> SUFFICES ASSUME NEW c \in Clerks, WritesCalmly(c)
             PROVE  Leaves(request[c].op)
  BY DEF LeavesAnAdministrator
<1>1. CASE UNCHANGED vars
  BY <1>1, UnwrittenLeaves DEF vars
<1>2. CASE Next
  BY <1>2, CalmWriteIsWrite, WriteLeaves, UnwrittenLeaves DEF WritesCalmly
<1> QED BY <1>1, <1>2

\* The guards count the right rows for what the request is going to write
\* (admin.service.ts:433, :751, :780).
THEOREM GuardsSuffice == Spec => GuardsLeaveAnAdministrator
<1>1. Inv /\ [Next]_vars => [LeavesAnAdministrator]_vars
  BY StepLeaves
<1> QED BY <1>1, Invariance, PTL
        DEF Spec, GuardsLeaveAnAdministrator, LeavesAnAdministrator, Leaves

==============================================================================
