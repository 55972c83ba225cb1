------------------------------- MODULE Sessions -------------------------------
(***************************************************************************)
(* One account and the browsers its owner uses: sign-in, the access and    *)
(* refresh tokens, their rotation by the API client's interceptor, and     *)
(* what revokes them.                                                      *)
(*                                                                         *)
(* Time is kept in ages.  A refresh token is the JWT of the second it was  *)
(* signed in, so its age names it: two tokens signed in one second are one *)
(* string, and the column is unique.  A row older than RefreshLife is      *)
(* refused like one that does not exist, and leaves the model.             *)
(***************************************************************************)
EXTENDS Integers, FiniteSets

CONSTANTS
  Browsers,
  Fetches,       \* the calls the pages of a browser have under way at a time
  AccessLife,    \* ages at which an access token is accepted: 0 .. AccessLife
  RefreshLife    \* ages at which a refresh token is accepted: 0 .. RefreshLife

ASSUME LifeAssumption ==
  AccessLife \in Nat /\ RefreshLife \in Nat /\ AccessLife <= RefreshLife

\* A person submits one form at a time, while pages fetch.
Calls == Browsers \X (Fetches \cup {"form"})
PageKinds == {"api", "me"}
FormKinds == {"login", "register", "logout", "logoutAll"}
Ages == 0 .. RefreshLife
None == -1

VARIABLES
  account,    \* the user row: "absent", "open", or "barred" (inactive or suspended)
  tokens,     \* refresh token rows by age
  browser,    \* cookie, access token in memory and in storage, whether a user is set
  call

serverVars == <<account, tokens>>
vars == <<serverVars, browser, call>>

IdleCall ==
  [kind |-> "none", pc |-> "idle", bearer |-> None, page |-> None, retried |-> FALSE,
   cookie |-> None, fresh |-> None]

Accepted(access) == access \in 0 .. AccessLife
\* An access token as old as the refresh token signed with it; all that are too old are
\* alike.
AccessOf(age) == IF age > AccessLife THEN AccessLife + 1 ELSE age

\* Types; and a cookie names a row of the table.
SessionsTypeOK ==
  /\ account \in {"absent", "open", "barred"}
  /\ tokens \in [Ages -> {"none", "live", "revoked"}]
  /\ browser \in [Browsers -> [cookie : {None} \cup Ages, memory : None .. AccessLife + 1,
                               storage : None .. AccessLife + 1, user : BOOLEAN]]
  /\ \A c \in Calls :
       /\ call[c].kind \in {"none"} \cup (IF c[2] = "form" THEN FormKinds ELSE PageKinds)
       /\ call[c].pc \in {"idle", "sent", "refresh", "rotate", "rotated", "verified", "mint",
                          "renewed", "failed", "store", "welcome", "cleared"}
       /\ call[c].bearer \in None .. AccessLife + 1 /\ call[c].page \in None .. AccessLife + 1
       /\ call[c].cookie \in {None} \cup Ages /\ call[c].fresh \in {None} \cup Ages
       /\ call[c].retried \in BOOLEAN
  /\ \A b \in Browsers : browser[b].cookie # None => tokens[browser[b].cookie] # "none"

\* The seeded account, and browsers that have not signed in.
SessionsInit ==
  /\ account \in {"absent", "open"}
  /\ tokens = [a \in Ages |-> "none"]
  /\ browser = [b \in Browsers |->
       [cookie |-> None, memory |-> None, storage |-> None, user |-> FALSE]]
  /\ call = [c \in Calls |-> IdleCall]

------------------------------------------------------------------------------
Goto(c, pc) == call' = [call EXCEPT ![c].pc = pc]
End(c) == call' = [call EXCEPT ![c] = IdleCall]

SetAuth(b, access) ==
  [browser EXCEPT ![b].memory = access, ![b].storage = access, ![b].user = TRUE]
SignedOut(b) ==
  [browser EXCEPT ![b].memory = None, ![b].storage = None, ![b].user = FALSE]

\* A page sends a request, whoever is signed in; the interceptor attaches the token in
\* memory, if there is one.
Send(c, kind) ==
  LET here == browser[c[1]]
  IN  /\ call[c] = IdleCall
      /\ IF c[2] = "form" THEN kind \in FormKinds ELSE kind = "api"
      /\ call' = [call EXCEPT ![c] =
           [IdleCall EXCEPT !.kind = kind, !.pc = "sent",
                            !.bearer = IF kind \in {"api", "logoutAll"} THEN here.memory ELSE None,
                            !.cookie = IF kind = "logout" THEN here.cookie ELSE None]]
      /\ UNCHANGED <<serverVars, browser>>

\* A page load: the store starts from the stored token and asks who the user is.
Load(c) ==
  LET b == c[1]
      stored == browser[b].storage
  IN  /\ c[2] # "form"
      /\ \A other \in Calls : other[1] = b => call[other] = IdleCall
      /\ browser' = [browser EXCEPT ![b].memory = stored, ![b].user = FALSE]
      /\ call' = IF stored = None THEN call
                 ELSE [call EXCEPT ![c] =
                        [IdleCall EXCEPT !.kind = "me", !.pc = "sent", !.bearer = stored,
                                         !.page = stored]]
      /\ UNCHANGED serverVars

\* Mutation: the retried request is refreshed again.
RefusedForEver(c) ==
  /\ call' = [call EXCEPT ![c].retried = TRUE, ![c].pc = "refresh",
                          ![c].cookie = browser[c[1]].cookie]
  /\ UNCHANGED browser

\* The response interceptor on 401: one refresh for each request, with the cookie of
\* the moment.  The caller of /auth/me signs out when its request is refused.
Refused(c) ==
  \/ /\ ~call[c].retried
     /\ call' = [call EXCEPT ![c].retried = TRUE, ![c].pc = "refresh",
                             ![c].cookie = browser[c[1]].cookie]
     /\ UNCHANGED browser
  \/ /\ call[c].retried
     /\ browser' = IF call[c].kind = "me" THEN SignedOut(c[1]) ELSE browser
     /\ End(c)

\* authenticate: the signature and the age of the token, no look at the account.
Authenticate(c) ==
  /\ call[c].pc = "sent" /\ call[c].kind \in PageKinds
  /\ \/ ~Accepted(call[c].bearer) /\ Refused(c)
     \/ /\ Accepted(call[c].bearer)
        /\ browser' = IF call[c].kind = "me" THEN SetAuth(c[1], call[c].page) ELSE browser
        /\ End(c)
  /\ UNCHANGED serverVars

------------------------------------------------------------------------------
(***************************************************************************)
(* refreshTokens, between the client's two halves of the interceptor.      *)
(***************************************************************************)
\* Mutation: the account is not looked at.
RefreshUnchecked(c) ==
  /\ call[c].pc = "refresh"
  /\ IF call[c].cookie \in Ages /\ tokens[call[c].cookie] = "live"
       THEN Goto(c, "rotate")
       ELSE Goto(c, "failed")
  /\ UNCHANGED <<serverVars, browser>>

ReadRefresh(c) ==
  /\ call[c].pc = "refresh"
  /\ IF call[c].cookie \in Ages /\ tokens[call[c].cookie] = "live" /\ account = "open"
       THEN Goto(c, "rotate")
       ELSE Goto(c, "failed")
  /\ UNCHANGED <<serverVars, browser>>

RevokeUsed(c) ==
  /\ call[c].pc = "rotate"
  /\ tokens' = IF call[c].cookie \in Ages
                 THEN [tokens EXCEPT ![call[c].cookie] = "revoked"] ELSE tokens
  /\ call' = [call EXCEPT ![c].pc = "rotated", ![c].cookie = None]
  /\ UNCHANGED <<account, browser>>

\* The tokens are signed once the statements before have answered: the revocation here,
\* the password and lastLoginAt in login, the user's row in register.
Sign(c) ==
  /\ \/ call[c].pc = "rotated" /\ call' = [call EXCEPT ![c].pc = "mint", ![c].fresh = 0]
     \/ call[c].pc = "verified" /\ call' = [call EXCEPT ![c].pc = "store", ![c].fresh = 0]
  /\ UNCHANGED <<serverVars, browser>>

\* Mutation: a token already in the table is made live again.
MintAgain(c) ==
  /\ call[c].pc = "mint"
  /\ tokens' = [tokens EXCEPT ![call[c].fresh] = "live"]
  /\ Goto(c, "renewed")
  /\ UNCHANGED <<account, browser>>

\* The row of the new token, which must not exist yet.
Mint(c) ==
  /\ call[c].pc = "mint"
  /\ \/ /\ tokens[call[c].fresh] = "none"
        /\ tokens' = [tokens EXCEPT ![call[c].fresh] = "live"]
        /\ Goto(c, "renewed")
     \/ tokens[call[c].fresh] # "none" /\ Goto(c, "failed") /\ UNCHANGED tokens
  /\ UNCHANGED <<account, browser>>

\* The answer sets the cookie.  Without a user only the storage gets the token, and
\* the resent request carries the one in memory, if there is one.
Renew(c) ==
  LET b == c[1]
      access == AccessOf(call[c].fresh)
      here == browser[b]
      bearer == IF here.user \/ here.memory = None THEN access ELSE here.memory
  IN  /\ call[c].pc = "renewed"
      /\ browser' = [(IF here.user THEN SetAuth(b, access)
                                   ELSE [browser EXCEPT ![b].storage = access])
                     EXCEPT ![b].cookie = call[c].fresh]
      /\ call' = [call EXCEPT ![c].pc = "sent", ![c].bearer = bearer,
                              ![c].fresh = None]
      /\ UNCHANGED serverVars

GiveUp(c) ==
  /\ call[c].pc = "failed"
  /\ browser' = SignedOut(c[1])
  /\ End(c)
  /\ UNCHANGED serverVars

------------------------------------------------------------------------------
(***************************************************************************)
(* register, login, logout, logoutAll.                                     *)
(***************************************************************************)
\* The tests on the row that was read; a wrong password is refused like a bar.  The
\* handler then waits for bcrypt and for lastLoginAt before it signs.
CheckLogin(c) ==
  /\ call[c].pc = "sent" /\ call[c].kind = "login"
  /\ \/ Refused(c)
     \/ account = "open" /\ Goto(c, "verified") /\ UNCHANGED browser
  /\ UNCHANGED serverVars

\* The user is created first, the refresh token after.
Register(c) ==
  /\ call[c].pc = "sent" /\ call[c].kind = "register"
  /\ \/ account # "absent" /\ End(c) /\ UNCHANGED account
     \/ account = "absent" /\ account' = "open" /\ Goto(c, "verified")
  /\ UNCHANGED <<tokens, browser>>

\* Mutation: the answer does not wait for the row.
StoreLater(c) ==
  /\ call[c].pc = "store"
  /\ \/ tokens[call[c].fresh] = "none" /\ Goto(c, "welcome")
     \/ tokens[call[c].fresh] # "none" /\ End(c)
  /\ UNCHANGED <<serverVars, browser>>

\* The token's row, and the answer that signs the browser in.
Store(c) ==
  LET age == call[c].fresh
  IN  /\ call[c].pc = "store"
      /\ \/ tokens[age] # "none" /\ End(c) /\ UNCHANGED tokens
         \/ /\ tokens[age] = "none"
            /\ tokens' = [tokens EXCEPT ![age] = "live"]
            /\ Goto(c, "welcome")
      /\ UNCHANGED <<account, browser>>

Welcome(c) ==
  /\ call[c].pc = "welcome"
  /\ browser' = [SetAuth(c[1], AccessOf(call[c].fresh)) EXCEPT ![c[1]].cookie = call[c].fresh]
  /\ End(c)
  /\ UNCHANGED serverVars

Revoked(which) ==
  [a \in Ages |-> IF a \in which /\ tokens[a] = "live" THEN "revoked" ELSE tokens[a]]

\* logout needs no access token, and has the cookie of the time it was sent.
Logout(c) ==
  /\ call[c].pc = "sent" /\ call[c].kind = "logout"
  /\ tokens' = Revoked({call[c].cookie})
  /\ Goto(c, "cleared")
  /\ UNCHANGED <<account, browser>>

LogoutAll(c) ==
  /\ call[c].pc = "sent" /\ call[c].kind = "logoutAll"
  /\ \/ ~Accepted(call[c].bearer) /\ Refused(c) /\ UNCHANGED tokens
     \/ /\ Accepted(call[c].bearer)
        /\ tokens' = Revoked(Ages)
        /\ Goto(c, "cleared") /\ UNCHANGED browser
  /\ UNCHANGED account

ClearCookie(c) ==
  /\ call[c].pc = "cleared"
  /\ browser' = [browser EXCEPT ![c[1]].cookie = None]
  /\ End(c)
  /\ UNCHANGED serverVars

\* The menu's sign-out forgets the store and tells the server nothing.
SignOut(b) ==
  /\ browser[b].user
  /\ browser' = SignedOut(b)
  /\ UNCHANGED <<serverVars, call>>

\* The request is lost, before or after any statement of the handler.
Lose(c) ==
  /\ call[c] # IdleCall
  /\ browser' = IF call[c].pc \in {"refresh", "rotate", "rotated", "mint", "renewed", "failed"}
                   \/ call[c].kind = "me"
                  THEN SignedOut(c[1]) ELSE browser
  /\ End(c)
  /\ UNCHANGED serverVars

==============================================================================
