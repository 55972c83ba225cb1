---------------------------- MODULE SessionSystem ----------------------------
(***************************************************************************)
(* The account's sessions with everything that ends them - changed and     *)
(* reset passwords, restrictions by an administrator, deactivation - and   *)
(* the passing of time.                                                    *)
(***************************************************************************)
EXTENDS Sessions

\* The transactions of changePassword and resetPassword, and the second half of
\* updateUserStatus.
RevokeTokens ==
  /\ account # "absent"
  /\ tokens' = Revoked(Ages)
  /\ UNCHANGED <<account, browser, call>>

\* updateUserModerationStatus (SUSPEND, BAN, DEACTIVATE) and deactivateAccount write the
\* flags and revoke in one transaction; updateUserStatus writes the flags first.
Restrict ==
  /\ account # "absent" /\ account' = "barred"
  /\ tokens' = Revoked(Ages) \/ UNCHANGED tokens
  /\ UNCHANGED <<browser, call>>

Lift ==
  /\ account = "barred" /\ account' = "open"
  /\ UNCHANGED <<tokens, browser, call>>

------------------------------------------------------------------------------
\* A cookie lives as long as its token.
Older(age) == IF age = None \/ age = RefreshLife THEN None ELSE age + 1
OlderAccess(access) == IF access = None THEN None ELSE AccessOf(access + 1)

\* A second passes.  A handler that signed tokens answers before the second expires.
Tick ==
  /\ \A c \in Calls : call[c].fresh < RefreshLife
  /\ tokens' = [a \in Ages |-> IF a = 0 THEN "none" ELSE tokens[a - 1]]
  /\ browser' = [b \in Browsers |->
       [browser[b] EXCEPT !.cookie = Older(@), !.memory = OlderAccess(@),
                          !.storage = OlderAccess(@)]]
  /\ call' = [c \in Calls |->
       [call[c] EXCEPT !.bearer = OlderAccess(@), !.page = OlderAccess(@),
                       !.cookie = Older(@), !.fresh = Older(@)]]
  /\ UNCHANGED account

\* What the server and the page do next for a call that is under way.
CallStep(c) ==
  \/ Authenticate(c) \/ ReadRefresh(c) \/ RevokeUsed(c) \/ Sign(c) \/ Mint(c) \/ Renew(c)
  \/ GiveUp(c) \/ CheckLogin(c) \/ Register(c) \/ Store(c) \/ Welcome(c) \/ Logout(c)
  \/ LogoutAll(c) \/ ClearCookie(c)

Next ==
  \/ \E c \in Calls :
       \/ \E kind \in PageKinds \cup FormKinds : Send(c, kind)
       \/ Load(c) \/ CallStep(c) \/ Lose(c)
  \/ \E b \in Browsers : SignOut(b)
  \/ RevokeTokens \/ Restrict \/ Lift
  \/ Tick

Init == SessionsInit

Spec == Init /\ [][Next]_vars

\* The clock runs, and the server and the page take the next step of every call.
FairSpec == Spec /\ WF_vars(Tick) /\ \A c \in Calls : WF_vars(CallStep(c))

------------------------------------------------------------------------------
\* A revoked refresh token is never good again.  Tokens are signed to the second, so a
\* sign-in or a rotation in the second of a revoked one signs the same string: the unique
\* column turns it away (schema.prisma:353), and the caller has to sign in again.
RevokedStaysRevoked ==
  [][\/ \A a \in Ages : tokens[a] = "revoked" => tokens'[a] = "revoked"
     \/ \A a \in Ages : tokens[a] = "revoked" /\ a < RefreshLife => tokens'[a + 1] = "revoked"]_vars

\* Every call of a page ends, with an answer, an error or a sign-out: the interceptor
\* that resends refused requests does not go round for ever (client.ts:22-43).
CallsEnd == \A c \in Calls : call[c] # IdleCall ~> call[c] = IdleCall

\* Every step of a call takes it nearer to its end: a request is refreshed once, and the
\* resent one is never refreshed again (client.ts:27).  Rank counts the steps it has left.
Rank(r) ==
  CASE r.pc = "sent"     -> IF r.retried THEN 4 ELSE 10
    [] r.pc = "refresh"  -> 9
    [] r.pc = "rotate"   -> 8
    [] r.pc = "rotated"  -> 7
    [] r.pc = "mint"     -> 6
    [] r.pc = "renewed"  -> 5
    [] r.pc = "verified" -> 3
    [] r.pc = "store"    -> 2
    [] r.pc = "idle"     -> 0
    [] OTHER             -> 1

CallsShrink ==
  [][\A c \in Calls :
       call[c] # IdleCall /\ call'[c].pc # call[c].pc => Rank(call'[c]) < Rank(call[c])]_vars

\* The sign-ins, sign-ups and rotations that have passed the look at the account and have
\* yet to sign.
Passed == {c \in Calls : call[c].pc \in {"rotate", "rotated", "verified"}}

Held ==
  {browser[b].memory : b \in Browsers} \cup {browser[b].storage : b \in Browsers}
  \cup {call[c].bearer : c \in Calls} \cup {call[c].page : c \in Calls}
  \cup {AccessOf(call[c].fresh) : c \in Calls}

NoneYounger(age) == \A access \in Held : access = None \/ access >= age

\* While the account stays barred no sign-in and no rotation passes the look at it any
\* more, and once those that had passed it before have signed their tokens, access only
\* ages: nobody comes to hold a token younger than one somebody held, and a second makes
\* every one older (auth.service.ts:88-117, :195-207).
BarredAgesOut ==
  [][account = "barred" /\ account' = "barred" =>
       /\ Passed' \subseteq Passed
       /\ Passed = {} =>
            \A age \in 0 .. AccessLife :
              NoneYounger(age) => NoneYounger(age)' /\ (Tick => NoneYounger(age + 1)')]_vars

HasAccess(b) == Accepted(browser[b].memory) \/ Accepted(browser[b].storage)

\* Whoever is barred for good loses access for good, although access tokens are accepted
\* without a look at the account, and a sign-in or a rotation under way when the account
\* is barred still signs tokens ("revoke active authentication sessions immediately",
\* admin.service.ts:553): tokens run out, and refreshTokens reads the account.
RestrictionEndsAccess ==
  <>[](account = "barred") => <>[](\A b \in Browsers : ~HasAccess(b))

==============================================================================
