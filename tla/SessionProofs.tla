----------------------------- MODULE SessionProofs -----------------------------
(***************************************************************************)
(* SessionSystem: revoked tokens stay revoked, calls end after a bounded   *)
(* number of steps, and a barred account gains nothing - for any browsers, *)
(* calls and lives of the tokens.                                          *)
(***************************************************************************)
EXTENDS SessionSystem, TLAPS

BrowserRecord == [cookie : {None} \cup Ages, memory : None .. AccessLife + 1,
                  storage : None .. AccessLife + 1, user : BOOLEAN]

CallRecord == [kind : {"none"} \cup FormKinds \cup PageKinds,
               pc : {"idle", "sent", "refresh", "rotate", "rotated", "verified", "mint",
                     "renewed", "failed", "store", "welcome", "cleared"},
               bearer : None .. AccessLife + 1, page : None .. AccessLife + 1,
               retried : BOOLEAN, cookie : {None} \cup Ages, fresh : {None} \cup Ages]

ServerOK ==
  /\ account \in {"absent", "open", "barred"}
  /\ tokens \in [Ages -> {"none", "live", "revoked"}]

BrowserOK ==
  /\ browser \in [Browsers -> BrowserRecord]
  /\ \A b \in Browsers : browser[b].cookie # None => tokens[browser[b].cookie] # "none"

\* Forms and pages make their own kinds of calls.
KindOK(c, kind) == kind \in {"none"} \cup (IF c[2] = "form" THEN FormKinds ELSE PageKinds)

\* A handler that answers with a token has stored its row, so the cookie it sets names one.
TokenOK(r, rows) ==
  /\ r.pc \in {"mint", "store", "renewed", "welcome"} => r.fresh \in Ages
  /\ r.pc \in {"renewed", "welcome"} => rows[r.fresh] # "none"

CallOK ==
  /\ call \in [Calls -> CallRecord]
  /\ \A c \in Calls : KindOK(c, call[c].kind) /\ TokenOK(call[c], tokens)

\* The inductive invariant.
Inv == ServerOK /\ BrowserOK /\ CallOK

\* The invariant contains the types.
LEMMA InvImplies ==
  ASSUME Inv
  PROVE  SessionsTypeOK
  BY DEF Inv, ServerOK, BrowserOK, BrowserRecord, CallOK, CallRecord, KindOK, SessionsTypeOK

\* An idle call holds no token.
LEMMA IdleCallOK ==
  IdleCall \in CallRecord /\ (\A rows : TokenOK(IdleCall, rows)) /\ \A c : KindOK(c, IdleCall.kind)
  BY LifeAssumption DEF IdleCall, CallRecord, TokenOK, KindOK, None, Ages

\* Browsers that have not signed in satisfy the invariant.
LEMMA InitInv ==
  ASSUME Init
  PROVE  Inv
<1> USE LifeAssumption DEF Init, SessionsInit
<1>1. ServerOK
  BY DEF ServerOK
<1>2. BrowserOK
  BY DEF BrowserOK, BrowserRecord, None, Ages
<1>3. CallOK
  BY IdleCallOK DEF CallOK
<1> QED BY <1>1, <1>2, <1>3 DEF Inv

------------------------------------------------------------------------------
(***************************************************************************)
(* Rows never go, except as time passes.                                   *)
(***************************************************************************)
TokensKept ==
  /\ ServerOK'
  /\ \A a \in Ages : tokens[a] # "none" => tokens'[a] # "none"
  /\ \A a \in Ages : tokens[a] = "revoked" => tokens'[a] = "revoked"

\* A step that changes no row keeps the tokens.
LEMMA TokensUnchanged ==
  ASSUME Inv, UNCHANGED serverVars
  PROVE  TokensKept
  BY DEF Inv, ServerOK, TokensKept, serverVars

\* Revoking keeps every row.
LEMMA RevokingKeepsTokens ==
  ASSUME Inv, NEW which, tokens' = Revoked(which), account' \in {"absent", "open", "barred"}
  PROVE  TokensKept
  BY DEF Inv, ServerOK, TokensKept, Revoked

\* An insertion is of a string the unique column does not have.
LEMMA StoringKeepsTokens ==
  ASSUME Inv, UNCHANGED account, NEW age \in Ages, tokens[age] = "none",
         tokens' = [tokens EXCEPT ![age] = "live"]
  PROVE  TokensKept /\ tokens'[age] # "none"
  BY DEF Inv, ServerOK, TokensKept

\* What a step leaves alone stays as it should be.
LEMMA Frame ==
  ASSUME Inv, TokensKept
  PROVE  /\ UNCHANGED browser => BrowserOK'
         /\ UNCHANGED call => CallOK'
<1>1. UNCHANGED browser => BrowserOK'
  BY DEF Inv, BrowserOK, BrowserRecord, TokensKept
<1>2. UNCHANGED call => CallOK'
  BY DEF Inv, CallOK, CallRecord, TokenOK, KindOK, TokensKept
<1> QED BY <1>1, <1>2

\* One browser changes; one call does.
LEMMA BrowserStep ==
  ASSUME Inv, TokensKept, NEW b \in Browsers, NEW r \in BrowserRecord,
         browser' = [browser EXCEPT ![b] = r],
         r.cookie # None => tokens'[r.cookie] # "none"
  PROVE  BrowserOK'
  BY DEF Inv, BrowserOK, BrowserRecord, TokensKept

\* A step of one call keeps the calls when its own record is sound.
LEMMA CallStepOK ==
  ASSUME Inv, TokensKept, NEW c \in Calls, NEW r \in CallRecord,
         call' = [call EXCEPT ![c] = r], KindOK(c, r.kind), TokenOK(r, tokens')
  PROVE  CallOK'
  BY DEF Inv, CallOK, CallRecord, TokenOK, KindOK, TokensKept

\* A call may end at any time.
LEMMA EndOK ==
  ASSUME Inv, TokensKept, NEW c \in Calls, End(c)
  PROVE  CallOK'
  BY IdleCallOK, CallStepOK DEF End

\* A call that moves on keeps the calls.
LEMMA GotoOK ==
  ASSUME Inv, TokensKept, NEW c \in Calls,
         Goto(c, "failed") \/ Goto(c, "rotate") \/ Goto(c, "verified") \/ Goto(c, "cleared")
  PROVE  CallOK'
<1>1. PICK pc \in {"failed", "rotate", "verified", "cleared"} : call' = [call EXCEPT ![c].pc = pc]
  BY DEF Goto
<1> DEFINE r == [call[c] EXCEPT !.pc = pc]
<1>2. r \in CallRecord /\ r.kind = call[c].kind /\ r.pc = pc
  BY DEF Inv, CallOK, CallRecord
<1>3. TokenOK(r, tokens') /\ KindOK(c, r.kind)
  BY <1>2 DEF Inv, CallOK, TokenOK
<1>4. call' = [call EXCEPT ![c] = r]
  BY <1>1
<1> HIDE DEF r
<1> QED BY <1>2, <1>3, <1>4, CallStepOK

\* Signing out of the page leaves the cookie.
LEMMA SignedOutOK ==
  ASSUME Inv, TokensKept, NEW b \in Browsers, browser' = SignedOut(b)
  PROVE  BrowserOK'
<1> DEFINE r == [browser[b] EXCEPT !.memory = None, !.storage = None, !.user = FALSE]
<1>1. r \in BrowserRecord /\ r.cookie = browser[b].cookie
  <2>1. browser[b] \in BrowserRecord
    BY DEF Inv, BrowserOK
  <2>2. None \in None .. AccessLife + 1
    BY LifeAssumption DEF None
  <2> QED BY <2>1, <2>2 DEF BrowserRecord
<1>2. r.cookie # None => tokens'[r.cookie] # "none"
  BY <1>1 DEF Inv, BrowserOK, BrowserRecord, TokensKept
<1>3. browser' = [browser EXCEPT ![b] = r]
  BY DEF SignedOut
<1> HIDE DEF r
<1> QED BY <1>1, <1>2, <1>3, BrowserStep

------------------------------------------------------------------------------
(***************************************************************************)
(* Every action but the clock keeps the rows and preserves the invariant.  *)
(***************************************************************************)
LEMMA HereIsBrowser ==
  ASSUME NEW c \in Calls
  PROVE  c[1] \in Browsers
  BY DEF Calls

\* Sending a request takes the bearer and the cookie of the browser.
LEMMA SendKeeps ==
  ASSUME Inv, NEW c \in Calls, NEW kind \in PageKinds \cup FormKinds, Send(c, kind)
  PROVE  TokensKept /\ Inv'
<1> DEFINE here == browser[c[1]]
           r == [IdleCall EXCEPT !.kind = kind, !.pc = "sent",
                   !.bearer = IF kind \in {"api", "logoutAll"} THEN here.memory ELSE None,
                   !.cookie = IF kind = "logout" THEN here.cookie ELSE None]
<1>1. TokensKept
  BY TokensUnchanged DEF Send
<1>2. here.memory \in None .. AccessLife + 1 /\ here.cookie \in {None} \cup Ages
  BY HereIsBrowser DEF Inv, BrowserOK, BrowserRecord
<1>3. r \in CallRecord /\ r.pc = "sent" /\ r.kind = kind
  BY <1>2, IdleCallOK, LifeAssumption DEF IdleCall, CallRecord, None
<1>4. KindOK(c, r.kind) /\ TokenOK(r, tokens')
  BY <1>3 DEF KindOK, TokenOK, Send, PageKinds
<1>5. call' = [call EXCEPT ![c] = r]
  BY DEF Send
<1> HIDE DEF r
<1>6. CallOK'
  BY <1>1, <1>3, <1>4, <1>5, CallStepOK
<1> QED BY <1>1, <1>6, Frame DEF Inv, Send, TokensKept

\* Loading the page takes the token of the storage.
LEMMA LoadKeeps ==
  ASSUME Inv, NEW c \in Calls, Load(c)
  PROVE  TokensKept /\ Inv'
<1> DEFINE stored == browser[c[1]].storage
           here == [browser[c[1]] EXCEPT !.memory = stored, !.user = FALSE]
           r == [IdleCall EXCEPT !.kind = "me", !.pc = "sent", !.bearer = stored, !.page = stored]
<1>1. TokensKept
  BY TokensUnchanged DEF Load
<1>2. browser[c[1]] \in BrowserRecord
  BY HereIsBrowser DEF Inv, BrowserOK
<1>3. here \in BrowserRecord /\ here.cookie = browser[c[1]].cookie
  BY <1>2 DEF BrowserRecord
<1>4. here.cookie # None => tokens'[here.cookie] # "none"
  BY <1>2, <1>3, HereIsBrowser DEF Inv, BrowserOK, BrowserRecord, Load, serverVars
<1>5. r \in CallRecord /\ r.pc = "sent" /\ r.kind = "me"
  BY <1>2, IdleCallOK DEF IdleCall, CallRecord, BrowserRecord, PageKinds
<1>6. KindOK(c, r.kind) /\ TokenOK(r, tokens')
  BY <1>5 DEF KindOK, TokenOK, Load, PageKinds
<1>7. /\ browser' = [browser EXCEPT ![c[1]] = here]
      /\ UNCHANGED call \/ call' = [call EXCEPT ![c] = r]
  BY DEF Load
<1> HIDE DEF r, here
<1>8. BrowserOK'
  BY <1>1, <1>3, <1>4, <1>7, HereIsBrowser, BrowserStep
<1>9. CallOK'
  BY <1>1, <1>5, <1>6, <1>7, CallStepOK, Frame
<1> QED BY <1>1, <1>8, <1>9 DEF Inv, TokensKept

\* A refusal starts one refresh and, the second time, ends the call.
LEMMA RefusedKeeps ==
  ASSUME Inv, TokensKept, NEW c \in Calls, Refused(c)
  PROVE  BrowserOK' /\ CallOK'
<1>1. CASE ~call[c].retried
  <2> DEFINE r == [call[c] EXCEPT !.retried = TRUE, !.pc = "refresh",
                                  !.cookie = browser[c[1]].cookie]
  <2>1. browser[c[1]].cookie \in {None} \cup Ages
    BY HereIsBrowser DEF Inv, BrowserOK, BrowserRecord
  <2>2. call[c] \in CallRecord /\ KindOK(c, call[c].kind)
    BY DEF Inv, CallOK
  <2>3. r \in CallRecord /\ r.pc = "refresh" /\ r.kind = call[c].kind
    BY <2>1, <2>2 DEF CallRecord
  <2>4. TokenOK(r, tokens')
    BY <2>3 DEF TokenOK
  <2>5. call' = [call EXCEPT ![c] = r] /\ UNCHANGED browser
    BY <1>1 DEF Refused
  <2> HIDE DEF r
  <2> QED BY <2>2, <2>3, <2>4, <2>5, CallStepOK, Frame
<1>2. CASE call[c].retried
  <2>1. End(c) /\ (UNCHANGED browser \/ browser' = SignedOut(c[1]))
    BY <1>2 DEF Refused
  <2> QED BY <2>1, HereIsBrowser, EndOK, SignedOutOK, Frame
<1> QED BY <1>1, <1>2 DEF Refused

\* The answer to a bearer keeps the invariant.
LEMMA AuthenticateKeeps ==
  ASSUME Inv, NEW c \in Calls, Authenticate(c)
  PROVE  TokensKept /\ Inv'
<1>1. TokensKept
  BY TokensUnchanged DEF Authenticate
<1>2. CASE ~Accepted(call[c].bearer)
  BY <1>1, <1>2, RefusedKeeps DEF Inv, Authenticate, TokensKept
<1>3. CASE Accepted(call[c].bearer)
  <2>1. End(c) /\ (UNCHANGED browser \/ browser' = SetAuth(c[1], call[c].page))
    BY <1>3 DEF Authenticate
  <2>2. CASE browser' = SetAuth(c[1], call[c].page)
    <3> DEFINE r == [browser[c[1]] EXCEPT !.memory = call[c].page, !.storage = call[c].page,
                                          !.user = TRUE]
    <3>1. browser[c[1]] \in BrowserRecord /\ call[c].page \in None .. AccessLife + 1
      BY HereIsBrowser DEF Inv, BrowserOK, CallOK, CallRecord
    <3>2. r \in BrowserRecord /\ r.cookie = browser[c[1]].cookie
      BY <3>1 DEF BrowserRecord
    <3>3. r.cookie # None => tokens'[r.cookie] # "none"
      BY <1>1, <3>1, <3>2, HereIsBrowser DEF Inv, BrowserOK, BrowserRecord, TokensKept
    <3>4. browser' = [browser EXCEPT ![c[1]] = r]
      BY <2>2 DEF SetAuth
    <3> HIDE DEF r
    <3>5. BrowserOK'
      BY <1>1, <3>2, <3>3, <3>4, HereIsBrowser, BrowserStep
    <3> QED BY <1>1, <2>1, <3>5, EndOK DEF Inv, TokensKept
  <2>3. CASE UNCHANGED browser
    BY <1>1, <2>1, <2>3, EndOK, Frame DEF Inv, TokensKept
  <2> QED BY <2>1, <2>2, <2>3
<1> QED BY <1>2, <1>3

\* The read of a rotation keeps the invariant.
LEMMA ReadRefreshKeeps ==
  ASSUME Inv, NEW c \in Calls, ReadRefresh(c)
  PROVE  TokensKept /\ Inv'
<1>1. TokensKept
  BY TokensUnchanged DEF ReadRefresh
<1>2. CallOK'
  BY <1>1, GotoOK DEF ReadRefresh
<1> QED BY <1>1, <1>2, Frame DEF Inv, ReadRefresh, TokensKept

\* So does the revocation of the token used.
LEMMA RevokeUsedKeeps ==
  ASSUME Inv, NEW c \in Calls, RevokeUsed(c)
  PROVE  TokensKept /\ Inv'
<1> DEFINE r == [call[c] EXCEPT !.pc = "rotated", !.cookie = None]
<1>1. TokensKept
  BY DEF Inv, ServerOK, TokensKept, RevokeUsed
<1>2. call[c] \in CallRecord /\ KindOK(c, call[c].kind)
  BY DEF Inv, CallOK
<1>3. r \in CallRecord /\ r.pc = "rotated" /\ r.kind = call[c].kind
  BY <1>2 DEF CallRecord
<1>4. TokenOK(r, tokens')
  BY <1>2, <1>3 DEF TokenOK
<1>5. call' = [call EXCEPT ![c] = r]
  BY DEF RevokeUsed
<1> HIDE DEF r
<1>6. CallOK'
  BY <1>1, <1>2, <1>3, <1>4, <1>5, CallStepOK
<1> QED BY <1>1, <1>6, Frame DEF Inv, RevokeUsed, TokensKept

\* A rotation stores a token that no row has.
LEMMA MintKeeps ==
  ASSUME Inv, NEW c \in Calls, Mint(c)
  PROVE  TokensKept /\ Inv'
<1>1. call[c] \in CallRecord /\ KindOK(c, call[c].kind) /\ call[c].fresh \in Ages
  BY DEF Inv, CallOK, TokenOK, Mint
<1>2. CASE tokens[call[c].fresh] # "none"
  <2>1. TokensKept
    BY <1>2, TokensUnchanged DEF Mint, serverVars
  <2>2. CallOK'
    BY <1>2, <2>1, GotoOK DEF Mint
  <2> QED BY <2>1, <2>2, Frame DEF Inv, Mint, TokensKept
<1>3. CASE tokens[call[c].fresh] = "none"
  <2> DEFINE r == [call[c] EXCEPT !.pc = "renewed"]
  <2>1. TokensKept /\ tokens'[call[c].fresh] # "none"
    BY <1>1, <1>3, StoringKeepsTokens DEF Mint
  <2>2. r \in CallRecord /\ r.pc = "renewed" /\ r.kind = call[c].kind /\ r.fresh = call[c].fresh
    BY <1>1 DEF CallRecord
  <2>3. TokenOK(r, tokens')
    BY <1>1, <2>1, <2>2 DEF TokenOK
  <2>4. call' = [call EXCEPT ![c] = r]
    BY <1>3 DEF Mint, Goto
  <2> HIDE DEF r
  <2>5. CallOK'
    BY <1>1, <2>1, <2>2, <2>3, <2>4, CallStepOK
  <2> QED BY <2>1, <2>5, Frame DEF Inv, Mint, TokensKept
<1> QED BY <1>2, <1>3

\* So does a sign-in.
LEMMA StoreKeeps ==
  ASSUME Inv, NEW c \in Calls, Store(c)
  PROVE  TokensKept /\ Inv'
<1>1. call[c] \in CallRecord /\ KindOK(c, call[c].kind) /\ call[c].fresh \in Ages
  BY DEF Inv, CallOK, TokenOK, Store
<1>2. CASE tokens[call[c].fresh] # "none"
  <2>1. TokensKept
    BY <1>2, TokensUnchanged DEF Store, serverVars
  <2>2. CallOK'
    BY <1>2, <2>1, EndOK DEF Store
  <2> QED BY <2>1, <2>2, Frame DEF Inv, Store, TokensKept
<1>3. CASE tokens[call[c].fresh] = "none"
  <2> DEFINE r == [call[c] EXCEPT !.pc = "welcome"]
  <2>1. TokensKept /\ tokens'[call[c].fresh] # "none"
    BY <1>1, <1>3, StoringKeepsTokens DEF Store
  <2>2. r \in CallRecord /\ r.pc = "welcome" /\ r.kind = call[c].kind /\ r.fresh = call[c].fresh
    BY <1>1 DEF CallRecord
  <2>3. TokenOK(r, tokens')
    BY <1>1, <2>1, <2>2 DEF TokenOK
  <2>4. call' = [call EXCEPT ![c] = r]
    BY <1>3 DEF Store, Goto
  <2> HIDE DEF r
  <2>5. CallOK'
    BY <1>1, <2>1, <2>2, <2>3, <2>4, CallStepOK
  <2> QED BY <2>1, <2>5, Frame DEF Inv, Store, TokensKept
<1> QED BY <1>2, <1>3

\* Ages of access tokens stay within their bound.
LEMMA AccessIsBounded ==
  ASSUME NEW age \in Ages
  PROVE  AccessOf(age) \in None .. AccessLife + 1
  BY LifeAssumption DEF Ages, AccessOf, None

\* A handler that answers with a token.
LEMMA AnswerHasToken ==
  ASSUME Inv, NEW c \in Calls, call[c].pc \in {"renewed", "welcome"}
  PROVE  /\ call[c] \in CallRecord /\ browser[c[1]] \in BrowserRecord
         /\ call[c].fresh \in Ages /\ tokens[call[c].fresh] # "none"
         /\ AccessOf(call[c].fresh) \in None .. AccessLife + 1
  BY HereIsBrowser, AccessIsBounded DEF Inv, CallOK, BrowserOK, TokenOK

\* A renewed page has the token that was stored for it.
LEMMA RenewKeeps ==
  ASSUME Inv, NEW c \in Calls, Renew(c)
  PROVE  TokensKept /\ Inv'
<1> DEFINE b == c[1]
           access == AccessOf(call[c].fresh)
           here == browser[b]
           bearer == IF here.user \/ here.memory = None THEN access ELSE here.memory
           kept == IF here.user
                     THEN [here EXCEPT !.memory = access, !.storage = access, !.user = TRUE]
                     ELSE [here EXCEPT !.storage = access]
           now == [kept EXCEPT !.cookie = call[c].fresh]
           r == [call[c] EXCEPT !.pc = "sent", !.bearer = bearer, !.fresh = None]
<1>1. TokensKept
  BY TokensUnchanged DEF Renew
<1>2. /\ call[c] \in CallRecord /\ here \in BrowserRecord /\ KindOK(c, call[c].kind)
      /\ call[c].fresh \in Ages /\ tokens[call[c].fresh] # "none"
      /\ access \in None .. AccessLife + 1
  BY AnswerHasToken DEF Renew, Inv, CallOK
<1>3. now \in BrowserRecord /\ now.cookie = call[c].fresh
  BY <1>2 DEF BrowserRecord
<1>4. r \in CallRecord /\ r.pc = "sent" /\ r.kind = call[c].kind
  BY <1>2 DEF BrowserRecord, CallRecord
<1>5. TokenOK(r, tokens')
  BY <1>4 DEF TokenOK
<1>6. browser' = [browser EXCEPT ![b] = now]
  BY HereIsBrowser DEF Renew, SetAuth, Inv, BrowserOK
<1>7. call' = [call EXCEPT ![c] = r]
  BY DEF Renew
<1>8. now.cookie # None => tokens'[now.cookie] # "none"
  BY <1>1, <1>2, <1>3 DEF TokensKept
<1> HIDE DEF r, now
<1>9. BrowserOK'
  BY <1>1, <1>3, <1>6, <1>8, HereIsBrowser, BrowserStep
<1>10. CallOK'
  BY <1>1, <1>2, <1>4, <1>5, <1>7, CallStepOK
<1> QED BY <1>1, <1>9, <1>10 DEF Inv, TokensKept

\* So has a page signed in.
LEMMA WelcomeKeeps ==
  ASSUME Inv, NEW c \in Calls, Welcome(c)
  PROVE  TokensKept /\ Inv'
<1> DEFINE access == AccessOf(call[c].fresh)
           now == [browser[c[1]] EXCEPT !.memory = access, !.storage = access, !.user = TRUE,
                                        !.cookie = call[c].fresh]
<1>1. TokensKept
  BY TokensUnchanged DEF Welcome
<1>2. /\ browser[c[1]] \in BrowserRecord /\ access \in None .. AccessLife + 1
      /\ call[c].fresh \in Ages /\ tokens[call[c].fresh] # "none"
  BY AnswerHasToken DEF Welcome
<1>3. now \in BrowserRecord /\ now.cookie = call[c].fresh
  BY <1>2 DEF BrowserRecord
<1>4. browser' = [browser EXCEPT ![c[1]] = now]
  BY HereIsBrowser DEF Welcome, SetAuth, Inv, BrowserOK
<1>5. now.cookie # None => tokens'[now.cookie] # "none"
  BY <1>1, <1>2, <1>3 DEF TokensKept
<1> HIDE DEF now
<1>6. BrowserOK'
  BY <1>1, <1>3, <1>4, <1>5, HereIsBrowser, BrowserStep
<1> QED BY <1>1, <1>6, EndOK DEF Inv, Welcome, TokensKept

\* Giving up signs the page out.
LEMMA GiveUpKeeps ==
  ASSUME Inv, NEW c \in Calls, GiveUp(c)
  PROVE  TokensKept /\ Inv'
<1>1. TokensKept
  BY TokensUnchanged DEF GiveUp
<1> QED BY <1>1, HereIsBrowser, EndOK, SignedOutOK DEF Inv, GiveUp, TokensKept

\* A handler that signs tokens signs them in this second.
LEMMA SignKeeps ==
  ASSUME Inv, NEW c \in Calls, Sign(c)
  PROVE  TokensKept /\ Inv'
<1>1. TokensKept
  BY TokensUnchanged DEF Sign
<1>2. PICK pc \in {"mint", "store"} : call' = [call EXCEPT ![c].pc = pc, ![c].fresh = 0]
  BY DEF Sign
<1> DEFINE r == [call[c] EXCEPT !.pc = pc, !.fresh = 0]
<1>3. call[c] \in CallRecord /\ KindOK(c, call[c].kind) /\ 0 \in Ages
  BY LifeAssumption DEF Inv, CallOK, Ages
<1>4. r \in CallRecord /\ r.pc = pc /\ r.kind = call[c].kind /\ r.fresh = 0
  BY <1>3 DEF CallRecord
<1>5. TokenOK(r, tokens')
  BY <1>3, <1>4 DEF TokenOK
<1>6. call' = [call EXCEPT ![c] = r]
  BY <1>2
<1> HIDE DEF r
<1>7. CallOK'
  BY <1>1, <1>3, <1>4, <1>5, <1>6, CallStepOK
<1> QED BY <1>1, <1>7, Frame DEF Inv, Sign, TokensKept

\* A password that is right keeps the invariant.
LEMMA CheckLoginKeeps ==
  ASSUME Inv, NEW c \in Calls, CheckLogin(c)
  PROVE  TokensKept /\ Inv'
<1>1. TokensKept
  BY TokensUnchanged DEF CheckLogin
<1>2. CASE Refused(c)
  BY <1>1, <1>2, RefusedKeeps DEF Inv, TokensKept
<1>3. CASE ~Refused(c)
  BY <1>1, <1>3, GotoOK, Frame DEF Inv, CheckLogin, TokensKept
<1> QED BY <1>2, <1>3

\* So does a registration.
LEMMA RegisterKeeps ==
  ASSUME Inv, NEW c \in Calls, Register(c)
  PROVE  TokensKept /\ Inv'
<1>1. TokensKept
  BY DEF Inv, ServerOK, TokensKept, Register
<1>2. CallOK'
  BY <1>1, EndOK, GotoOK DEF Register
<1> QED BY <1>1, <1>2, Frame DEF Inv, Register, TokensKept

\* Signing out revokes the cookie's token.
LEMMA LogoutKeeps ==
  ASSUME Inv, NEW c \in Calls, Logout(c)
  PROVE  TokensKept /\ Inv'
<1>1. TokensKept
  BY RevokingKeepsTokens DEF Logout, Inv, ServerOK
<1>2. CallOK'
  BY <1>1, GotoOK DEF Logout
<1> QED BY <1>1, <1>2, Frame DEF Inv, Logout, TokensKept

\* Signing out everywhere revokes every token.
LEMMA LogoutAllKeeps ==
  ASSUME Inv, NEW c \in Calls, LogoutAll(c)
  PROVE  TokensKept /\ Inv'
<1>1. CASE ~Accepted(call[c].bearer)
  <2>1. TokensKept
    BY <1>1, TokensUnchanged DEF LogoutAll, serverVars
  <2> QED BY <1>1, <2>1, RefusedKeeps DEF Inv, LogoutAll, TokensKept
<1>2. CASE Accepted(call[c].bearer)
  <2>1. TokensKept
    BY <1>2, RevokingKeepsTokens DEF LogoutAll, Inv, ServerOK
  <2>2. CallOK'
    BY <1>2, <2>1, GotoOK DEF LogoutAll
  <2> QED BY <1>2, <2>1, <2>2, Frame DEF Inv, LogoutAll, TokensKept
<1> QED BY <1>1, <1>2

\* The answer to a sign-out clears the cookie.
LEMMA ClearCookieKeeps ==
  ASSUME Inv, NEW c \in Calls, ClearCookie(c)
  PROVE  TokensKept /\ Inv'
<1> DEFINE r == [browser[c[1]] EXCEPT !.cookie = None]
<1>1. TokensKept
  BY TokensUnchanged DEF ClearCookie
<1>2. r \in BrowserRecord /\ r.cookie = None
  BY HereIsBrowser DEF Inv, BrowserOK, BrowserRecord
<1>3. browser' = [browser EXCEPT ![c[1]] = r]
  BY DEF ClearCookie
<1> HIDE DEF r
<1>4. BrowserOK'
  BY <1>1, <1>2, <1>3, HereIsBrowser, BrowserStep
<1> QED BY <1>1, <1>4, EndOK DEF Inv, ClearCookie, TokensKept

\* Signing out of the page keeps the invariant.
LEMMA SignOutKeeps ==
  ASSUME Inv, NEW b \in Browsers, SignOut(b)
  PROVE  TokensKept /\ Inv'
<1>1. TokensKept
  BY TokensUnchanged DEF SignOut
<1> QED BY <1>1, SignedOutOK, Frame DEF Inv, SignOut, TokensKept

\* A lost request or answer keeps the invariant.
LEMMA LoseKeeps ==
  ASSUME Inv, NEW c \in Calls, Lose(c)
  PROVE  TokensKept /\ Inv'
<1>1. TokensKept
  BY TokensUnchanged DEF Lose
<1>2. BrowserOK'
  BY <1>1, HereIsBrowser, SignedOutOK, Frame DEF Lose
<1> QED BY <1>1, <1>2, EndOK DEF Inv, Lose, TokensKept

\* The administrator and the changes of the password.
LEMMA AccountKeeps ==
  ASSUME Inv, RevokeTokens \/ Restrict \/ Lift
  PROVE  TokensKept /\ Inv'
<1>1. TokensKept
  <2>1. account' \in {"absent", "open", "barred"}
    BY DEF Inv, ServerOK, RevokeTokens, Restrict, Lift
  <2>2. CASE tokens' = Revoked(Ages)
    BY <2>1, <2>2, RevokingKeepsTokens
  <2>3. CASE UNCHANGED tokens
    BY <2>1, <2>3 DEF Inv, ServerOK, TokensKept
  <2> QED BY <2>2, <2>3 DEF RevokeTokens, Restrict, Lift
<1> QED BY <1>1, Frame DEF Inv, RevokeTokens, Restrict, Lift, TokensKept

------------------------------------------------------------------------------
(***************************************************************************)
(* The clock moves every row and everything that names one.                *)
(***************************************************************************)
LEMMA OlderIsLater ==
  ASSUME NEW age \in {None} \cup Ages
  PROVE  /\ Older(age) \in {None} \cup Ages
         /\ Older(age) # None => Older(age) = age + 1 /\ age \in Ages /\ age + 1 \in Ages
         /\ age \in Ages /\ age < RefreshLife => Older(age) = age + 1 /\ age + 1 \in Ages
  BY LifeAssumption DEF Older, None, Ages

\* Access tokens that grow older stay within their bound.
LEMMA OlderAccessIsBounded ==
  ASSUME NEW access \in None .. AccessLife + 1
  PROVE  OlderAccess(access) \in None .. AccessLife + 1
  BY LifeAssumption DEF OlderAccess, AccessOf, None

\* A second moves every row by one age.
LEMMA TickMoves ==
  ASSUME Tick, NEW a \in Ages, a + 1 \in Ages
  PROVE  tokens'[a + 1] = tokens[a]
<1>1. a + 1 # 0 /\ (a + 1) - 1 = a
  BY LifeAssumption DEF Ages
<1>2. tokens'[a + 1] = IF a + 1 = 0 THEN "none" ELSE tokens[(a + 1) - 1]
  BY DEF Tick
<1> QED BY <1>1, <1>2

\* A second keeps the invariant: a cookie ages with its row.
LEMMA TickKeeps ==
  ASSUME Inv, Tick
  PROVE  Inv'
<1>1. \A a \in Ages : a + 1 \in Ages => tokens'[a + 1] = tokens[a]
  BY TickMoves
<1>2. ServerOK'
  <2>1. \A a \in Ages : a # 0 => a - 1 \in Ages
    BY LifeAssumption DEF Ages
  <2> QED BY <2>1 DEF Inv, ServerOK, Tick
<1>3. BrowserOK'
  <2>1. ASSUME NEW b \in Browsers
        PROVE  /\ browser'[b] \in BrowserRecord
               /\ browser'[b].cookie = Older(browser[b].cookie)
    <3>1. browser[b] \in BrowserRecord
      BY DEF Inv, BrowserOK
    <3>2. browser'[b] = [browser[b] EXCEPT !.cookie = Older(browser[b].cookie),
                                           !.memory = OlderAccess(browser[b].memory),
                                           !.storage = OlderAccess(browser[b].storage)]
      BY DEF Tick
    <3> QED BY <3>1, <3>2, OlderIsLater, OlderAccessIsBounded DEF BrowserRecord
  <2>2. ASSUME NEW b \in Browsers, browser'[b].cookie # None
        PROVE  tokens'[browser'[b].cookie] # "none"
    <3>1. browser[b].cookie \in {None} \cup Ages
      BY DEF Inv, BrowserOK, BrowserRecord
    <3>2. /\ browser[b].cookie \in Ages /\ browser[b].cookie + 1 \in Ages
          /\ browser'[b].cookie = browser[b].cookie + 1
      BY <2>1, <2>2, <3>1, OlderIsLater
    <3>3. browser[b].cookie # None
      BY <3>2 DEF Ages, None
    <3> QED BY <1>1, <3>2, <3>3 DEF Inv, BrowserOK
  <2> QED BY <2>1, <2>2 DEF BrowserOK, Tick
<1>4. CallOK'
  <2>1. ASSUME NEW c \in Calls
        PROVE  /\ call'[c] \in CallRecord
               /\ call'[c].pc = call[c].pc /\ call'[c].kind = call[c].kind
               /\ call'[c].fresh = Older(call[c].fresh)
    <3>1. call[c] \in CallRecord
      BY DEF Inv, CallOK
    <3>2. call'[c] = [call[c] EXCEPT !.bearer = OlderAccess(call[c].bearer),
                                     !.page = OlderAccess(call[c].page),
                                     !.cookie = Older(call[c].cookie),
                                     !.fresh = Older(call[c].fresh)]
      BY DEF Tick
    <3>3. /\ Older(call[c].cookie) \in {None} \cup Ages /\ Older(call[c].fresh) \in {None} \cup Ages
          /\ OlderAccess(call[c].bearer) \in None .. AccessLife + 1
          /\ OlderAccess(call[c].page) \in None .. AccessLife + 1
      BY <3>1, OlderIsLater, OlderAccessIsBounded DEF CallRecord
    <3> QED BY <3>1, <3>2, <3>3 DEF CallRecord
  <2>2. ASSUME NEW c \in Calls
        PROVE  TokenOK(call'[c], tokens')
    <3>1. call[c].fresh \in Ages => call'[c].fresh = call[c].fresh + 1 /\ call[c].fresh + 1 \in Ages
      BY <2>1, OlderIsLater DEF Inv, CallOK, CallRecord, Tick
    <3>2. TokenOK(call[c], tokens)
      BY DEF Inv, CallOK
    <3> QED BY <1>1, <2>1, <3>1, <3>2 DEF TokenOK
  <2> QED BY <2>1, <2>2 DEF Inv, CallOK, Tick
<1> QED BY <1>2, <1>3, <1>4 DEF Inv

------------------------------------------------------------------------------
\* Every step keeps the invariant.
LEMMA NextKeeps ==
  ASSUME Inv, [Next]_vars
  PROVE  Inv' /\ (TokensKept \/ Tick)
<1>1. CASE UNCHANGED vars
  <2>1. TokensKept
    BY <1>1, TokensUnchanged DEF vars
  <2> QED BY <1>1, <2>1, Frame DEF Inv, vars, TokensKept
<1>2. CASE \E c \in Calls : \E kind \in PageKinds \cup FormKinds : Send(c, kind)
  BY <1>2, SendKeeps
<1>3. CASE \E c \in Calls : CallStep(c)
  BY <1>3, AuthenticateKeeps, ReadRefreshKeeps, RevokeUsedKeeps, SignKeeps, MintKeeps,
     RenewKeeps, GiveUpKeeps, CheckLoginKeeps, RegisterKeeps, StoreKeeps, WelcomeKeeps, LogoutKeeps,
     LogoutAllKeeps, ClearCookieKeeps DEF CallStep
<1>4. CASE \E c \in Calls : Load(c) \/ Lose(c)
  BY <1>4, LoadKeeps, LoseKeeps
<1>5. CASE \E b \in Browsers : SignOut(b)
  BY <1>5, SignOutKeeps
<1>6. CASE RevokeTokens \/ Restrict \/ Lift
  BY <1>6, AccountKeeps
<1>7. CASE Tick
  BY <1>7, TickKeeps
<1> QED BY <1>1, <1>2, <1>3, <1>4, <1>5, <1>6, <1>7 DEF Next

\* The inductive invariant of sessions: whoever holds a refresh token, in a cookie or in
\* the answer of a call, holds one of the table (auth.service.ts:186-224).
THEOREM Invariance == Spec => []Inv
  BY InitInv, NextKeeps, PTL DEF Spec

\* Every variable has its type, and the cookie of a browser names a row of the table
\* (auth.service.ts:109-139, :191-207).
THEOREM TypeCorrect == Spec => []SessionsTypeOK
  BY Invariance, InvImplies, PTL

RevokedKept ==
  \/ \A a \in Ages : tokens[a] = "revoked" => tokens'[a] = "revoked"
  \/ \A a \in Ages : tokens[a] = "revoked" /\ a < RefreshLife => tokens'[a + 1] = "revoked"

\* A step keeps a revoked token revoked, or moves it on by one age.
LEMMA RevokedInStep ==
  ASSUME Inv, [Next]_vars
  PROVE  RevokedKept
<1>1. CASE TokensKept
  BY <1>1 DEF TokensKept, RevokedKept
<1>2. CASE Tick
  <2>1. \A a \in Ages : a < RefreshLife => a + 1 \in Ages
    BY LifeAssumption DEF Ages
  <2> QED BY <1>2, <2>1, TickMoves DEF RevokedKept
<1> QED BY <1>1, <1>2, NextKeeps

\* No step makes a revoked refresh token live again, whatever signs a token in the same
\* second and however uses of one token overlap (auth.service.ts:185-207).
THEOREM RevokedForGood == Spec => RevokedStaysRevoked
<1>1. Inv /\ [Next]_vars => [RevokedKept]_vars
  BY RevokedInStep
<1> QED BY <1>1, Invariance, PTL DEF Spec, RevokedStaysRevoked, RevokedKept

------------------------------------------------------------------------------
(***************************************************************************)
(* The steps of one call: what it may turn into, and that each turn takes  *)
(* it nearer to its end.                                                   *)
(***************************************************************************)
\* Rotations and sign-ins look at the account; everything else of a call is its own.
Turns(r, s) ==
  \/ s.pc = r.pc /\ s.retried = r.retried
  \/ s.pc = "idle"
  \/ r.pc = "sent" /\ ~r.retried /\ s.pc = "refresh" /\ s.retried
  \/ r.pc = "refresh" /\ s.pc = "rotate" /\ s.retried = r.retried /\ account = "open"
  \/ r.pc = "sent" /\ s.pc = "verified" /\ s.retried = r.retried /\ account # "barred"
  \/ /\ <<r.pc, s.pc>> \in
          {<<"verified", "store">>, <<"sent", "cleared">>, <<"refresh", "failed">>,
           <<"rotate", "rotated">>, <<"rotated", "mint">>, <<"mint", "renewed">>,
           <<"mint", "failed">>, <<"renewed", "sent">>, <<"store", "welcome">>}
     /\ s.retried = r.retried

Started(r, s) == r = IdleCall /\ s.pc = "sent" /\ ~s.retried

CallsTurn == \A c \in Calls : Turns(call[c], call'[c]) \/ Started(call[c], call'[c])

\* A step of one call leaves the others alone.
LEMMA OneCallTurns ==
  ASSUME Inv, NEW c \in Calls, NEW r, call' = [call EXCEPT ![c] = r],
         Turns(call[c], r) \/ Started(call[c], r)
  PROVE  CallsTurn
<1>1. ASSUME NEW d \in Calls, d # c
      PROVE  call'[d] = call[d]
  BY <1>1 DEF Inv, CallOK
<1>2. call'[c] = r
  BY DEF Inv, CallOK
<1>3. \A d \in Calls : Turns(call[d], call[d])
  BY DEF Turns
<1> QED BY <1>1, <1>2, <1>3 DEF CallsTurn

\* So does one that changes no call.
LEMMA NoCallTurns ==
  ASSUME UNCHANGED call
  PROVE  CallsTurn
  BY DEF CallsTurn, Turns

\* A call that ends.
LEMMA EndTurns ==
  ASSUME Inv, NEW c \in Calls, End(c)
  PROVE  CallsTurn
<1>1. Turns(call[c], IdleCall)
  BY DEF Turns, IdleCall
<1> QED BY <1>1, OneCallTurns DEF End

\* A call that goes on to another statement of its handler.
LEMMA GotoTurns ==
  ASSUME Inv, NEW c \in Calls, NEW pc, Goto(c, pc),
         \/ call[c].pc = "refresh" /\ pc = "rotate" /\ account = "open"
         \/ call[c].pc = "sent" /\ pc = "verified" /\ account # "barred"
         \/ <<call[c].pc, pc>> \in
              {<<"sent", "cleared">>, <<"refresh", "failed">>, <<"mint", "renewed">>,
               <<"mint", "failed">>, <<"store", "welcome">>}
  PROVE  CallsTurn
<1> DEFINE r == [call[c] EXCEPT !.pc = pc]
<1>1. call[c] \in CallRecord
  BY DEF Inv, CallOK
<1>2. r.pc = pc /\ r.retried = call[c].retried
  BY <1>1 DEF CallRecord
<1>3. call' = [call EXCEPT ![c] = r]
  BY DEF Goto
<1> HIDE DEF r
<1>4. Turns(call[c], r)
  BY <1>2 DEF Turns
<1> QED BY <1>3, <1>4, OneCallTurns

\* A refused request is refreshed once, and the second time ends.
LEMMA RefusedTurns ==
  ASSUME Inv, NEW c \in Calls, call[c].pc = "sent", Refused(c)
  PROVE  CallsTurn
<1>1. CASE ~call[c].retried
  <2> DEFINE r == [call[c] EXCEPT !.retried = TRUE, !.pc = "refresh",
                                  !.cookie = browser[c[1]].cookie]
  <2>1. call[c] \in CallRecord
    BY DEF Inv, CallOK
  <2>2. r.pc = "refresh" /\ r.retried
    BY <2>1 DEF CallRecord
  <2>3. call' = [call EXCEPT ![c] = r]
    BY <1>1 DEF Refused
  <2> HIDE DEF r
  <2>4. Turns(call[c], r)
    BY <1>1, <2>2 DEF Turns
  <2> QED BY <2>3, <2>4, OneCallTurns
<1>2. CASE call[c].retried
  BY <1>2, EndTurns DEF Refused
<1> QED BY <1>1, <1>2

\* The requests that start a call.
LEMMA StartTurns ==
  ASSUME Inv, NEW c \in Calls, Load(c) \/ \E kind \in PageKinds \cup FormKinds : Send(c, kind)
  PROVE  CallsTurn
<1>1. CASE Load(c)
  <2> DEFINE r == [IdleCall EXCEPT !.kind = "me", !.pc = "sent",
                     !.bearer = browser[c[1]].storage, !.page = browser[c[1]].storage]
  <2>1. r.pc = "sent" /\ r.retried = FALSE
    BY DEF IdleCall
  <2>2. call[c] = IdleCall
    BY <1>1 DEF Load
  <2>3. UNCHANGED call \/ call' = [call EXCEPT ![c] = r]
    BY <1>1 DEF Load
  <2> HIDE DEF r
  <2>4. Started(call[c], r)
    BY <2>1, <2>2 DEF Started
  <2> QED BY <2>3, <2>4, OneCallTurns, NoCallTurns
<1>2. ASSUME NEW kind \in PageKinds \cup FormKinds, Send(c, kind)
      PROVE  CallsTurn
  <2> DEFINE r == [IdleCall EXCEPT !.kind = kind, !.pc = "sent",
                     !.bearer = IF kind \in {"api", "logoutAll"} THEN browser[c[1]].memory
                                ELSE None,
                     !.cookie = IF kind = "logout" THEN browser[c[1]].cookie ELSE None]
  <2>1. r.pc = "sent" /\ r.retried = FALSE
    BY DEF IdleCall
  <2>2. call' = [call EXCEPT ![c] = r] /\ call[c] = IdleCall
    BY <1>2 DEF Send
  <2> HIDE DEF r
  <2>3. Started(call[c], r)
    BY <2>1, <2>2 DEF Started
  <2> QED BY <2>2, <2>3, OneCallTurns
<1> QED BY <1>1, <1>2

\* The steps up to a token, and the answer with it.
LEMMA SigningTurns ==
  ASSUME Inv, NEW c \in Calls, RevokeUsed(c) \/ Renew(c) \/ Sign(c)
  PROVE  CallsTurn
<1>1. call[c] \in CallRecord
  BY DEF Inv, CallOK
<1>2. CASE RevokeUsed(c)
  <2> DEFINE r == [call[c] EXCEPT !.pc = "rotated", !.cookie = None]
  <2>1. r.pc = "rotated" /\ r.retried = call[c].retried
    BY <1>1 DEF CallRecord
  <2>2. call' = [call EXCEPT ![c] = r] /\ call[c].pc = "rotate"
    BY <1>2 DEF RevokeUsed
  <2> HIDE DEF r
  <2>3. Turns(call[c], r)
    BY <2>1, <2>2 DEF Turns
  <2> QED BY <2>2, <2>3, OneCallTurns
<1>3. CASE Renew(c)
  <2> DEFINE here == browser[c[1]]
             access == AccessOf(call[c].fresh)
             r == [call[c] EXCEPT !.pc = "sent", !.fresh = None,
                     !.bearer = IF here.user \/ here.memory = None THEN access ELSE here.memory]
  <2>1. r.pc = "sent" /\ r.retried = call[c].retried
    BY <1>1 DEF CallRecord
  <2>2. call' = [call EXCEPT ![c] = r] /\ call[c].pc = "renewed"
    BY <1>3 DEF Renew
  <2> HIDE DEF r
  <2>3. Turns(call[c], r)
    BY <2>1, <2>2 DEF Turns
  <2> QED BY <2>2, <2>3, OneCallTurns
<1>4. CASE Sign(c)
  <2>1. PICK pc : /\ call' = [call EXCEPT ![c].pc = pc, ![c].fresh = 0]
                  /\ <<call[c].pc, pc>> \in {<<"rotated", "mint">>, <<"verified", "store">>}
    BY <1>4 DEF Sign
  <2> DEFINE r == [call[c] EXCEPT !.pc = pc, !.fresh = 0]
  <2>2. r.pc = pc /\ r.retried = call[c].retried
    BY <1>1 DEF CallRecord
  <2>3. call' = [call EXCEPT ![c] = r]
    BY <2>1
  <2> HIDE DEF r
  <2>4. Turns(call[c], r)
    BY <2>1, <2>2 DEF Turns
  <2> QED BY <2>3, <2>4, OneCallTurns
<1> QED BY <1>2, <1>3, <1>4

\* What the server and the page do for one call.
LEMMA CallStepTurns ==
  ASSUME Inv, NEW c \in Calls, CallStep(c)
  PROVE  CallsTurn
<1>1. CASE Authenticate(c)
  BY <1>1, RefusedTurns, EndTurns DEF Authenticate
<1>2. CASE ReadRefresh(c)
  BY <1>2, GotoTurns DEF ReadRefresh
<1>3. CASE RevokeUsed(c) \/ Renew(c) \/ Sign(c)
  BY <1>3, SigningTurns
<1>4. CASE Mint(c)
  BY <1>4, GotoTurns DEF Mint
<1>5. CASE GiveUp(c) \/ Welcome(c) \/ ClearCookie(c)
  BY <1>5, EndTurns DEF GiveUp, Welcome, ClearCookie
<1>6. CASE CheckLogin(c)
  BY <1>6, RefusedTurns, GotoTurns DEF CheckLogin
<1>7. CASE Register(c)
  BY <1>7, EndTurns, GotoTurns DEF Register
<1>8. CASE Store(c)
  BY <1>8, EndTurns, GotoTurns DEF Store
<1>9. CASE Logout(c)
  BY <1>9, GotoTurns DEF Logout
<1>10. CASE LogoutAll(c)
  BY <1>10, RefusedTurns, GotoTurns DEF LogoutAll
<1> QED BY <1>1, <1>2, <1>3, <1>4, <1>5, <1>6, <1>7, <1>8, <1>9, <1>10 DEF CallStep

\* The clock changes no call but its tokens.
LEMMA TickTurns ==
  ASSUME Inv, Tick
  PROVE  CallsTurn
<1>1. ASSUME NEW c \in Calls
      PROVE  call'[c].pc = call[c].pc /\ call'[c].retried = call[c].retried
  <2>1. call[c] \in CallRecord
    BY DEF Inv, CallOK
  <2>2. call'[c] = [call[c] EXCEPT !.bearer = OlderAccess(call[c].bearer),
                                   !.page = OlderAccess(call[c].page),
                                   !.cookie = Older(call[c].cookie),
                                   !.fresh = Older(call[c].fresh)]
    BY DEF Tick
  <2> QED BY <2>1, <2>2 DEF CallRecord
<1> QED BY <1>1 DEF CallsTurn, Turns

\* Every step.
LEMMA NextTurns ==
  ASSUME Inv, [Next]_vars
  PROVE  CallsTurn
<1>1. ASSUME NEW c \in Calls, Lose(c)
      PROVE  CallsTurn
  BY <1>1, EndTurns DEF Lose
<1>2. CASE \E b \in Browsers : SignOut(b)
  BY <1>2, NoCallTurns DEF SignOut
<1>3. CASE RevokeTokens \/ Restrict \/ Lift \/ UNCHANGED vars
  BY <1>3, NoCallTurns DEF RevokeTokens, Restrict, Lift, vars
<1> QED BY <1>1, <1>2, <1>3, StartTurns, CallStepTurns, TickTurns DEF Next

\* A call in the refresh of the interceptor has used up its retry.
RetriedOK ==
  \A c \in Calls :
    call[c].pc \in {"refresh", "rotate", "rotated", "mint", "renewed"} => call[c].retried

\* No step takes a call into the refresh a second time.
LEMMA RetriedInStep ==
  ASSUME Inv, RetriedOK, [Next]_vars
  PROVE  RetriedOK'
<1> SUFFICES ASSUME NEW c \in Calls,
                    call'[c].pc \in {"refresh", "rotate", "rotated", "mint", "renewed"}
             PROVE  call'[c].retried
  BY DEF RetriedOK
<1> QED BY NextTurns DEF CallsTurn, Turns, Started, RetriedOK

Shrunk ==
  \A c \in Calls :
    call[c] # IdleCall /\ call'[c].pc # call[c].pc => Rank(call'[c]) < Rank(call[c])

\* Every turn of a call lowers its rank.
LEMMA TurnsShrink ==
  ASSUME Inv, RetriedOK, [Next]_vars
  PROVE  Shrunk
<1> SUFFICES ASSUME NEW c \in Calls, call[c] # IdleCall, call'[c].pc # call[c].pc
             PROVE  Rank(call'[c]) < Rank(call[c])
  BY DEF Shrunk
<1> DEFINE r == call[c]
           s == call'[c]
<1>1. Turns(r, s)
  BY NextTurns DEF CallsTurn, Started
<1>2. r \in CallRecord
  BY DEF Inv, CallOK
<1>3. r.pc \in {"refresh", "rotate", "rotated", "mint", "renewed"} => r.retried
  BY DEF RetriedOK
<1>4. s.pc # r.pc
  OBVIOUS
<1> HIDE DEF r, s
<1>5. r.pc \in {"idle", "sent", "refresh", "rotate", "rotated", "verified", "mint", "renewed",
                "failed", "store", "welcome", "cleared"}
  BY <1>2 DEF CallRecord
<1>6. Rank(s) < Rank(r)
  BY <1>1, <1>3, <1>4, <1>5 DEF Turns, Rank
<1> QED BY <1>6 DEF r, s

\* Every step of a call takes it nearer to its end, so a call takes at most ten steps
\* after it was sent, however often the clock runs out under it: the safety half of
\* CallsEnd (client.ts:22-43).
THEOREM CallsAreShort == Spec => CallsShrink
<1>1. Init => RetriedOK
  BY DEF Init, SessionsInit, IdleCall, RetriedOK
<1>2. Inv /\ RetriedOK /\ [Next]_vars => RetriedOK'
  BY RetriedInStep
<1>3. Inv /\ RetriedOK /\ [Next]_vars => [Shrunk]_vars
  BY TurnsShrink
<1> QED BY <1>1, <1>2, <1>3, Invariance, PTL DEF Spec, CallsShrink, Shrunk

------------------------------------------------------------------------------
(***************************************************************************)
(* A barred account: no call passes the look at it, and the access tokens  *)
(* that are held come from tokens that were.                               *)
(***************************************************************************)
Known(access) == access = None \/ access \in Held

BrowserKnown(r) == Known(r.memory) /\ Known(r.storage)

CallKnown(r) == Known(r.bearer) /\ Known(r.page) /\ Known(AccessOf(r.fresh))

\* Nobody comes to hold a token nobody held.
NothingNew ==
  /\ \A b \in Browsers : BrowserKnown(browser'[b])
  /\ \A c \in Calls : CallKnown(call'[c])

\* What is held is known.
LEMMA HeldIsKnown ==
  /\ \A b \in Browsers : BrowserKnown(browser[b])
  /\ \A c \in Calls : CallKnown(call[c])
  /\ CallKnown(IdleCall)
<1>1. AccessOf(None) = None
  BY LifeAssumption DEF AccessOf, None
<1>2. CallKnown(IdleCall)
  BY <1>1 DEF CallKnown, Known, IdleCall
<1>3. \A b \in Browsers : BrowserKnown(browser[b])
  BY DEF BrowserKnown, Known, Held
<1>4. \A c \in Calls : CallKnown(call[c])
  BY DEF CallKnown, Known, Held
<1> QED BY <1>2, <1>3, <1>4

\* A call, or a browser, that comes to know nothing new leaves the others as they were.
LEMMA CallsKnown ==
  ASSUME Inv
  PROVE  /\ UNCHANGED call => \A d \in Calls : CallKnown(call'[d])
         /\ \A c \in Calls : End(c) => \A d \in Calls : CallKnown(call'[d])
         /\ \A c \in Calls : \A pc : Goto(c, pc) => \A d \in Calls : CallKnown(call'[d])
         /\ \A c \in Calls : \A r : call' = [call EXCEPT ![c] = r]
                             /\ CallKnown(r) => \A d \in Calls : CallKnown(call'[d])
<1>1. UNCHANGED call => \A d \in Calls : CallKnown(call'[d])
  BY HeldIsKnown
<1>2. ASSUME NEW c \in Calls, NEW r, call' = [call EXCEPT ![c] = r], CallKnown(r), NEW d \in Calls
      PROVE  CallKnown(call'[d])
  <2>1. call'[d] = r \/ call'[d] = call[d]
    BY <1>2 DEF Inv, CallOK
  <2> QED BY <1>2, <2>1, HeldIsKnown
<1>3. ASSUME NEW c \in Calls, End(c), NEW d \in Calls
      PROVE  CallKnown(call'[d])
  BY <1>2, <1>3, HeldIsKnown DEF End
<1>4. ASSUME NEW c \in Calls, NEW pc, Goto(c, pc), NEW d \in Calls
      PROVE  CallKnown(call'[d])
  <2> DEFINE r == [call[c] EXCEPT !.pc = pc]
  <2>1. call[c] \in CallRecord
    BY DEF Inv, CallOK
  <2>2. r.bearer = call[c].bearer /\ r.page = call[c].page /\ r.fresh = call[c].fresh
    BY <2>1 DEF CallRecord
  <2>3. call' = [call EXCEPT ![c] = r]
    BY <1>4 DEF Goto
  <2> HIDE DEF r
  <2>4. CallKnown(r)
    BY <2>2, HeldIsKnown DEF CallKnown
  <2> QED BY <1>2, <2>3, <2>4
<1> QED BY <1>1, <1>2, <1>3, <1>4

\* The same of the browsers.
LEMMA BrowsersKnown ==
  ASSUME Inv
  PROVE  /\ UNCHANGED browser => \A d \in Browsers : BrowserKnown(browser'[d])
         /\ \A b \in Browsers : browser' = SignedOut(b)
                                  => \A d \in Browsers : BrowserKnown(browser'[d])
         /\ \A b \in Browsers : \A r : browser' = [browser EXCEPT ![b] = r]
                                /\ BrowserKnown(r) => \A d \in Browsers : BrowserKnown(browser'[d])
<1>1. UNCHANGED browser => \A d \in Browsers : BrowserKnown(browser'[d])
  BY HeldIsKnown
<1>2. ASSUME NEW b \in Browsers, NEW r, browser' = [browser EXCEPT ![b] = r], BrowserKnown(r),
             NEW d \in Browsers
      PROVE  BrowserKnown(browser'[d])
  <2>1. browser'[d] = r \/ browser'[d] = browser[d]
    BY <1>2 DEF Inv, BrowserOK
  <2> QED BY <1>2, <2>1, HeldIsKnown
<1>3. ASSUME NEW b \in Browsers, browser' = SignedOut(b), NEW d \in Browsers
      PROVE  BrowserKnown(browser'[d])
  <2> DEFINE r == [browser[b] EXCEPT !.memory = None, !.storage = None, !.user = FALSE]
  <2>1. browser[b] \in BrowserRecord
    BY DEF Inv, BrowserOK
  <2>2. r.memory = None /\ r.storage = None
    BY <2>1 DEF BrowserRecord
  <2>3. browser' = [browser EXCEPT ![b] = r]
    BY <1>3 DEF SignedOut
  <2> HIDE DEF r
  <2>4. BrowserKnown(r)
    BY <2>2 DEF BrowserKnown, Known
  <2> QED BY <1>2, <2>3, <2>4
<1> QED BY <1>1, <1>2, <1>3

\* A request carries tokens of the browser.
LEMMA StartKnown ==
  ASSUME Inv, NEW c \in Calls, Load(c) \/ \E kind \in PageKinds \cup FormKinds : Send(c, kind)
  PROVE  NothingNew
<1> DEFINE here == browser[c[1]]
<1>1. here \in BrowserRecord /\ BrowserKnown(here)
  BY HereIsBrowser, HeldIsKnown DEF Inv, BrowserOK
<1>2. AccessOf(None) = None
  BY LifeAssumption DEF AccessOf, None
<1>3. CASE Load(c)
  <2> DEFINE stored == here.storage
             now == [here EXCEPT !.memory = stored, !.user = FALSE]
             r == [IdleCall EXCEPT !.kind = "me", !.pc = "sent", !.bearer = stored,
                                   !.page = stored]
  <2>1. now.memory = stored /\ now.storage = stored
    BY <1>1 DEF BrowserRecord
  <2>2. r.bearer = stored /\ r.page = stored /\ r.fresh = None
    BY DEF IdleCall
  <2>3. /\ browser' = [browser EXCEPT ![c[1]] = now]
        /\ UNCHANGED call \/ call' = [call EXCEPT ![c] = r]
    BY <1>3 DEF Load
  <2> HIDE DEF now, r
  <2>4. BrowserKnown(now) /\ CallKnown(r)
    BY <1>1, <1>2, <2>1, <2>2 DEF BrowserKnown, CallKnown, Known
  <2> QED BY <2>3, <2>4, HereIsBrowser, BrowsersKnown, CallsKnown DEF NothingNew
<1>4. ASSUME NEW kind \in PageKinds \cup FormKinds, Send(c, kind)
      PROVE  NothingNew
  <2> DEFINE r == [IdleCall EXCEPT !.kind = kind, !.pc = "sent",
                     !.bearer = IF kind \in {"api", "logoutAll"} THEN here.memory ELSE None,
                     !.cookie = IF kind = "logout" THEN here.cookie ELSE None]
  <2>1. r.bearer \in {here.memory, None} /\ r.page = None /\ r.fresh = None
    BY DEF IdleCall
  <2>2. call' = [call EXCEPT ![c] = r]
    BY <1>4 DEF Send
  <2> HIDE DEF r
  <2>3. CallKnown(r)
    BY <1>1, <1>2, <2>1 DEF BrowserKnown, CallKnown, Known
  <2> QED BY <1>4, <2>2, <2>3, BrowsersKnown, CallsKnown DEF NothingNew, Send
<1> QED BY <1>3, <1>4

\* A refusal starts a refresh or signs out.
LEMMA RefusedKnown ==
  ASSUME Inv, NEW c \in Calls, Refused(c)
  PROVE  NothingNew
<1>1. CASE ~call[c].retried
  <2> DEFINE r == [call[c] EXCEPT !.retried = TRUE, !.pc = "refresh",
                                  !.cookie = browser[c[1]].cookie]
  <2>1. call[c] \in CallRecord
    BY DEF Inv, CallOK
  <2>2. r.bearer = call[c].bearer /\ r.page = call[c].page /\ r.fresh = call[c].fresh
    BY <2>1 DEF CallRecord
  <2>3. call' = [call EXCEPT ![c] = r] /\ UNCHANGED browser
    BY <1>1 DEF Refused
  <2> HIDE DEF r
  <2>4. CallKnown(r)
    BY <2>2, HeldIsKnown DEF CallKnown
  <2> QED BY <2>3, <2>4, BrowsersKnown, CallsKnown DEF NothingNew
<1>2. CASE call[c].retried
  <2>1. End(c) /\ (UNCHANGED browser \/ browser' = SignedOut(c[1]))
    BY <1>2 DEF Refused
  <2> QED BY <2>1, HereIsBrowser, BrowsersKnown, CallsKnown DEF NothingNew
<1> QED BY <1>1, <1>2

\* The browser takes the token of the call that is answered.
LEMMA SetAuthKnown ==
  ASSUME Inv, NEW b \in Browsers, NEW access, Known(access), NEW cookie,
         \/ browser' = SetAuth(b, access)
         \/ browser' = [SetAuth(b, access) EXCEPT ![b].cookie = cookie]
         \/ browser' = [browser EXCEPT ![b].storage = access, ![b].cookie = cookie]
         \/ browser' = [browser EXCEPT ![b].cookie = cookie]
  PROVE  \A d \in Browsers : BrowserKnown(browser'[d])
<1> DEFINE here == browser[b]
           signed == [here EXCEPT !.memory = access, !.storage = access, !.user = TRUE]
<1>1. here \in BrowserRecord /\ BrowserKnown(here) /\ browser \in [Browsers -> BrowserRecord]
  BY HeldIsKnown DEF Inv, BrowserOK
<1>2. PICK now \in {signed, [signed EXCEPT !.cookie = cookie],
                    [here EXCEPT !.storage = access, !.cookie = cookie],
                    [here EXCEPT !.cookie = cookie]} :
        browser' = [browser EXCEPT ![b] = now]
  BY <1>1 DEF SetAuth
<1>3. now.memory \in {here.memory, access} /\ now.storage \in {here.storage, access}
  BY <1>1, <1>2 DEF BrowserRecord
<1>4. BrowserKnown(now)
  BY <1>1, <1>3 DEF BrowserKnown
<1> QED BY <1>2, <1>4, BrowsersKnown

\* The answer of a rotation.
LEMMA RenewKnown ==
  ASSUME Inv, NEW c \in Calls, Renew(c)
  PROVE  NothingNew
<1> DEFINE here == browser[c[1]]
           access == AccessOf(call[c].fresh)
           r == [call[c] EXCEPT !.pc = "sent", !.fresh = None,
                   !.bearer = IF here.user \/ here.memory = None THEN access ELSE here.memory]
<1>1. /\ call[c] \in CallRecord /\ CallKnown(call[c]) /\ BrowserKnown(here)
      /\ AccessOf(None) = None
  BY HereIsBrowser, HeldIsKnown, LifeAssumption DEF Inv, CallOK, AccessOf, None
<1>2. r.bearer \in {access, here.memory} /\ r.page = call[c].page /\ r.fresh = None
  BY <1>1 DEF CallRecord
<1>3. call' = [call EXCEPT ![c] = r]
  BY DEF Renew
<1>4. Known(access)
  BY <1>1 DEF CallKnown
<1>5. \A d \in Browsers : BrowserKnown(browser'[d])
  <2>1. \/ browser' = [SetAuth(c[1], access) EXCEPT ![c[1]].cookie = call[c].fresh]
        \/ browser' = [browser EXCEPT ![c[1]].storage = access, ![c[1]].cookie = call[c].fresh]
    BY HereIsBrowser DEF Renew, Inv, BrowserOK
  <2> QED BY <1>4, <2>1, HereIsBrowser, SetAuthKnown
<1> HIDE DEF r, access
<1>6. CallKnown(r)
  BY <1>1, <1>2, <1>4 DEF BrowserKnown, CallKnown, Known
<1> QED BY <1>3, <1>5, <1>6, CallsKnown DEF NothingNew

\* While the account is barred and no call past the look at it has yet to sign, no call
\* signs a token.
LEMMA CallStepKnown ==
  ASSUME Inv, NEW c \in Calls, CallStep(c), account = "barred", account' = "barred",
         Passed = {}
  PROVE  NothingNew
<1> USE BrowsersKnown, CallsKnown, HereIsBrowser DEF NothingNew
<1>1. CASE Authenticate(c)
  <2>1. CASE Accepted(call[c].bearer)
    <3>1. Known(call[c].page)
      BY HeldIsKnown DEF CallKnown
    <3>2. End(c) /\ (UNCHANGED browser \/ browser' = SetAuth(c[1], call[c].page))
      BY <1>1, <2>1 DEF Authenticate
    <3> QED BY <3>1, <3>2, SetAuthKnown
  <2> QED BY <1>1, <2>1, RefusedKnown DEF Authenticate
<1>2. CASE ReadRefresh(c) \/ Mint(c) \/ Store(c) \/ Logout(c)
  BY <1>2 DEF ReadRefresh, Mint, Store, Logout
<1>3. CASE RevokeUsed(c) \/ Sign(c)
  BY <1>3 DEF RevokeUsed, Sign, Passed
<1>4. CASE Renew(c)
  BY <1>4, RenewKnown
<1>5. CASE GiveUp(c)
  BY <1>5 DEF GiveUp
<1>6. CASE CheckLogin(c)
  BY <1>6, RefusedKnown DEF CheckLogin
<1>7. CASE Register(c)
  BY <1>7 DEF Register
<1>8. CASE Welcome(c)
  <2>1. Known(AccessOf(call[c].fresh))
    BY HeldIsKnown DEF CallKnown
  <2>2. \A d \in Browsers : BrowserKnown(browser'[d])
    BY <1>8, <2>1, SetAuthKnown DEF Welcome
  <2> QED BY <1>8, <2>2 DEF Welcome
<1>9. CASE LogoutAll(c)
  BY <1>9, RefusedKnown DEF LogoutAll
<1>10. CASE ClearCookie(c)
  <2>1. Known(None)
    BY DEF Known
  <2>2. \A d \in Browsers : BrowserKnown(browser'[d])
    BY <1>10, <2>1, SetAuthKnown DEF ClearCookie
  <2> QED BY <1>10, <2>2 DEF ClearCookie
<1> QED BY <1>1, <1>2, <1>3, <1>4, <1>5, <1>6, <1>7, <1>8, <1>9, <1>10 DEF CallStep

\* So nobody does, except as time passes.
LEMMA NextKnown ==
  ASSUME Inv, [Next]_vars, ~Tick, account = "barred", account' = "barred", Passed = {}
  PROVE  NothingNew
<1>1. ASSUME NEW c \in Calls, Lose(c)
      PROVE  NothingNew
  BY <1>1, HereIsBrowser, BrowsersKnown, CallsKnown DEF Lose, NothingNew
<1>2. ASSUME NEW b \in Browsers, SignOut(b)
      PROVE  NothingNew
  BY <1>2, BrowsersKnown, CallsKnown DEF SignOut, NothingNew
<1>3. CASE RevokeTokens \/ Restrict \/ Lift \/ UNCHANGED vars
  BY <1>3, BrowsersKnown, CallsKnown DEF RevokeTokens, Restrict, Lift, vars, NothingNew
<1> QED BY <1>1, <1>2, <1>3, StartKnown, CallStepKnown DEF Next

\* Nothing new means nothing younger.
LEMMA NothingYounger ==
  ASSUME NothingNew, NEW age \in 0 .. AccessLife, NoneYounger(age)
  PROVE  NoneYounger(age)'
<1>1. \A access \in Held' : Known(access)
  BY DEF Held, NothingNew, BrowserKnown, CallKnown
<1> QED BY <1>1 DEF NoneYounger, Known

\* A second makes an access token older.
LEMMA SecondAges ==
  ASSUME NEW age \in 0 .. AccessLife, NEW access \in None .. AccessLife + 1,
         access = None \/ access >= age
  PROVE  OlderAccess(access) = None \/ OlderAccess(access) >= age + 1
  BY LifeAssumption DEF OlderAccess, AccessOf, None

\* And the one signed with a refresh token that grows older.
LEMMA SecondAgesFresh ==
  ASSUME NEW age \in 0 .. AccessLife, NEW fresh \in {None} \cup Ages, fresh < RefreshLife,
         AccessOf(fresh) = None \/ AccessOf(fresh) >= age
  PROVE  AccessOf(Older(fresh)) = None \/ AccessOf(Older(fresh)) >= age + 1
  BY LifeAssumption DEF Older, AccessOf, None, Ages

\* A second makes every token that is held older.
LEMMA TickAges ==
  ASSUME Inv, Tick, NEW age \in 0 .. AccessLife, NoneYounger(age)
  PROVE  NoneYounger(age + 1)'
<1> DEFINE Old(access) == access = None \/ access >= age
           Aged(access) == access = None \/ access >= age + 1
<1>1. \A access \in Held : Old(access)
  BY DEF NoneYounger
<1>2. ASSUME NEW b \in Browsers
      PROVE  Aged(browser'[b].memory) /\ Aged(browser'[b].storage)
  <2>1. browser[b] \in BrowserRecord
    BY DEF Inv, BrowserOK
  <2>2. /\ browser'[b].memory = OlderAccess(browser[b].memory)
        /\ browser'[b].storage = OlderAccess(browser[b].storage)
    BY <2>1 DEF Tick, BrowserRecord
  <2>3. Old(browser[b].memory) /\ Old(browser[b].storage)
    BY <1>1 DEF Held
  <2>4. /\ browser[b].memory \in None .. AccessLife + 1
        /\ browser[b].storage \in None .. AccessLife + 1
    BY <2>1 DEF BrowserRecord
  <2> QED BY <2>2, <2>3, <2>4, SecondAges
<1>3. ASSUME NEW c \in Calls
      PROVE  /\ Aged(call'[c].bearer) /\ Aged(call'[c].page)
             /\ Aged(AccessOf(call'[c].fresh))
  <2>1. call[c] \in CallRecord /\ call[c].fresh < RefreshLife
    BY DEF Inv, CallOK, Tick
  <2>2. /\ call'[c].bearer = OlderAccess(call[c].bearer)
        /\ call'[c].page = OlderAccess(call[c].page)
        /\ call'[c].fresh = Older(call[c].fresh)
    BY <2>1 DEF Tick, CallRecord
  <2>3. Old(call[c].bearer) /\ Old(call[c].page) /\ Old(AccessOf(call[c].fresh))
    BY <1>1 DEF Held
  <2>4. /\ call[c].bearer \in None .. AccessLife + 1 /\ call[c].page \in None .. AccessLife + 1
        /\ call[c].fresh \in {None} \cup Ages
    BY <2>1 DEF CallRecord
  <2>5. Aged(call'[c].bearer) /\ Aged(call'[c].page)
    BY <2>2, <2>3, <2>4, SecondAges
  <2>6. Aged(AccessOf(call'[c].fresh))
    BY <2>1, <2>2, <2>3, <2>4, SecondAgesFresh
  <2> QED BY <2>5, <2>6
<1>4. \A access \in Held' : Aged(access)
  BY <1>2, <1>3 DEF Held
<1> QED BY <1>4 DEF NoneYounger

OnlyAges ==
  account = "barred" /\ account' = "barred" =>
    /\ Passed' \subseteq Passed
    /\ Passed = {} =>
         \A age \in 0 .. AccessLife :
           NoneYounger(age) => NoneYounger(age)' /\ (Tick => NoneYounger(age + 1)')

\* A step while the account is barred.
LEMMA BarredStep ==
  ASSUME Inv, [Next]_vars, account = "barred", account' = "barred"
  PROVE  /\ Passed' \subseteq Passed
         /\ Passed = {} =>
              \A age \in 0 .. AccessLife :
                NoneYounger(age) => NoneYounger(age)' /\ (Tick => NoneYounger(age + 1)')
<1>1. Passed' \subseteq Passed
  <2> SUFFICES ASSUME NEW c \in Calls, call'[c].pc \in {"rotate", "rotated", "verified"}
               PROVE  call[c].pc \in {"rotate", "rotated", "verified"}
    BY DEF Passed
  <2> QED BY NextTurns DEF CallsTurn, Turns, Started
<1>2. ASSUME Passed = {}, NEW age \in 0 .. AccessLife, NoneYounger(age), ~Tick
      PROVE  NoneYounger(age)'
  BY <1>2, NextKnown, NothingYounger
<1>3. ASSUME Tick, NEW age \in 0 .. AccessLife, NoneYounger(age)
      PROVE  NoneYounger(age)' /\ NoneYounger(age + 1)'
  <2>1. NoneYounger(age + 1)'
    BY <1>3, TickAges
  <2>2. \A access \in Held' : access = None \/ access \in Int
    <3>1. Inv'
      BY NextKeeps
    <3>2. /\ \A b \in Browsers : browser'[b].memory \in Int /\ browser'[b].storage \in Int
          /\ \A c \in Calls : /\ call'[c].bearer \in Int /\ call'[c].page \in Int
                              /\ AccessOf(call'[c].fresh) \in Int
      BY <3>1, LifeAssumption
         DEF Inv, BrowserOK, BrowserRecord, CallOK, CallRecord, AccessOf, Ages, None
    <3> QED BY <3>2 DEF Held
  <2>3. \A access \in Int : access >= age + 1 => access >= age
    OBVIOUS
  <2>4. NoneYounger(age)'
    BY <2>1, <2>2, <2>3 DEF NoneYounger
  <2> QED BY <2>1, <2>4
<1> QED BY <1>1, <1>2, <1>3

\* While an account stays barred no call passes the look at it, and once the
\* sign-ins, sign-ups and rotations that had passed it have signed their tokens, what
\* anybody holds only ages: the safety half of RestrictionEndsAccess
\* (auth.service.ts:88-117, :195-207).
THEOREM BarredForGood == Spec => BarredAgesOut
<1>1. Inv /\ [Next]_vars => [OnlyAges]_vars
  BY BarredStep DEF OnlyAges
<1> QED BY <1>1, Invariance, PTL DEF Spec, BarredAgesOut, OnlyAges

==============================================================================
