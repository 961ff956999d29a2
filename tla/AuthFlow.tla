------------------------------- MODULE AuthFlow -------------------------------
(***************************************************************************)
(* Signing in with a browser: the relying party (demo-agency), pushed      *)
(* authorization requests and the authorization endpoint (routes/par.ts,   *)
(* routes/authorize.ts), the sign-in page and its script (hosted-ui), the  *)
(* completion of the login (routes/auth-flow.ts), the callback with its    *)
(* token and userinfo requests, and logout (routes/logout.ts).             *)
(*                                                                         *)
(* The tabs of one browser share its cookies.  Each tab follows redirects; *)
(* a handler is atomic between two calls to the database, KV or a session  *)
(* object, so the tabs' requests interleave inside the handlers.  The      *)
(* exchange of a code is one step here and is refined by TokenExchange,    *)
(* the session object by SessionDO.                                        *)
(***************************************************************************)
EXTENDS Integers, Sequences, FiniteSets

CONSTANTS
  Tabs,
  Flows,      \* authorization requests: a state, a nonce and a code_verifier each
  Sessions,   \* session ids (uuids: each is created once)
  Codes,      \* authorization codes (likewise)
  Users,
  Pushed,     \* the requests sent by PAR
  IalMaxOf,   \* ialMax of the service provider of each request
  AcrsOf,     \* the acr_values each request may have, as sequences of names
  None

ASSUME AuthFlowAssumption ==
  /\ Pushed \subseteq Flows
  /\ IalMaxOf \in [Flows -> 1..2]
  /\ \A f \in Flows : \A q \in AcrsOf[f] : q \in Seq(STRING)
  /\ None \notin Tabs \cup Flows \cup Sessions \cup Codes \cup Users

VARIABLES
  tab,      \* per tab: what it shows or waits for, see Tab
  pkce,     \* the agency's PKCE cookie: the request it belongs to
  agency,   \* the agency's session cookie: the code it was made from
  login,    \* the Better Auth session: its user
  asked,    \* per request: its acr_values, once it was made
  par,      \* per pushed request: none, stored, gone
  session,  \* per session id: its state, see SessionState
  code,     \* per code: its row, see CodeRow
  tokens,   \* codes whose access token is in KV
  rowIal    \* per user: ial of the row in users, 0 without a row

vars ==
  <<tab, pkce, agency, login, asked, par, session, code, tokens, rowIal>>

agencyVars == <<pkce, agency>>
idpVars    == <<par, session, code, tokens, rowIal>>

Waiting ==   \* for an answer or a redirect
  {"authorize", "read", "resolved", "toSignIn", "toVerify", "patching",
   "complete", "known", "checked", "posted", "accepted", "callback",
   "redeeming", "redeemed", "logout", "toDashboard"}

Resting == {"agency", "signIn", "wizard", "dashboard", "error"}

Tab ==
  [at : Waiting \cup Resting, flow : Flows \cup {None},
   session : Sessions \cup {None}, code : Codes \cup {None},
   user : Users \cup {None}, ial : 1..2]

SessionState ==
  [flow : Flows, ial : 1..2, aal : 1..2, achievedIal : 0..2,
   mfaVerified : BOOLEAN, userId : Users \cup {None}, live : BOOLEAN]

CodeRow ==
  [flow : Flows, user : Users, ial : 1..2, aal : 1..2, acr : {"auth-only", "verified"},
   usable : BOOLEAN,
   claimed : BOOLEAN]   \* history: made for a user a caller named, not for a login

ASSUME NoneAssumption ==
  /\ None \notin SessionState \cup CodeRow
  /\ \A f \in Flows : None \notin AcrsOf[f]

TypeOK ==
  /\ tab \in [Tabs -> Tab]
  /\ pkce \in Flows \cup {None}
  /\ agency \in Codes \cup {None}
  /\ login \in Users \cup {None}
  /\ asked \in [Flows -> {None} \cup UNION {AcrsOf[f] : f \in Flows}]
  /\ par \in [Flows -> {"none", "stored", "gone"}]
  /\ session \in [Sessions -> SessionState \cup {None}]
  /\ code \in [Codes -> CodeRow \cup {None}]
  /\ tokens \subseteq Codes
  /\ rowIal \in [Users -> 0..2]

Show(at, f, s, c, u, ial) ==
  [at |-> at, flow |-> f, session |-> s, code |-> c, user |-> u, ial |-> ial]

\* A page, or a request for one, that has no parameters, or some.
Page(at)                  == Show(at, None, None, None, None, 1)
WithFlow(at, f)           == Show(at, f, None, None, None, 1)
WithSession(at, s, ial)   == Show(at, None, s, None, None, ial)
WithUser(at, s, u, ial)   == Show(at, None, s, None, u, ial)
WithCode(at, f, c)        == Show(at, f, None, c, None, 1)

Init ==
  /\ tab = [t \in Tabs |-> Page("agency")]
  /\ pkce = None
  /\ agency = None
  /\ login = None
  /\ asked = [f \in Flows |-> None]
  /\ par = [f \in Flows |-> "none"]
  /\ session = [s \in Sessions |-> None]
  /\ code = [c \in Codes |-> None]
  /\ tokens = {}
  /\ rowIal = [u \in Users |-> 0]
-----------------------------------------------------------------------------
(***************************************************************************)
(* Assurance levels.                                                       *)
(***************************************************************************)

\* deprecatedAcrMiddleware, on one name.
Translated(name) ==
  CASE name \in {"ial/1", "loa/1"} -> "auth-only"
    [] name \in {"ial/2", "loa/3"} -> "verified"
    [] OTHER -> name

\* ACR_VALUES, where a deprecated name stands for its translation.
AcrIal(name) == IF Translated(name) = "verified" THEN 2 ELSE 1

IalNames == {"auth-only", "verified", "ial/1", "ial/2", "loa/1", "loa/3"}

\* AAL_ACR_VALUES: every modifier asks for AAL2.
AalNames == {"duo", "aal/2", "aal/2?phishing_resistant", "aal/2?hspd12"}

Named(q, names) == {i \in DOMAIN q : q[i] \in names}

\* parseAcrValues: the first name of an IAL counts, a modifier overrides the
\* AAL that comes with it; without a name of an IAL there is no result.
Parses(q) == Named(q, IalNames) # {}

First(is) == CHOOSE i \in is : \A j \in is : i <= j

AskedIal(q) == AcrIal(q[First(Named(q, IalNames))])

AskedAal(q) == IF Named(q, AalNames) # {} THEN 2 ELSE AskedIal(q)

Supports(f, ial) == IalMaxOf[f] >= ial

\* determineAcr; the facial match is left out.
Acr(ial, aal) == IF ial = 2 /\ aal = 2 THEN "verified" ELSE "auth-only"
-----------------------------------------------------------------------------
(***************************************************************************)
(* Where a tab goes.                                                       *)
(***************************************************************************)

Go(t, page) == tab' = [tab EXCEPT ![t] = page]

Live(s) == session[s] # None /\ session[s].live

\* From where nothing goes on, the user returns to the agency.
Home(t) ==
  /\ tab[t].at \in {"dashboard", "error"}
  /\ Go(t, Page("agency"))
  /\ UNCHANGED <<agencyVars, login, asked, idpVars>>

\* The tab is duplicated, or its address opened in another one, and its
\* request made again.
Duplicate(t, u) ==
  /\ tab[t].at \in {"authorize", "callback"}
  /\ tab[u].at \in Resting
  /\ Go(u, tab[t])
  /\ UNCHANGED <<agencyVars, login, asked, idpVars>>
-----------------------------------------------------------------------------
(***************************************************************************)
(* The agency asks.                                                        *)
(***************************************************************************)

\* GET /auth/start: the cookie is overwritten.
Start(t, f, q) ==
  /\ tab[t].at = "agency"
  /\ f \notin Pushed /\ asked[f] = None
  /\ asked' = [asked EXCEPT ![f] = q]
  /\ pkce' = f
  /\ Go(t, WithFlow("resolved", f))
  /\ UNCHANGED <<agency, login, idpVars>>

\* POST /api/openid_connect/par: a request that does not parse or asks for
\* more than the service provider supports is refused.
Push(t, f, q) ==
  /\ tab[t].at = "agency"
  /\ f \in Pushed /\ asked[f] = None
  /\ asked' = [asked EXCEPT ![f] = q]
  /\ IF Parses(q) /\ Supports(f, AskedIal(q))
       THEN /\ par' = [par EXCEPT ![f] = "stored"]
            /\ pkce' = f
            /\ Go(t, WithFlow("authorize", f))
       ELSE /\ UNCHANGED <<par, pkce>>
            /\ Go(t, Page("error"))
  /\ UNCHANGED <<agency, login, session, code, tokens, rowIal>>

\* GET /openid_connect/authorize with a request_uri looks it up...
ReadRequest(t) ==
  /\ tab[t].at = "authorize"
  /\ Go(t, IF par[tab[t].flow] = "stored" THEN WithFlow("read", tab[t].flow)
                                          ELSE Page("error"))
  /\ UNCHANGED <<agencyVars, login, asked, idpVars>>

\* Variant: the request is left in KV until it expires.
KeepRequest(t) ==
  /\ tab[t].at = "read"
  /\ Go(t, WithFlow("resolved", tab[t].flow))
  /\ UNCHANGED <<agencyVars, login, asked, idpVars>>

\* ... and deletes it, before it compares the client_id of the address with
\* the one that was pushed.
DeleteRequest(t) ==
  /\ tab[t].at = "read"
  /\ par' = [par EXCEPT ![tab[t].flow] = "gone"]
  /\ \E page \in {WithFlow("resolved", tab[t].flow), Page("error")} : Go(t, page)
  /\ UNCHANGED <<agencyVars, login, asked, session, code, tokens, rowIal>>

\* PAR_TTL_SECONDS are over.
RequestExpires(f) ==
  /\ par[f] = "stored"
  /\ par' = [par EXCEPT ![f] = "gone"]
  /\ UNCHANGED <<tab, agencyVars, login, asked, session, code, tokens, rowIal>>

\* The rest of the handler: an error for the agency, or a new session, for
\* which the sign-in page is told the IAL, not the AAL.
Authorize(t, s) ==
  LET f == tab[t].flow
      q == asked[f] IN
  /\ tab[t].at = "resolved"
  /\ session[s] = None
  /\ IF Parses(q) /\ Supports(f, AskedIal(q))
       THEN /\ session' = [session EXCEPT ![s] =
                 [flow |-> f, ial |-> AskedIal(q), aal |-> AskedAal(q), achievedIal |-> 0,
                  mfaVerified |-> FALSE, userId |-> None, live |-> TRUE]]
            /\ Go(t, WithSession("toSignIn", s, AskedIal(q)))
       ELSE /\ UNCHANGED session
            /\ Go(t, Page("error"))
  /\ UNCHANGED <<agencyVars, login, asked, par, code, tokens, rowIal>>
-----------------------------------------------------------------------------
(***************************************************************************)
(* The user signs in.                                                      *)
(***************************************************************************)

\* Variant: whoever is logged in goes on with the session of the address.
ContinueIfLoggedIn(t) ==
  /\ tab[t].at = "toSignIn"
  /\ Go(t, IF login = None THEN WithSession("signIn", tab[t].session, tab[t].ial)
           ELSE IF tab[t].session = None THEN Page("toDashboard")
           ELSE WithSession("complete", tab[t].session, tab[t].ial))
  /\ UNCHANGED <<agencyVars, login, asked, idpVars>>

\* GET /sign-in: whoever is logged in is sent to the dashboard; the page is
\* shown whether or not the session exists.
ShowSignIn(t) ==
  /\ tab[t].at = "toSignIn"
  /\ Go(t, IF login = None THEN WithSession("signIn", tab[t].session, tab[t].ial)
                           ELSE Page("toDashboard"))
  /\ UNCHANGED <<agencyVars, login, asked, idpVars>>

ShowDashboard(t) ==
  /\ tab[t].at = "toDashboard"
  /\ Go(t, IF login = None THEN Page("toSignIn") ELSE Page("dashboard"))
  /\ UNCHANGED <<agencyVars, login, asked, idpVars>>

\* completeRedirect of the page.
Completed(s) == IF s = None THEN Page("toDashboard") ELSE WithSession("complete", s, 1)

\* POST /api/auth/sign-in/email, or sign-up/email: a page that was told
\* IAL2 starts the wizard, any other completes the login.
SignInByPassword(t, u) ==
  /\ tab[t].at = "signIn"
  /\ login' = u
  /\ Go(t, IF tab[t].ial = 2 THEN WithUser("wizard", tab[t].session, u, 2)
                             ELSE Completed(tab[t].session))
  /\ UNCHANGED <<agencyVars, asked, idpVars>>

\* The detour by a social login provider, which ends at the callbackURL the
\* page chose.
SignInBySocial(t, u) ==
  /\ tab[t].at = "signIn"
  /\ login' = u
  /\ Go(t, IF tab[t].ial = 2 /\ tab[t].session # None
             THEN WithSession("toVerify", tab[t].session, 2)
             ELSE Completed(tab[t].session))
  /\ UNCHANGED <<agencyVars, asked, idpVars>>

\* The sign-in page with verify=1 asks who is logged in and starts the wizard.
ReturnToVerify(t) ==
  /\ tab[t].at = "toVerify"
  /\ Go(t, IF login = None THEN WithSession("signIn", tab[t].session, 2)
                           ELSE WithUser("wizard", tab[t].session, login, 2))
  /\ UNCHANGED <<agencyVars, login, asked, idpVars>>

\* The wizard ends with POST /api/auth-flow/mock-verify.  The row of the user
\* is updated: there may be none, and a failure is passed over...
MockVerify(t) ==
  /\ tab[t].at = "wizard"
  /\ Go(t, WithUser("patching", tab[t].session, tab[t].user, 2))
  /\ LET u == tab[t].user IN
     \/ rowIal' = [rowIal EXCEPT ![u] = IF @ = 0 THEN 0 ELSE 2]
     \/ UNCHANGED rowIal
  /\ UNCHANGED <<agencyVars, login, asked, par, session, code, tokens>>

\* Variant: the end of the wizard stands in for reading the login, with the
\* user the page knows.
PatchAndComplete(t) ==
  LET s == tab[t].session IN
  /\ tab[t].at = "patching"
  /\ session' = IF s # None /\ Live(s)
                  THEN [session EXCEPT ![s].achievedIal = 2] ELSE session
  /\ Go(t, IF s = None THEN Completed(s) ELSE WithUser("known", s, tab[t].user, 1))
  /\ UNCHANGED <<agencyVars, login, asked, par, code, tokens, rowIal>>

\* ... then the session is patched, whatever that answers.
PatchSession(t) ==
  LET s == tab[t].session IN
  /\ tab[t].at = "patching"
  /\ session' = IF s # None /\ Live(s)
                  THEN [session EXCEPT ![s].achievedIal = 2] ELSE session
  /\ Go(t, Completed(s))
  /\ UNCHANGED <<agencyVars, login, asked, par, code, tokens, rowIal>>
-----------------------------------------------------------------------------
(***************************************************************************)
(* The login is completed.                                                 *)
(***************************************************************************)

\* Makes the row of a user in users if there is none; a failure is passed over.
EnsureSharedUser(u) ==
  \/ rowIal' = [rowIal EXCEPT ![u] = IF @ = 0 THEN 1 ELSE @]
  \/ UNCHANGED rowIal

\* GET /api/auth-flow/complete-login reads the login and sees to the row.
StartComplete(t) ==
  /\ tab[t].at = "complete"
  /\ IF login = None
       THEN /\ Go(t, WithSession("toSignIn", tab[t].session, 1))
            /\ UNCHANGED rowIal
       ELSE /\ Go(t, WithUser("known", tab[t].session, login, 1))
            /\ EnsureSharedUser(login)
  /\ UNCHANGED <<agencyVars, login, asked, par, session, code, tokens>>

\* Variant: the AAL the session asks for is not looked at.
MfaNever(s) == FALSE

MfaRequired(s) == session[s].aal >= 2

\* Variant: the fallback is missing.
IalAchieved(s) == session[s].achievedIal

\* session.achievedIal ?? session.requestedIal
IalOf(s) == IF session[s].achievedIal = 0 THEN session[s].ial ELSE session[s].achievedIal

\* Then the session: without one back to sign in, and likewise if it asks
\* for AAL2, with mfa=1.
CheckSession(t) ==
  LET s == tab[t].session IN
  /\ tab[t].at = "known"
  /\ Go(t, IF ~Live(s) THEN Page("toSignIn")
           ELSE IF MfaRequired(s) THEN WithSession("toSignIn", s, 1)
           ELSE WithUser("checked", s, tab[t].user, IalOf(s)))
  /\ UNCHANGED <<agencyVars, login, asked, idpVars>>

\* The code of a login without MFA, for the user and the level of the tab,
\* which takes it to the agency.
InsertCode(t, c, claimed) ==
  LET f == session[tab[t].session].flow IN
  /\ code[c] = None
  /\ code' = [code EXCEPT ![c] =
       [flow |-> f, user |-> tab[t].user, ial |-> tab[t].ial, aal |-> 1,
        acr |-> Acr(tab[t].ial, 1), usable |-> TRUE, claimed |-> claimed]]
  /\ Go(t, WithCode("callback", f, c))
  /\ UNCHANGED <<agencyVars, login, asked, par, session, tokens, rowIal>>

\* Then the code is inserted, and the tab redirected to the agency.
IssueCode(t, c) == tab[t].at = "checked" /\ InsertCode(t, c, FALSE)

\* POST /api/auth-flow/complete-login takes the user from its body, not from
\* the login.  It sees to the row...
PostComplete(t, u) ==
  /\ tab[t].at = "signIn" /\ tab[t].session # None
  /\ Go(t, WithUser("posted", tab[t].session, u, 1))
  /\ EnsureSharedUser(u)
  /\ UNCHANGED <<agencyVars, login, asked, par, session, code, tokens>>

\* ... reads the session: the caller stays where it is if there is none or if
\* it asks for AAL2...
CheckPosted(t) ==
  LET s == tab[t].session IN
  /\ tab[t].at = "posted"
  /\ Go(t, IF ~Live(s) \/ MfaRequired(s) THEN WithSession("signIn", s, 1)
           ELSE WithUser("accepted", s, tab[t].user, IalOf(s)))
  /\ UNCHANGED <<agencyVars, login, asked, idpVars>>

\* ... and answers with the code and where to take it.
AnswerWithCode(t, c) == tab[t].at = "accepted" /\ InsertCode(t, c, TRUE)

\* POST /api/auth-flow/issue-code, for a page that finished MFA: it wants the
\* verification and the user in the session, and no handler stores a user
\* there.
IssueCodeAfterMfa(t, c) ==
  LET s == tab[t].session IN
  /\ tab[t].at = "signIn" /\ s # None /\ Live(s)
  /\ code[c] = None
  /\ IF (MfaRequired(s) => session[s].mfaVerified) /\ session[s].userId # None
       THEN /\ code' = [code EXCEPT ![c] =
                 [flow |-> session[s].flow, user |-> session[s].userId, ial |-> IalOf(s),
                  aal |-> session[s].aal, acr |-> Acr(IalOf(s), session[s].aal),
                  usable |-> TRUE, claimed |-> FALSE]]
            /\ Go(t, WithCode("callback", session[s].flow, c))
       ELSE UNCHANGED <<tab, code>>
  /\ UNCHANGED <<agencyVars, login, asked, par, session, tokens, rowIal>>
-----------------------------------------------------------------------------
(***************************************************************************)
(* The agency takes the user in, and out.                                  *)
(***************************************************************************)

\* GET /callback compares the state with the cookie's.
CheckState(t) ==
  /\ tab[t].at = "callback"
  /\ Go(t, IF pkce = tab[t].flow THEN WithCode("redeeming", tab[t].flow, tab[t].code)
                                 ELSE Page("error"))
  /\ UNCHANGED <<agencyVars, login, asked, idpVars>>

\* Its token request: the code is used up, and its token valid.
Redeem(t) ==
  LET c == tab[t].code IN
  /\ tab[t].at = "redeeming"
  /\ IF code[c].usable
       THEN /\ code' = [code EXCEPT ![c].usable = FALSE]
            /\ tokens' = tokens \cup {c}
            /\ Go(t, WithCode("redeemed", tab[t].flow, c))
       ELSE /\ UNCHANGED <<code, tokens>>
            /\ Go(t, Page("error"))
  /\ UNCHANGED <<agencyVars, login, asked, par, session, rowIal>>

\* Its userinfo request needs the token and a row in users.  Then the cookies
\* are set and cleared, the PKCE cookie of another tab's request included.
UserInfo(t) ==
  LET c == tab[t].code IN
  /\ tab[t].at = "redeemed"
  /\ IF c \in tokens /\ rowIal[code[c].user] > 0
       THEN /\ agency' = c
            /\ pkce' = None
            /\ Go(t, Page("agency"))
       ELSE /\ UNCHANGED agencyVars
            /\ Go(t, Page("error"))
  /\ UNCHANGED <<login, asked, idpVars>>

\* GET /logout of the agency, which knows the tokens of its session.
AgencyLogout(t) ==
  /\ tab[t].at = "agency"
  /\ agency # None
  /\ agency' = None
  /\ Go(t, WithCode("logout", None, agency))
  /\ UNCHANGED <<pkce, login, asked, idpVars>>

\* GET /openid_connect/logout: the session object named by the subject is
\* destroyed, and there is none of that name; the Better Auth session and the
\* token that was passed are.
IdpLogout(t) ==
  /\ tab[t].at = "logout"
  /\ login' = None
  /\ tokens' = tokens \ {tab[t].code}
  /\ Go(t, Page("agency"))
  /\ UNCHANGED <<agencyVars, asked, par, session, code, rowIal>>
-----------------------------------------------------------------------------
(***************************************************************************)
(* Time passes, calls fail.                                                *)
(***************************************************************************)

\* The Better Auth session lasts 15 minutes.
LoginExpires ==
  /\ login # None
  /\ login' = None
  /\ UNCHANGED <<tab, agencyVars, asked, idpVars>>

PkceExpires ==
  /\ pkce # None
  /\ pkce' = None
  /\ UNCHANGED <<tab, agency, login, asked, idpVars>>

SessionExpires(s) ==
  /\ Live(s)
  /\ session' = [session EXCEPT ![s].live = FALSE]
  /\ UNCHANGED <<tab, agencyVars, login, asked, par, code, tokens, rowIal>>
-----------------------------------------------------------------------------
\* The answer a tab waits for.
Answer(t) ==
  \/ ReadRequest(t)
  \/ DeleteRequest(t)
  \/ \E s \in Sessions : Authorize(t, s)
  \/ ShowSignIn(t)
  \/ ShowDashboard(t)
  \/ ReturnToVerify(t)
  \/ PatchSession(t)
  \/ StartComplete(t)
  \/ CheckSession(t)
  \/ \E c \in Codes : IssueCode(t, c) \/ AnswerWithCode(t, c)
  \/ CheckPosted(t)
  \/ CheckState(t)
  \/ Redeem(t)
  \/ UserInfo(t)
  \/ IdpLogout(t)

\* What the user does with a tab at rest.
Act(t) ==
  \/ Home(t)
  \/ \E u \in Tabs \ {t} : Duplicate(t, u)
  \/ \E f \in Flows : \E q \in AcrsOf[f] : Start(t, f, q) \/ Push(t, f, q)
  \/ \E u \in Users :
       SignInByPassword(t, u) \/ SignInBySocial(t, u) \/ PostComplete(t, u)
  \/ MockVerify(t)
  \/ \E c \in Codes : IssueCodeAfterMfa(t, c)
  \/ AgencyLogout(t)

Expire ==
  \/ LoginExpires
  \/ PkceExpires
  \/ \E f \in Flows : RequestExpires(f)
  \/ \E s \in Sessions : SessionExpires(s)

Next == Expire \/ \E t \in Tabs : Answer(t) \/ Act(t)

\* The browser follows redirects and the provider answers; what the user does
\* and what expires is not owed.
Fairness == \A t \in Tabs : WF_vars(Answer(t))

Spec == Init /\ [][Next]_vars /\ Fairness
-----------------------------------------------------------------------------
\* "issue OIDC authorization codes with the correct IAL/AAL/ACR claims"
\* (auth-flow.ts:5): a code never carries less than what the request of its
\* service provider asked for, whichever page, wizard or provider the login
\* went through.
CodesMeetRequest ==
  \A c \in Codes : code[c] # None =>
    LET q == asked[code[c].flow] IN
    /\ code[c].ial >= AskedIal(q)
    /\ code[c].aal >= AskedAal(q)
    /\ code[c].acr = Acr(code[c].ial, code[c].aal)

Made(f) == {s \in Sessions : session[s] # None /\ session[s].flow = f}

\* The request became a session, and nobody who read it before is still at it.
Retired(f) ==
  /\ Made(f) # {}
  /\ \A t \in Tabs : tab[t].flow = f => tab[t].at \notin {"read", "resolved"}

\* "Single-use" (authorize.ts:41): reading and deleting a pushed request are
\* two calls, so two tabs may read it; but once a session was made of it and
\* the readers are through, no address, reload or duplicate gets any further.
RequestsSingleUse ==
  [][\A f \in Pushed : Retired(f) => Retired(f)' /\ Made(f)' = Made(f)]_vars

(***************************************************************************)
(* The flow implements the sign-in a relying party expects.                *)
(***************************************************************************)

startedOf == {f \in Flows : asked[f] # None}

\* Does the tab complete a login, read (FALSE) or claimed by a POST (TRUE)?
Completing(t, claimed) ==
  tab[t].at \in IF claimed THEN {"posted", "accepted"} ELSE {"known", "checked"}

\* The users logins are completed for, with the request they complete: from
\* the reading or the POST to the INSERT of the code, and ever after.
PairsOf(claimed) ==
  {<<session[tab[t].session].flow, tab[t].user>> :
     t \in {u \in Tabs : Completing(u, claimed)}}
  \cup {<<code[c].flow, code[c].user>> :
          c \in {d \in Codes : code[d] # None /\ code[d].claimed = claimed}}

vouchedOf == PairsOf(FALSE)
claimedOf == PairsOf(TRUE)

accountOf ==
  IF agency = None THEN None ELSE <<code[agency].flow, code[agency].user>>

Promise == INSTANCE SignIn
  WITH started <- startedOf, vouched <- vouchedOf, claimed <- claimedOf,
       account <- accountOf

\* The login is read before the session and the code is inserted after both,
\* sessions survive a logout, and tabs share their cookies: still every code
\* is made in a request of the agency, for a user who was logged in when the
\* login was read or whom a POST to complete-login named, and the agency acts
\* on nobody else.
ImplementsSignIn == Promise!Spec

\* The tab waits for something the model has run out of.
Exhausted(t) ==
  \/ tab[t].at = "resolved" /\ \A s \in Sessions : session[s] # None
  \/ tab[t].at \in {"checked", "accepted"} /\ \A c \in Codes : code[c] # None

Rests(t) == tab[t].at \in Resting \/ Exhausted(t)

\* The sign-in page sends away whoever is logged in, the dashboard and
\* complete-login whoever is not: provided the login does not come and go for
\* ever in another tab, no tab is redirected in a circle.
NoRedirectLoop ==
  <>[](login = None) \/ <>[](login # None) => \A t \in Tabs : []<>Rests(t)

\* "If MFA is required, redirect back to sign-in for the MFA step"
\* (auth-flow.ts:236): a tab that goes there shows a page where the step can
\* be taken, unless its session expires.
MfaStepReached ==
  \A t \in Tabs, s \in Sessions :
    tab[t].at = "known" /\ tab[t].session = s /\ Live(s) /\ MfaRequired(s)
      ~> tab[t].at = "signIn" \/ ~Live(s)
=============================================================================
