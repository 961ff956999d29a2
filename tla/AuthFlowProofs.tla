---------------------------- MODULE AuthFlowProofs ----------------------------
(***************************************************************************)
(* Theorems about AuthFlow, for any number of tabs, requests, sessions,    *)
(* codes and users: its type invariant, that codes carry what was asked    *)
(* for, that a pushed request becomes no second session once its readers   *)
(* are through, and that every step is one of SignIn or a stutter.         *)
(***************************************************************************)
EXTENDS AuthFlow, TLAPS

(***************************************************************************)
(* The inductive invariant.                                                *)
(***************************************************************************)

\* What a page refers to exists, and what it has passed was checked.
PageSound(x) ==
  /\ x.at = "authorize" => x.flow \in Pushed
  /\ x.at \in {"authorize", "read", "resolved"} => x.flow # None /\ asked[x.flow] # None
  /\ x.at = "resolved" /\ x.flow \in Pushed => par[x.flow] = "gone"
  /\ x.session # None => session[x.session] # None
  /\ x.at \in {"complete", "known", "checked", "posted", "accepted"} => x.session # None
  /\ x.at \in {"wizard", "patching", "known", "checked", "posted", "accepted"} =>
       x.user # None
  /\ x.at \in {"checked", "accepted"} =>
       session[x.session].aal = 1 /\ session[x.session].ial <= x.ial
  /\ x.code # None => code[x.code] # None
  /\ x.at \in {"callback", "redeeming", "redeemed"} =>
       x.code # None /\ x.flow # None
  /\ x.at = "logout" => x.code # None

TabSound(t) == PageSound(tab[t])

\* A session is for what its request asked, and nobody stores a user in it.
SessionSound(s) ==
  LET x == session[s] IN
  x # None =>
    /\ asked[x.flow] # None
    /\ x.ial = AskedIal(asked[x.flow]) /\ x.aal = AskedAal(asked[x.flow])
    /\ x.achievedIal \in {0, 2}
    /\ x.userId = None

\* A code is for a request that was made, and meets it.
CodeSound(c) ==
  LET x == code[c] IN
  x # None =>
    /\ asked[x.flow] # None
    /\ x.ial >= AskedIal(asked[x.flow]) /\ x.aal >= AskedAal(asked[x.flow])
    /\ x.acr = Acr(x.ial, x.aal)

\* A pushed request is gone from KV before a session is made of it.
RequestSound(f) ==
  /\ par[f] # "none" => asked[f] # None
  /\ f \in Pushed /\ Made(f) # {} => par[f] = "gone"

IInv ==
  /\ TypeOK
  /\ \A t \in Tabs : TabSound(t)
  /\ \A s \in Sessions : SessionSound(s)
  /\ \A c \in Codes : CodeSound(c)
  /\ \A f \in Flows : RequestSound(f)
  /\ agency # None => code[agency] # None
-----------------------------------------------------------------------------
(***************************************************************************)
(* Pages and records.                                                      *)
(***************************************************************************)

LEMMA PageType ==
  ASSUME NEW at \in Waiting \cup Resting, NEW f \in Flows \cup {None},
         NEW s \in Sessions \cup {None}, NEW c \in Codes \cup {None},
         NEW u \in Users \cup {None}, NEW ial \in 1..2
  PROVE  Show(at, f, s, c, u, ial) \in Tab
BY DEF Show, Tab

\* Every acr value asks for levels one or two.
LEMMA Levels ==
  \A q : AskedIal(q) \in 1..2 /\ AskedAal(q) \in 1..2
BY DEF AskedIal, AskedAal, AcrIal

\* What a step may do to what the invariant refers to: requests, sessions and
\* codes stay what they are, but for a level achieved, an end and a use.
Grows ==
  /\ \A f \in Flows : asked[f] # None => asked'[f] = asked[f]
  /\ \A f \in Flows : par[f] = "gone" => par'[f] = "gone"
  /\ \A s \in Sessions : session[s] # None =>
       /\ session'[s] # None
       /\ session'[s].flow = session[s].flow
       /\ session'[s].ial = session[s].ial /\ session'[s].aal = session[s].aal
       /\ session'[s].userId = session[s].userId
       /\ session'[s].achievedIal \in {session[s].achievedIal, 2}
  /\ \A c \in Codes : code[c] # None =>
       /\ code'[c] # None
       /\ code'[c].flow = code[c].flow /\ code'[c].user = code[c].user
       /\ code'[c].ial = code[c].ial /\ code'[c].aal = code[c].aal
       /\ code'[c].acr = code[c].acr /\ code'[c].claimed = code[c].claimed

\* A tab that does not move stays sound when the rest only grows.
LEMMA TabKept ==
  ASSUME TypeOK, Grows, NEW t \in Tabs, TabSound(t), tab'[t] = tab[t]
  PROVE  TabSound(t)'
<1>1. /\ tab[t].flow \in Flows \cup {None} /\ tab[t].session \in Sessions \cup {None}
      /\ tab[t].code \in Codes \cup {None}
  BY DEF TypeOK, Tab
<1>2. Pushed \subseteq Flows
  BY AuthFlowAssumption
<1> QED
  BY <1>1, <1>2 DEF Grows, TabSound, PageSound

LEMMA SessionKept ==
  ASSUME TypeOK, Grows, NEW s \in Sessions, SessionSound(s), session[s] # None
  PROVE  SessionSound(s)'
<1>1. session[s].flow \in Flows
  BY DEF TypeOK, SessionState
<1> QED
  BY <1>1 DEF Grows, SessionSound

LEMMA CodeKept ==
  ASSUME TypeOK, Grows, NEW c \in Codes, CodeSound(c), code[c] # None
  PROVE  CodeSound(c)'
<1>1. code[c].flow \in Flows
  BY DEF TypeOK, CodeRow
<1> QED
  BY <1>1 DEF Grows, CodeSound

\* A tab moves to a page.
LEMMA Moves ==
  ASSUME TypeOK, NEW t \in Tabs, NEW page \in Tab, Go(t, page)
  PROVE  /\ tab' \in [Tabs -> Tab]
         /\ tab'[t] = page
         /\ \A u \in Tabs \ {t} : tab'[u] = tab[u]
BY DEF TypeOK, Go

\* A tab moves, and nothing else the invariant is about changes.
LEMMA TabStep ==
  ASSUME IInv, NEW t \in Tabs, NEW page \in Tab, Go(t, page), PageSound(page),
         UNCHANGED <<asked, par, session, code>>,
         pkce' \in {pkce, None}, agency' \in {agency, None, tab[t].code},
         login' \in Users \cup {None}, tokens' \subseteq Codes,
         rowIal' \in [Users -> 0..2]
  PROVE  IInv' /\ Grows
<1>1. /\ tab' \in [Tabs -> Tab] /\ tab'[t] = page
      /\ \A u \in Tabs \ {t} : tab'[u] = tab[u]
  BY Moves DEF IInv
<1>2. tab[t].code \in Codes \cup {None} /\ (tab[t].code # None => code[tab[t].code] # None)
  BY DEF IInv, TypeOK, Tab, TabSound, PageSound
<1>3. TypeOK'
  BY <1>1, <1>2 DEF IInv, TypeOK
<1>4. \A u \in Tabs : TabSound(u)'
  BY <1>1 DEF IInv, TabSound, PageSound
<1>5. /\ \A s \in Sessions : SessionSound(s)'
      /\ \A c \in Codes : CodeSound(c)'
      /\ \A f \in Flows : RequestSound(f)'
  BY DEF IInv, SessionSound, CodeSound, RequestSound, Made
<1>6. agency' # None => code'[agency'] # None
  BY <1>2 DEF IInv
<1>7. Grows
  BY DEF Grows
<1> QED
  BY <1>3, <1>4, <1>5, <1>6, <1>7 DEF IInv

LEMMA InitIInv ==
  Init => IInv
<1> SUFFICES ASSUME Init PROVE IInv
  OBVIOUS
<1>1. Page("agency") \in Tab
  BY PageType DEF Page, Resting
<1>2. TypeOK
  BY <1>1 DEF Init, TypeOK
<1>3. \A t \in Tabs : TabSound(t)
  BY DEF Init, TabSound, PageSound, Page, Show
<1>4. /\ \A s \in Sessions : session[s] = None
      /\ \A c \in Codes : code[c] = None
      /\ \A f \in Flows : par[f] = "none"
  BY DEF Init
<1>5. \A f \in Flows : Made(f) = {}
  BY <1>4 DEF Made
<1>6. /\ \A s \in Sessions : SessionSound(s)
      /\ \A c \in Codes : CodeSound(c)
      /\ \A f \in Flows : RequestSound(f)
  BY <1>4, <1>5 DEF SessionSound, CodeSound, RequestSound
<1>7. agency # None => code[agency] # None
  BY DEF Init
<1> QED
  BY <1>2, <1>3, <1>6, <1>7 DEF IInv
-----------------------------------------------------------------------------
(***************************************************************************)
(* The steps that only move a tab.                                         *)
(***************************************************************************)

LEMMA PlainPage ==
  ASSUME NEW at \in {"toSignIn", "toDashboard", "agency", "dashboard", "error"}
  PROVE  Page(at) \in Tab /\ PageSound(Page(at))
<1>1. Page(at) \in Tab
  BY PageType DEF Page, Waiting, Resting
<1>2. PageSound(Page(at))
  BY DEF PageSound, Page, Show
<1> QED
  BY <1>1, <1>2

\* A page about a request is a sound one.
LEMMA FlowPage ==
  ASSUME NEW at \in {"authorize", "read", "resolved"}, NEW f \in Flows,
         asked[f] # None,
         at = "authorize" => f \in Pushed,
         at = "resolved" /\ f \in Pushed => par[f] = "gone"
  PROVE  WithFlow(at, f) \in Tab /\ PageSound(WithFlow(at, f))
<1>0. at \in Waiting \cup Resting /\ 1 \in 1..2
  BY DEF Waiting
<1>1. WithFlow(at, f) \in Tab
  BY <1>0, PageType DEF WithFlow
<1>2. PageSound(WithFlow(at, f))
  BY AuthFlowAssumption DEF PageSound, WithFlow, Show
<1> QED
  BY <1>1, <1>2

\* A page about a session is a sound one.
LEMMA SessionPage ==
  ASSUME NEW at \in {"toSignIn", "signIn", "toVerify", "complete"},
         NEW s \in Sessions \cup {None}, NEW ial \in 1..2,
         s # None => session[s] # None,
         at = "complete" => s # None
  PROVE  WithSession(at, s, ial) \in Tab /\ PageSound(WithSession(at, s, ial))
<1>1. WithSession(at, s, ial) \in Tab
  BY PageType DEF WithSession, Waiting, Resting
<1>2. PageSound(WithSession(at, s, ial))
  BY DEF PageSound, WithSession, Show
<1> QED
  BY <1>1, <1>2

\* A page about a signed-in user is a sound one.
LEMMA UserPage ==
  ASSUME NEW at \in {"wizard", "patching", "known", "checked", "posted", "accepted"},
         NEW s \in Sessions \cup {None}, NEW u \in Users, NEW ial \in 1..2,
         s # None => session[s] # None,
         at \in {"known", "checked", "posted", "accepted"} => s # None,
         at \in {"checked", "accepted"} => session[s].aal = 1 /\ session[s].ial <= ial
  PROVE  WithUser(at, s, u, ial) \in Tab /\ PageSound(WithUser(at, s, u, ial))
<1>1. WithUser(at, s, u, ial) \in Tab
  BY PageType DEF WithUser, Waiting, Resting
<1>2. PageSound(WithUser(at, s, u, ial))
  BY AuthFlowAssumption DEF PageSound, WithUser, Show
<1> QED
  BY <1>1, <1>2

\* A page about a code is a sound one.
LEMMA CodePage ==
  ASSUME NEW at \in {"callback", "redeeming", "redeemed", "logout"},
         NEW f \in Flows \cup {None}, NEW c \in Codes, code[c] # None,
         at # "logout" => f # None
  PROVE  WithCode(at, f, c) \in Tab /\ PageSound(WithCode(at, f, c))
<1>0. at \in Waiting \cup Resting /\ 1 \in 1..2
  BY DEF Waiting
<1>1. WithCode(at, f, c) \in Tab
  BY <1>0, PageType DEF WithCode
<1>2. PageSound(WithCode(at, f, c))
  BY AuthFlowAssumption DEF PageSound, WithCode, Show
<1> QED
  BY <1>1, <1>2

\* What the invariant says of the tab that moves.
LEMMA TabFacts ==
  ASSUME IInv, NEW t \in Tabs
  PROVE  /\ tab[t] \in Tab
         /\ tab[t].flow \in Flows \cup {None}
         /\ tab[t].session \in Sessions \cup {None}
         /\ tab[t].code \in Codes \cup {None}
         /\ tab[t].user \in Users \cup {None}
         /\ tab[t].ial \in 1..2
         /\ PageSound(tab[t])
BY DEF IInv, TypeOK, Tab, TabSound

\* The types of what no tab holds.
LEMMA IdleFacts ==
  ASSUME IInv
  PROVE  /\ pkce \in Flows \cup {None} /\ agency \in Codes \cup {None}
         /\ login \in Users \cup {None} /\ tokens \subseteq Codes
         /\ rowIal \in [Users -> 0..2]
BY DEF IInv, TypeOK

LEMMA HomeStep ==
  ASSUME IInv, NEW t \in Tabs, Home(t)
  PROVE  IInv' /\ Grows
<1>1. Page("agency") \in Tab /\ PageSound(Page("agency"))
  BY PlainPage
<1> QED
  BY <1>1, TabStep, IdleFacts DEF Home, agencyVars, idpVars

LEMMA DuplicateStep ==
  ASSUME IInv, NEW t \in Tabs, NEW u \in Tabs, Duplicate(t, u)
  PROVE  IInv' /\ Grows
<1>1. tab[t] \in Tab /\ PageSound(tab[t])
  BY TabFacts
<1> QED
  BY <1>1, TabStep, IdleFacts DEF Duplicate, agencyVars, idpVars

LEMMA ReadRequestStep ==
  ASSUME IInv, NEW t \in Tabs, ReadRequest(t)
  PROVE  IInv' /\ Grows
<1>1. /\ tab[t].flow \in Flows /\ asked[tab[t].flow] # None
      /\ UNCHANGED <<asked, par, session, code>>
      /\ UNCHANGED <<pkce, agency, login, tokens, rowIal>>
  BY TabFacts DEF ReadRequest, PageSound, agencyVars, idpVars
<1>2. CASE par[tab[t].flow] = "stored"
  <2> DEFINE page == WithFlow("read", tab[t].flow)
  <2>1. page \in Tab /\ PageSound(page)
    BY <1>1, FlowPage
  <2>2. Go(t, page)
    BY <1>2 DEF ReadRequest
  <2> HIDE DEF page
  <2> QED
    BY <1>1, <2>1, <2>2, TabStep, IdleFacts
<1>3. CASE par[tab[t].flow] # "stored"
  <2>1. Page("error") \in Tab /\ PageSound(Page("error"))
    BY PlainPage
  <2>2. Go(t, Page("error"))
    BY <1>3 DEF ReadRequest
  <2> QED
    BY <1>1, <2>1, <2>2, TabStep, IdleFacts
<1> QED
  BY <1>2, <1>3

LEMMA ShowSignInStep ==
  ASSUME IInv, NEW t \in Tabs, ShowSignIn(t)
  PROVE  IInv' /\ Grows
<1>1. UNCHANGED <<asked, par, session, code, pkce, agency, login, tokens, rowIal>>
  BY DEF ShowSignIn, agencyVars, idpVars
<1>2. /\ tab[t].session \in Sessions \cup {None} /\ tab[t].ial \in 1..2
      /\ tab[t].session # None => session[tab[t].session] # None
  BY TabFacts DEF PageSound
<1>3. CASE login = None
  <2> DEFINE page == WithSession("signIn", tab[t].session, tab[t].ial)
  <2>1. page \in Tab /\ PageSound(page)
    BY <1>2, SessionPage
  <2>2. Go(t, page)
    BY <1>3 DEF ShowSignIn
  <2> HIDE DEF page
  <2> QED
    BY <1>1, <2>1, <2>2, TabStep, IdleFacts
<1>4. CASE login # None
  <2>1. Page("toDashboard") \in Tab /\ PageSound(Page("toDashboard"))
    BY PlainPage
  <2>2. Go(t, Page("toDashboard"))
    BY <1>4 DEF ShowSignIn
  <2> QED
    BY <1>1, <2>1, <2>2, TabStep, IdleFacts
<1> QED
  BY <1>3, <1>4

LEMMA ShowDashboardStep ==
  ASSUME IInv, NEW t \in Tabs, ShowDashboard(t)
  PROVE  IInv' /\ Grows
<1>1. UNCHANGED <<asked, par, session, code, pkce, agency, login, tokens, rowIal>>
  BY DEF ShowDashboard, agencyVars, idpVars
<1>2. /\ Page("toSignIn") \in Tab /\ PageSound(Page("toSignIn"))
      /\ Page("dashboard") \in Tab /\ PageSound(Page("dashboard"))
  BY PlainPage
<1>3. Go(t, Page("toSignIn")) \/ Go(t, Page("dashboard"))
  BY DEF ShowDashboard
<1> QED
  BY <1>1, <1>2, <1>3, TabStep, IdleFacts

\* The pages a login leads to.
LEMMA CompletedSound ==
  ASSUME IInv, NEW s \in Sessions \cup {None}, s # None => session[s] # None
  PROVE  Completed(s) \in Tab /\ PageSound(Completed(s))
<1>1. CASE s = None
  BY <1>1, PlainPage DEF Completed
<1>2. CASE s # None
  BY <1>2, SessionPage DEF Completed
<1> QED
  BY <1>1, <1>2

LEMMA PasswordStep ==
  ASSUME IInv, NEW t \in Tabs, NEW u \in Users, SignInByPassword(t, u)
  PROVE  IInv' /\ Grows
<1>1. UNCHANGED <<asked, par, session, code, pkce, agency, tokens, rowIal>> /\ login' = u
  BY DEF SignInByPassword, agencyVars, idpVars
<1>2. /\ tab[t].session \in Sessions \cup {None}
      /\ tab[t].session # None => session[tab[t].session] # None
  BY TabFacts DEF PageSound
<1>3. CASE tab[t].ial = 2
  <2> DEFINE page == WithUser("wizard", tab[t].session, u, 2)
  <2>1. page \in Tab /\ PageSound(page)
    BY <1>2, UserPage
  <2>2. Go(t, page)
    BY <1>3 DEF SignInByPassword
  <2> HIDE DEF page
  <2> QED
    BY <1>1, <2>1, <2>2, TabStep, IdleFacts
<1>4. CASE tab[t].ial # 2
  <2> DEFINE page == Completed(tab[t].session)
  <2>1. page \in Tab /\ PageSound(page)
    BY <1>2, CompletedSound
  <2>2. Go(t, page)
    BY <1>4 DEF SignInByPassword
  <2> HIDE DEF page
  <2> QED
    BY <1>1, <2>1, <2>2, TabStep, IdleFacts
<1> QED
  BY <1>3, <1>4

LEMMA SocialStep ==
  ASSUME IInv, NEW t \in Tabs, NEW u \in Users, SignInBySocial(t, u)
  PROVE  IInv' /\ Grows
<1>1. UNCHANGED <<asked, par, session, code, pkce, agency, tokens, rowIal>> /\ login' = u
  BY DEF SignInBySocial, agencyVars, idpVars
<1>2. /\ tab[t].session \in Sessions \cup {None}
      /\ tab[t].session # None => session[tab[t].session] # None
  BY TabFacts DEF PageSound
<1>3. CASE tab[t].ial = 2 /\ tab[t].session # None
  <2> DEFINE page == WithSession("toVerify", tab[t].session, 2)
  <2>1. page \in Tab /\ PageSound(page)
    BY <1>2, SessionPage
  <2>2. Go(t, page)
    BY <1>3 DEF SignInBySocial
  <2> HIDE DEF page
  <2> QED
    BY <1>1, <2>1, <2>2, TabStep, IdleFacts
<1>4. CASE ~(tab[t].ial = 2 /\ tab[t].session # None)
  <2> DEFINE page == Completed(tab[t].session)
  <2>1. page \in Tab /\ PageSound(page)
    BY <1>2, CompletedSound
  <2>2. Go(t, page)
    BY <1>4 DEF SignInBySocial
  <2> HIDE DEF page
  <2> QED
    BY <1>1, <2>1, <2>2, TabStep, IdleFacts
<1> QED
  BY <1>3, <1>4

LEMMA ReturnToVerifyStep ==
  ASSUME IInv, NEW t \in Tabs, ReturnToVerify(t)
  PROVE  IInv' /\ Grows
<1>1. UNCHANGED <<asked, par, session, code, pkce, agency, login, tokens, rowIal>>
  BY DEF ReturnToVerify, agencyVars, idpVars
<1>2. /\ tab[t].session \in Sessions \cup {None}
      /\ tab[t].session # None => session[tab[t].session] # None
  BY TabFacts DEF PageSound
<1>3. CASE login = None
  <2> DEFINE page == WithSession("signIn", tab[t].session, 2)
  <2>1. page \in Tab /\ PageSound(page)
    BY <1>2, SessionPage
  <2>2. Go(t, page)
    BY <1>3 DEF ReturnToVerify
  <2> HIDE DEF page
  <2> QED
    BY <1>1, <2>1, <2>2, TabStep, IdleFacts
<1>4. CASE login # None
  <2> DEFINE page == WithUser("wizard", tab[t].session, login, 2)
  <2>1. page \in Tab /\ PageSound(page)
    BY <1>2, <1>4, IdleFacts, UserPage
  <2>2. Go(t, page)
    BY <1>4 DEF ReturnToVerify
  <2> HIDE DEF page
  <2> QED
    BY <1>1, <2>1, <2>2, TabStep, IdleFacts
<1> QED
  BY <1>3, <1>4

LEMMA MockVerifyStep ==
  ASSUME IInv, NEW t \in Tabs, MockVerify(t)
  PROVE  IInv' /\ Grows
<1> DEFINE page == WithUser("patching", tab[t].session, tab[t].user, 2)
<1>1. UNCHANGED <<asked, par, session, code, pkce, agency, login, tokens>> /\ Go(t, page)
  BY DEF MockVerify, agencyVars
<1>2. /\ tab[t].session \in Sessions \cup {None} /\ tab[t].user \in Users
      /\ tab[t].session # None => session[tab[t].session] # None
  BY TabFacts DEF PageSound, MockVerify
<1>3. rowIal' \in [Users -> 0..2]
  BY <1>2, IdleFacts DEF MockVerify
<1>4. page \in Tab /\ PageSound(page)
  BY <1>2, UserPage
<1> HIDE DEF page
<1> QED
  BY <1>1, <1>3, <1>4, TabStep, IdleFacts

LEMMA StartCompleteStep ==
  ASSUME IInv, NEW t \in Tabs, StartComplete(t)
  PROVE  IInv' /\ Grows
<1>1. UNCHANGED <<asked, par, session, code, pkce, agency, login, tokens>>
  BY DEF StartComplete, agencyVars
<1>2. /\ tab[t].session \in Sessions /\ session[tab[t].session] # None
  BY TabFacts DEF PageSound, StartComplete
<1>3. CASE login = None
  <2> DEFINE page == WithSession("toSignIn", tab[t].session, 1)
  <2>1. page \in Tab /\ PageSound(page)
    BY <1>2, SessionPage
  <2>2. Go(t, page) /\ UNCHANGED rowIal
    BY <1>3 DEF StartComplete
  <2> HIDE DEF page
  <2> QED
    BY <1>1, <2>1, <2>2, TabStep, IdleFacts
<1>4. CASE login # None
  <2> DEFINE page == WithUser("known", tab[t].session, login, 1)
  <2>0. login \in Users
    BY <1>4, IdleFacts
  <2>1. page \in Tab /\ PageSound(page)
    BY <1>2, <2>0, AuthFlowAssumption, UserPage
  <2>2. Go(t, page)
    BY <1>4 DEF StartComplete
  <2>3. rowIal' \in [Users -> 0..2]
    BY <1>4, <2>0, IdleFacts DEF StartComplete, EnsureSharedUser
  <2> HIDE DEF page
  <2> QED
    BY <1>1, <2>1, <2>2, <2>3, TabStep, IdleFacts
<1> QED
  BY <1>3, <1>4

\* A login that passes the check meets what the session asks for.
LEMMA CheckSessionStep ==
  ASSUME IInv, NEW t \in Tabs, CheckSession(t)
  PROVE  IInv' /\ Grows
<1> DEFINE s == tab[t].session
<1>1. UNCHANGED <<asked, par, session, code, pkce, agency, login, tokens, rowIal>>
  BY DEF CheckSession, agencyVars, idpVars
<1>2. s \in Sessions /\ session[s] # None /\ tab[t].user \in Users
  BY TabFacts DEF PageSound, CheckSession
<1>3. /\ session[s].aal \in 1..2 /\ session[s].ial \in 1..2
      /\ session[s].achievedIal \in {0, 2}
  BY <1>2 DEF IInv, TypeOK, SessionState, SessionSound
<1>4. CASE ~Live(s)
  <2>1. Page("toSignIn") \in Tab /\ PageSound(Page("toSignIn"))
    BY PlainPage
  <2>2. Go(t, Page("toSignIn"))
    BY <1>4 DEF CheckSession
  <2> QED
    BY <1>1, <2>1, <2>2, TabStep, IdleFacts
<1>5. CASE Live(s) /\ MfaRequired(s)
  <2> DEFINE page == WithSession("toSignIn", s, 1)
  <2>1. page \in Tab /\ PageSound(page)
    BY <1>2, SessionPage
  <2>2. Go(t, page)
    BY <1>5 DEF CheckSession
  <2> HIDE DEF page
  <2> QED
    BY <1>1, <2>1, <2>2, TabStep, IdleFacts
<1>6. CASE Live(s) /\ ~MfaRequired(s)
  <2> DEFINE page == WithUser("checked", s, tab[t].user, IalOf(s))
  <2>1. session[s].aal = 1
    BY <1>3, <1>6 DEF MfaRequired
  <2>2. IalOf(s) \in 1..2 /\ session[s].ial <= IalOf(s)
    BY <1>3 DEF IalOf
  <2>3. page \in Tab /\ PageSound(page)
    BY <1>2, <2>1, <2>2, AuthFlowAssumption, UserPage
  <2>4. Go(t, page)
    BY <1>6 DEF CheckSession
  <2> HIDE DEF page
  <2> QED
    BY <1>1, <2>3, <2>4, TabStep, IdleFacts
<1> QED
  BY <1>4, <1>5, <1>6

LEMMA PostCompleteStep ==
  ASSUME IInv, NEW t \in Tabs, NEW u \in Users, PostComplete(t, u)
  PROVE  IInv' /\ Grows
<1> DEFINE page == WithUser("posted", tab[t].session, u, 1)
<1>1. UNCHANGED <<asked, par, session, code, pkce, agency, login, tokens>> /\ Go(t, page)
  BY DEF PostComplete, agencyVars
<1>2. /\ tab[t].session \in Sessions /\ tab[t].session # None
      /\ session[tab[t].session] # None
  BY TabFacts DEF PageSound, PostComplete
<1>3. rowIal' \in [Users -> 0..2]
  BY IdleFacts DEF PostComplete, EnsureSharedUser
<1>4. page \in Tab /\ PageSound(page)
  BY <1>2, UserPage
<1> HIDE DEF page
<1> QED
  BY <1>1, <1>3, <1>4, TabStep, IdleFacts

\* A claim that passes the check meets what the session asks for.
LEMMA CheckPostedStep ==
  ASSUME IInv, NEW t \in Tabs, CheckPosted(t)
  PROVE  IInv' /\ Grows
<1> DEFINE s == tab[t].session
<1>1. UNCHANGED <<asked, par, session, code, pkce, agency, login, tokens, rowIal>>
  BY DEF CheckPosted, agencyVars, idpVars
<1>2. s \in Sessions /\ s # None /\ session[s] # None /\ tab[t].user \in Users
  BY TabFacts DEF PageSound, CheckPosted
<1>3. /\ session[s].aal \in 1..2 /\ session[s].ial \in 1..2
      /\ session[s].achievedIal \in {0, 2}
  BY <1>2 DEF IInv, TypeOK, SessionState, SessionSound
<1>4. CASE ~Live(s) \/ MfaRequired(s)
  <2> DEFINE page == WithSession("signIn", s, 1)
  <2>1. page \in Tab /\ PageSound(page)
    BY <1>2, SessionPage
  <2>2. Go(t, page)
    BY <1>4 DEF CheckPosted
  <2> HIDE DEF page
  <2> QED
    BY <1>1, <2>1, <2>2, TabStep, IdleFacts
<1>5. CASE Live(s) /\ ~MfaRequired(s)
  <2> DEFINE page == WithUser("accepted", s, tab[t].user, IalOf(s))
  <2>1. session[s].aal = 1
    BY <1>3, <1>5 DEF MfaRequired
  <2>2. IalOf(s) \in 1..2 /\ session[s].ial <= IalOf(s)
    BY <1>3 DEF IalOf
  <2>3. page \in Tab /\ PageSound(page)
    BY <1>2, <2>1, <2>2, UserPage
  <2>4. Go(t, page)
    BY <1>5 DEF CheckPosted
  <2> HIDE DEF page
  <2> QED
    BY <1>1, <2>3, <2>4, TabStep, IdleFacts
<1> QED
  BY <1>4, <1>5

\* What a tab on its way back to the agency holds.
LEMMA CodeFacts ==
  ASSUME IInv, NEW t \in Tabs,
         tab[t].at \in {"callback", "redeeming", "redeemed", "logout"}
  PROVE  /\ tab[t].code \in Codes /\ code[tab[t].code] # None
         /\ code[tab[t].code] \in CodeRow
         /\ tab[t].at # "logout" => tab[t].flow \in Flows
<1>1. tab[t].code \in Codes /\ code[tab[t].code] # None
  BY TabFacts DEF PageSound
<1>2. code[tab[t].code] \in CodeRow
  BY <1>1 DEF IInv, TypeOK
<1>3. tab[t].at # "logout" => tab[t].flow \in Flows
  BY TabFacts DEF PageSound
<1> QED
  BY <1>1, <1>2, <1>3

LEMMA CheckStateStep ==
  ASSUME IInv, NEW t \in Tabs, CheckState(t)
  PROVE  IInv' /\ Grows
<1>1. UNCHANGED <<asked, par, session, code, pkce, agency, login, tokens, rowIal>>
  BY DEF CheckState, agencyVars, idpVars
<1>2. tab[t].code \in Codes /\ code[tab[t].code] # None /\ tab[t].flow \in Flows
  BY CodeFacts DEF CheckState
<1>3. CASE pkce = tab[t].flow
  <2> DEFINE page == WithCode("redeeming", tab[t].flow, tab[t].code)
  <2>1. page \in Tab /\ PageSound(page)
    BY <1>2, AuthFlowAssumption, CodePage
  <2>2. Go(t, page)
    BY <1>3 DEF CheckState
  <2> HIDE DEF page
  <2> QED
    BY <1>1, <2>1, <2>2, TabStep, IdleFacts
<1>4. CASE pkce # tab[t].flow
  <2>1. Page("error") \in Tab /\ PageSound(Page("error"))
    BY PlainPage
  <2>2. Go(t, Page("error"))
    BY <1>4 DEF CheckState
  <2> QED
    BY <1>1, <2>1, <2>2, TabStep, IdleFacts
<1> QED
  BY <1>3, <1>4

LEMMA UserInfoStep ==
  ASSUME IInv, NEW t \in Tabs, UserInfo(t)
  PROVE  IInv' /\ Grows
<1>1. UNCHANGED <<asked, par, session, code, login, tokens, rowIal>>
  BY DEF UserInfo, idpVars
<1>2. /\ Page("agency") \in Tab /\ PageSound(Page("agency"))
      /\ Page("error") \in Tab /\ PageSound(Page("error"))
  BY PlainPage
<1>3. \/ Go(t, Page("agency")) /\ pkce' = None /\ agency' = tab[t].code
      \/ Go(t, Page("error")) /\ pkce' = pkce /\ agency' = agency
  BY DEF UserInfo, agencyVars
<1> QED
  BY <1>1, <1>2, <1>3, TabStep, IdleFacts

LEMMA AgencyLogoutStep ==
  ASSUME IInv, NEW t \in Tabs, AgencyLogout(t)
  PROVE  IInv' /\ Grows
<1> DEFINE page == WithCode("logout", None, agency)
<1>1. UNCHANGED <<asked, par, session, code, pkce, login, tokens, rowIal>>
  BY DEF AgencyLogout, idpVars
<1>2. agency' = None /\ Go(t, page)
  BY DEF AgencyLogout
<1>3. agency \in Codes /\ code[agency] # None
  BY DEF AgencyLogout, IInv, TypeOK
<1>4. page \in Tab /\ PageSound(page)
  BY <1>3, CodePage
<1> HIDE DEF page
<1> QED
  BY <1>1, <1>2, <1>4, TabStep, IdleFacts

LEMMA IdpLogoutStep ==
  ASSUME IInv, NEW t \in Tabs, IdpLogout(t)
  PROVE  IInv' /\ Grows
<1>1. /\ UNCHANGED <<asked, par, session, code, pkce, agency, rowIal>>
      /\ login' = None /\ tokens' \subseteq Codes /\ Go(t, Page("agency"))
  BY IdleFacts DEF IdpLogout, agencyVars
<1>2. Page("agency") \in Tab /\ PageSound(Page("agency"))
  BY PlainPage
<1> QED
  BY <1>1, <1>2, TabStep, IdleFacts

\* No handler stores a user in a session, so the page gets no code this way.
LEMMA NoCodeAfterMfa ==
  ASSUME IInv, NEW t \in Tabs, NEW c \in Codes, IssueCodeAfterMfa(t, c)
  PROVE  UNCHANGED vars
<1>1. tab[t].session \in Sessions /\ session[tab[t].session] # None
  BY TabFacts DEF IssueCodeAfterMfa, Live
<1>2. session[tab[t].session].userId = None
  BY <1>1 DEF IInv, SessionSound
<1> QED
  BY <1>2 DEF IssueCodeAfterMfa, vars, agencyVars

LEMMA StutterStep ==
  ASSUME IInv, UNCHANGED vars
  PROVE  IInv' /\ Grows
<1>1. IInv'
  BY DEF IInv, vars, TypeOK, TabSound, PageSound, SessionSound, CodeSound, RequestSound, Made
<1>2. Grows
  BY DEF Grows, vars
<1> QED
  BY <1>1, <1>2

LEMMA CookiesExpireStep ==
  ASSUME IInv, LoginExpires \/ PkceExpires
  PROVE  IInv' /\ Grows
<1>1. /\ UNCHANGED <<tab, agency, asked, par, session, code, tokens, rowIal>>
      /\ login' \in {login, None} /\ pkce' \in {pkce, None}
  BY DEF LoginExpires, PkceExpires, agencyVars, idpVars
<1>2. TypeOK'
  BY <1>1 DEF IInv, TypeOK
<1>3. /\ \A t \in Tabs : TabSound(t)'
      /\ \A s \in Sessions : SessionSound(s)'
      /\ \A c \in Codes : CodeSound(c)'
      /\ \A f \in Flows : RequestSound(f)'
  BY <1>1 DEF IInv, TabSound, PageSound, SessionSound, CodeSound, RequestSound, Made
<1>4. Grows
  BY <1>1 DEF Grows
<1> QED
  BY <1>1, <1>2, <1>3, <1>4 DEF IInv
-----------------------------------------------------------------------------
(***************************************************************************)
(* The steps that change a request, a session or a code.                   *)
(***************************************************************************)

LEMMA GrowStep ==
  ASSUME IInv, TypeOK', Grows, agency' = agency,
         \A t \in Tabs : tab'[t] = tab[t] \/ TabSound(t)',
         \A s \in Sessions : session[s] = None => SessionSound(s)',
         \A c \in Codes : code[c] = None => CodeSound(c)',
         \A f \in Flows : RequestSound(f)'
  PROVE  IInv' /\ Grows
<1>1. \A t \in Tabs : TabSound(t)'
  BY TabKept DEF IInv
<1>2. \A s \in Sessions : SessionSound(s)'
  BY SessionKept DEF IInv
<1>3. \A c \in Codes : CodeSound(c)'
  BY CodeKept DEF IInv
<1>4. agency \in Codes \cup {None}
  BY DEF IInv, TypeOK
<1>5. agency' # None => code'[agency'] # None
  BY <1>4 DEF IInv, Grows
<1> QED
  BY <1>1, <1>2, <1>3, <1>5 DEF IInv

\* Sessions and codes that stay as they are.
LEMMA SessionsStay ==
  ASSUME IInv, session' = session, NEW s \in Sessions
  PROVE  /\ session[s] = None => SessionSound(s)'
         /\ session[s] # None => session'[s].achievedIal \in {session[s].achievedIal, 2}
BY DEF SessionSound

\* Codes that were not made are sound as long as they are not.
LEMMA CodesStay ==
  ASSUME code' = code, NEW c \in Codes
  PROVE  code[c] = None => CodeSound(c)'
BY DEF CodeSound

\* Requests stay sound while they and the sessions do not change.
LEMMA RequestsStay ==
  ASSUME IInv, session' = session, UNCHANGED <<asked, par>>
  PROVE  \A f \in Flows : RequestSound(f)'
BY DEF IInv, RequestSound, Made

LEMMA CoreTypes ==
  ASSUME IInv
  PROVE  /\ asked \in [Flows -> {None} \cup UNION {AcrsOf[f] : f \in Flows}]
         /\ par \in [Flows -> {"none", "stored", "gone"}]
         /\ session \in [Sessions -> SessionState \cup {None}]
         /\ code \in [Codes -> CodeRow \cup {None}]
BY DEF IInv, TypeOK

\* A request is made: nothing refers to it yet.
LEMMA AskedStep ==
  ASSUME IInv, NEW t \in Tabs, NEW f \in Flows, NEW q \in AcrsOf[f], NEW page \in Tab,
         asked[f] = None, asked' = [asked EXCEPT ![f] = q], Go(t, page),
         page.at \in {"authorize", "resolved", "error"},
         page.session = None /\ page.code = None,
         page.at = "error" => page.flow = None,
         page.at # "error" => page.flow = f,
         page.at = "authorize" => f \in Pushed,
         page.at = "resolved" => f \notin Pushed,
         \/ par' = par
         \/ f \in Pushed /\ par' = [par EXCEPT ![f] = "stored"],
         UNCHANGED <<agency, login, session, code, tokens, rowIal>>,
         pkce' \in {pkce, f}
  PROVE  IInv' /\ Grows
<1>1. /\ tab' \in [Tabs -> Tab] /\ tab'[t] = page
      /\ \A u \in Tabs \ {t} : tab'[u] = tab[u]
  BY Moves DEF IInv
<1>2. /\ asked' \in [Flows -> {None} \cup UNION {AcrsOf[g] : g \in Flows}]
      /\ asked'[f] = q /\ q # None
      /\ \A g \in Flows \ {f} : asked'[g] = asked[g]
  BY CoreTypes, NoneAssumption
<1>3. par[f] = "none"
  BY CoreTypes DEF IInv, RequestSound
<1>4. /\ par' \in [Flows -> {"none", "stored", "gone"}]
      /\ \A g \in Flows : par[g] = "gone" => par'[g] = "gone"
      /\ \A g \in Flows : g # f => par'[g] = par[g]
  BY <1>3, CoreTypes
<1>5. TypeOK'
  BY <1>1, <1>2, <1>4 DEF IInv, TypeOK
<1>6. Grows
  BY <1>2, <1>4 DEF Grows
<1>7. TabSound(t)'
  BY <1>1, <1>2, AuthFlowAssumption DEF TabSound, PageSound
<1>8. ASSUME NEW g \in Flows PROVE RequestSound(g)'
  <2>1. Made(g)' = Made(g)
    BY DEF Made
  <2>2. CASE g = f
    <3>1. Made(f) = {}
      BY <1>3 DEF IInv, Made, SessionSound
    <3> QED
      BY <2>1, <2>2, <3>1, <1>2 DEF RequestSound
  <2>3. CASE g # f
    BY <2>1, <2>3, <1>2, <1>4 DEF IInv, RequestSound
  <2> QED
    BY <2>2, <2>3
<1> QED
  BY <1>1, <1>5, <1>6, <1>7, <1>8, SessionsStay, CodesStay, GrowStep

LEMMA StartStep ==
  ASSUME IInv, NEW t \in Tabs, NEW f \in Flows, NEW q \in AcrsOf[f], Start(t, f, q)
  PROVE  IInv' /\ Grows
<1> DEFINE page == WithFlow("resolved", f)
<1>1. /\ f \notin Pushed /\ asked[f] = None /\ asked' = [asked EXCEPT ![f] = q]
      /\ Go(t, page) /\ pkce' = f
      /\ UNCHANGED <<agency, login, par, session, code, tokens, rowIal>>
  BY DEF Start, idpVars
<1>2. page \in Tab
  BY PageType DEF WithFlow, Waiting
<1>3. /\ page.at = "resolved" /\ page.flow = f
      /\ page.session = None /\ page.code = None
  BY DEF WithFlow, Show
<1> HIDE DEF page
<1> QED
  BY <1>1, <1>2, <1>3, AskedStep

LEMMA PushStep ==
  ASSUME IInv, NEW t \in Tabs, NEW f \in Flows, NEW q \in AcrsOf[f], Push(t, f, q)
  PROVE  IInv' /\ Grows
<1>1. /\ f \in Pushed /\ asked[f] = None /\ asked' = [asked EXCEPT ![f] = q]
      /\ UNCHANGED <<agency, login, session, code, tokens, rowIal>>
  BY DEF Push
<1>2. CASE Parses(q) /\ Supports(f, AskedIal(q))
  <2> DEFINE page == WithFlow("authorize", f)
  <2>1. page \in Tab
    BY PageType DEF WithFlow, Waiting
  <2>2. /\ page.at = "authorize" /\ page.flow = f
        /\ page.session = None /\ page.code = None
    BY DEF WithFlow, Show
  <2>3. par' = [par EXCEPT ![f] = "stored"] /\ pkce' = f /\ Go(t, page)
    BY <1>2 DEF Push
  <2> HIDE DEF page
  <2> QED
    BY <1>1, <2>1, <2>2, <2>3, AskedStep
<1>3. CASE ~(Parses(q) /\ Supports(f, AskedIal(q)))
  <2> DEFINE page == Page("error")
  <2>1. page \in Tab
    BY PlainPage
  <2>2. page.at = "error" /\ page.flow = None /\ page.session = None /\ page.code = None
    BY DEF Page, Show
  <2>3. UNCHANGED <<par, pkce>> /\ Go(t, page)
    BY <1>3 DEF Push
  <2> HIDE DEF page
  <2> QED
    BY <1>1, <2>1, <2>2, <2>3, AskedStep
<1> QED
  BY <1>2, <1>3

\* A pushed request leaves KV: no tab, session or code depends on its being there.
LEMMA GoneStep ==
  ASSUME IInv, NEW f \in Flows, asked[f] # None, par' = [par EXCEPT ![f] = "gone"],
         tab' \in [Tabs -> Tab], \A t \in Tabs : tab'[t] = tab[t] \/ TabSound(t)',
         UNCHANGED <<pkce, agency, login, asked, session, code, tokens, rowIal>>
  PROVE  IInv' /\ Grows
<1>1. /\ par' \in [Flows -> {"none", "stored", "gone"}] /\ par'[f] = "gone"
      /\ \A g \in Flows : g # f => par'[g] = par[g]
  BY CoreTypes
<1>2. TypeOK'
  BY <1>1 DEF IInv, TypeOK
<1>3. Grows
  BY <1>1 DEF Grows
<1>4. ASSUME NEW g \in Flows PROVE RequestSound(g)'
  BY <1>1 DEF IInv, RequestSound, Made
<1> QED
  BY <1>2, <1>3, <1>4, SessionsStay, CodesStay, GrowStep

LEMMA DeleteRequestStep ==
  ASSUME IInv, NEW t \in Tabs, DeleteRequest(t)
  PROVE  IInv' /\ Grows
<1> DEFINE f == tab[t].flow
<1>1. /\ par' = [par EXCEPT ![f] = "gone"]
      /\ UNCHANGED <<pkce, agency, login, asked, session, code, tokens, rowIal>>
  BY DEF DeleteRequest, agencyVars
<1>2. f \in Flows /\ f # None /\ asked[f] # None
  BY TabFacts DEF DeleteRequest, PageSound
<1>3. PICK page \in {WithFlow("resolved", f), Page("error")} : Go(t, page)
  BY DEF DeleteRequest
<1>4. page \in Tab
  <2>1. WithFlow("resolved", f) \in Tab
    BY <1>2, PageType DEF WithFlow, Waiting
  <2> QED
    BY <2>1, PlainPage
<1>5. /\ tab' \in [Tabs -> Tab] /\ tab'[t] = page
      /\ \A u \in Tabs \ {t} : tab'[u] = tab[u]
  BY <1>3, <1>4, Moves DEF IInv
<1>6. par'[f] = "gone"
  BY <1>1, <1>2, CoreTypes
<1>7. /\ (page.at = "resolved" /\ page.flow = f) \/ page.at = "error"
      /\ page.session = None /\ page.code = None
  BY <1>3 DEF WithFlow, Page, Show
<1>8. asked' = asked
  BY <1>1
<1> HIDE DEF f
<1>9. TabSound(t)'
  BY <1>2, <1>5, <1>6, <1>7, <1>8 DEF TabSound, PageSound
<1> QED
  BY <1>1, <1>2, <1>5, <1>9, GoneStep

LEMMA RequestExpiresStep ==
  ASSUME IInv, NEW f \in Flows, RequestExpires(f)
  PROVE  IInv' /\ Grows
<1>1. /\ par[f] = "stored" /\ par' = [par EXCEPT ![f] = "gone"]
      /\ UNCHANGED <<tab, pkce, agency, login, asked, session, code, tokens, rowIal>>
  BY DEF RequestExpires, agencyVars
<1>2. asked[f] # None
  BY <1>1 DEF IInv, RequestSound
<1>3. tab' \in [Tabs -> Tab]
  BY <1>1 DEF IInv, TypeOK
<1> QED
  BY <1>1, <1>2, <1>3, GoneStep

\* A session changes in what the invariant lets change.
LEMMA SessionStep ==
  ASSUME IInv, NEW s \in Sessions, NEW x \in SessionState, session[s] # None,
         session' = [session EXCEPT ![s] = x],
         x.flow = session[s].flow, x.ial = session[s].ial, x.aal = session[s].aal,
         x.userId = session[s].userId, x.achievedIal \in {session[s].achievedIal, 2},
         tab' \in [Tabs -> Tab], \A t \in Tabs : tab'[t] = tab[t] \/ TabSound(t)',
         UNCHANGED <<pkce, agency, login, asked, par, code, tokens, rowIal>>
  PROVE  IInv' /\ Grows
<1>1. /\ session' \in [Sessions -> SessionState \cup {None}] /\ session'[s] = x
      /\ \A r \in Sessions : r # s => session'[r] = session[r]
      /\ x # None
  BY CoreTypes, NoneAssumption
<1>2. TypeOK'
  BY <1>1 DEF IInv, TypeOK
<1>3. Grows
  BY <1>1 DEF Grows
<1>4. \A r \in Sessions : session[r] = None => SessionSound(r)'
  BY <1>1 DEF SessionSound
<1>5. ASSUME NEW f \in Flows PROVE Made(f)' = Made(f)
  BY <1>1 DEF Made
<1>6. \A f \in Flows : RequestSound(f)'
  BY <1>5 DEF IInv, RequestSound
<1> QED
  BY <1>2, <1>3, <1>4, <1>6, CodesStay, GrowStep

LEMMA SessionExpiresStep ==
  ASSUME IInv, NEW s \in Sessions, SessionExpires(s)
  PROVE  IInv' /\ Grows
<1> DEFINE x == [session[s] EXCEPT !.live = FALSE]
<1>1. session[s] # None /\ session[s] \in SessionState
  BY CoreTypes DEF SessionExpires, Live
<1>2. /\ x \in SessionState
      /\ x.flow = session[s].flow /\ x.ial = session[s].ial /\ x.aal = session[s].aal
      /\ x.userId = session[s].userId /\ x.achievedIal = session[s].achievedIal
  BY <1>1 DEF SessionState
<1>3. /\ session' = [session EXCEPT ![s] = x]
      /\ UNCHANGED <<tab, pkce, agency, login, asked, par, code, tokens, rowIal>>
  BY DEF SessionExpires, agencyVars
<1>4. tab' \in [Tabs -> Tab]
  BY <1>3 DEF IInv, TypeOK
<1> HIDE DEF x
<1> QED
  BY <1>1, <1>2, <1>3, <1>4, SessionStep

LEMMA PatchSessionStep ==
  ASSUME IInv, NEW t \in Tabs, PatchSession(t)
  PROVE  IInv' /\ Grows
<1> DEFINE s == tab[t].session
           page == Completed(s)
<1>1. s \in Sessions \cup {None} /\ (s # None => session[s] # None)
  BY TabFacts DEF PageSound
<1>2. page \in Tab /\ PageSound(page)
  BY <1>1, CompletedSound
<1>3. Go(t, page) /\ UNCHANGED <<pkce, agency, login, asked, par, code, tokens, rowIal>>
  BY DEF PatchSession, agencyVars
<1>4. CASE s # None /\ Live(s)
  <2> DEFINE x == [session[s] EXCEPT !.achievedIal = 2]
  <2>1. s \in Sessions /\ session[s] # None /\ session[s] \in SessionState
    BY <1>1, <1>4, CoreTypes
  <2>2. /\ x \in SessionState
        /\ x.flow = session[s].flow /\ x.ial = session[s].ial /\ x.aal = session[s].aal
        /\ x.userId = session[s].userId /\ x.achievedIal = 2
    BY <2>1 DEF SessionState
  <2>3. session' = [session EXCEPT ![s] = x]
    BY <1>4 DEF PatchSession
  <2>4. /\ tab' \in [Tabs -> Tab] /\ tab'[t] = page
        /\ \A u \in Tabs \ {t} : tab'[u] = tab[u]
    BY <1>2, <1>3, Moves DEF IInv
  <2>5. page = WithSession("complete", s, 1)
    BY <1>4 DEF Completed
  <2>6. /\ page.at = "complete" /\ page.session = s
        /\ page.flow = None /\ page.code = None /\ page.user = None
    BY <2>5 DEF WithSession, Show
  <2>7. session'[s] # None
    BY <2>1, <2>2, <2>3, CoreTypes, NoneAssumption
  <2>8. s # None
    BY <1>4
  <2> HIDE DEF page, s, x
  <2>9. TabSound(t)'
    BY <2>4, <2>6, <2>7, <2>8, AuthFlowAssumption DEF TabSound, PageSound
  <2> QED
    BY <1>3, <2>1, <2>2, <2>3, <2>4, <2>9, SessionStep
<1>5. CASE ~(s # None /\ Live(s))
  <2>1. session' = session
    BY <1>5 DEF PatchSession
  <2> HIDE DEF page, s
  <2> QED
    BY <1>2, <1>3, <2>1, TabStep, IdleFacts
<1> QED
  BY <1>4, <1>5

\* The session is new, and its request gone from KV if it was ever there.
LEMMA AuthorizeStep ==
  ASSUME IInv, NEW t \in Tabs, NEW s \in Sessions, Authorize(t, s)
  PROVE  IInv' /\ Grows
<1> DEFINE f == tab[t].flow
           q == asked[f]
<1>1. /\ f \in Flows /\ f # None /\ asked[f] # None
      /\ f \in Pushed => par[f] = "gone"
      /\ session[s] = None
  BY TabFacts DEF Authorize, PageSound
<1>2. UNCHANGED <<pkce, agency, login, asked, par, code, tokens, rowIal>>
  BY DEF Authorize, agencyVars
<1>3. CASE Parses(q) /\ Supports(f, AskedIal(q))
  <2> DEFINE x == [flow |-> f, ial |-> AskedIal(q), aal |-> AskedAal(q), achievedIal |-> 0,
                   mfaVerified |-> FALSE, userId |-> None, live |-> TRUE]
             page == WithSession("toSignIn", s, AskedIal(q))
  <2>1. session' = [session EXCEPT ![s] = x] /\ Go(t, page)
    BY <1>3 DEF Authorize
  <2>2. AskedIal(q) \in 1..2 /\ AskedAal(q) \in 1..2
    BY Levels
  <2>3. page \in Tab
    BY <2>2, PageType DEF WithSession, Waiting
  <2>4. x \in SessionState /\ x # None
    <3>1. AskedIal(q) \in 1..2 /\ AskedAal(q) \in 1..2 /\ 0 \in 0..2 /\ f \in Flows
      BY <1>1, <2>2
    <3> HIDE DEF f, q
    <3>2. x \in SessionState
      BY <3>1 DEF SessionState
    <3> QED
      BY <3>2, NoneAssumption
  <2>5. /\ x.flow = f /\ x.ial = AskedIal(q) /\ x.aal = AskedAal(q)
        /\ x.achievedIal = 0 /\ x.userId = None
    OBVIOUS
  <2>6. /\ page.at = "toSignIn" /\ page.session = s
        /\ page.flow = None /\ page.code = None /\ page.user = None
    BY DEF WithSession, Show
  <2>7. q = asked[f] /\ asked' = asked /\ par' = par
    BY <1>2
  <2> HIDE DEF x, page, q, f
  <2>8. /\ tab' \in [Tabs -> Tab] /\ tab'[t] = page
        /\ \A u \in Tabs \ {t} : tab'[u] = tab[u]
    BY <2>1, <2>3, Moves DEF IInv
  <2>9. /\ session' \in [Sessions -> SessionState \cup {None}] /\ session'[s] = x
        /\ \A r \in Sessions : r # s => session'[r] = session[r]
    BY <2>1, <2>4, CoreTypes
  <2>10. TypeOK'
    BY <1>2, <2>8, <2>9 DEF IInv, TypeOK
  <2>11. Grows
    BY <1>1, <1>2, <2>9 DEF Grows
  <2>12. TabSound(t)'
    BY <2>4, <2>6, <2>8, <2>9, AuthFlowAssumption DEF TabSound, PageSound
  <2>13. SessionSound(s)'
    BY <1>1, <2>5, <2>7, <2>9 DEF SessionSound
  <2>14. \A r \in Sessions : session[r] = None => SessionSound(r)'
    BY <2>9, <2>13 DEF SessionSound
  <2>15. ASSUME NEW g \in Flows PROVE RequestSound(g)'
    <3>1. CASE g = f
      BY <1>1, <2>7, <3>1 DEF RequestSound
    <3>2. CASE g # f
      <4>1. Made(g)' = Made(g)
        BY <1>1, <2>5, <2>9, <3>2 DEF Made
      <4> QED
        BY <2>7, <4>1 DEF IInv, RequestSound
    <3> QED
      BY <3>1, <3>2
  <2> QED
    BY <1>2, <2>8, <2>10, <2>11, <2>12, <2>14, <2>15, CodesStay, GrowStep
<1>4. CASE ~(Parses(q) /\ Supports(f, AskedIal(q)))
  <2>1. UNCHANGED session /\ Go(t, Page("error"))
    BY <1>4 DEF Authorize
  <2>2. Page("error") \in Tab /\ PageSound(Page("error"))
    BY PlainPage
  <2> QED
    BY <1>2, <2>1, <2>2, TabStep, IdleFacts
<1> QED
  BY <1>3, <1>4

\* The code is new, and the session it is made from asks for no more.
LEMMA InsertCodeStep ==
  ASSUME IInv, NEW t \in Tabs, NEW c \in Codes, NEW claimed \in BOOLEAN,
         tab[t].at \in {"checked", "accepted"}, InsertCode(t, c, claimed)
  PROVE  IInv' /\ Grows
<1> DEFINE s == tab[t].session
           f == session[s].flow
           x == [flow |-> f, user |-> tab[t].user, ial |-> tab[t].ial, aal |-> 1,
                 acr |-> Acr(tab[t].ial, 1), usable |-> TRUE, claimed |-> claimed]
           page == WithCode("callback", f, c)
<1>1. /\ s \in Sessions /\ session[s] # None /\ tab[t].user \in Users
      /\ session[s].aal = 1 /\ session[s].ial <= tab[t].ial /\ tab[t].ial \in 1..2
  BY TabFacts DEF PageSound
<1>2. /\ f \in Flows /\ asked[f] # None
      /\ session[s].ial = AskedIal(asked[f]) /\ session[s].aal = AskedAal(asked[f])
  BY <1>1 DEF IInv, TypeOK, SessionState, SessionSound
<1>3. /\ code' = [code EXCEPT ![c] = x] /\ code[c] = None /\ Go(t, page)
      /\ UNCHANGED <<pkce, agency, login, asked, par, session, tokens, rowIal>>
  BY DEF InsertCode, agencyVars
<1>4. x \in CodeRow /\ x # None
  <2>1. Acr(tab[t].ial, 1) \in {"auth-only", "verified"} /\ 1 \in 1..2
    BY DEF Acr
  <2> HIDE DEF f, s
  <2>2. x \in CodeRow
    BY <1>1, <1>2, <2>1 DEF CodeRow
  <2> QED
    BY <2>2, NoneAssumption
<1>5. /\ x.flow = f /\ x.ial >= AskedIal(asked[f]) /\ x.aal >= AskedAal(asked[f])
      /\ x.acr = Acr(x.ial, x.aal)
  BY <1>1, <1>2, Levels
<1>6. page \in Tab
  <2> HIDE DEF f, x
  <2> QED
    BY <1>2, PageType DEF WithCode, Waiting
<1>7. /\ page.at = "callback" /\ page.flow = f /\ page.code = c /\ page.session = None
  BY DEF WithCode, Show
<1>8. f # None /\ c # None
  BY <1>2, AuthFlowAssumption
<1> HIDE DEF page, x, f, s
<1>9. /\ tab' \in [Tabs -> Tab] /\ tab'[t] = page
      /\ \A u \in Tabs \ {t} : tab'[u] = tab[u]
  BY <1>3, <1>6, Moves DEF IInv
<1>10. /\ code' \in [Codes -> CodeRow \cup {None}] /\ code'[c] = x
       /\ \A d \in Codes : d # c => code'[d] = code[d]
  BY <1>3, <1>4, CoreTypes
<1>11. TypeOK'
  BY <1>3, <1>9, <1>10 DEF IInv, TypeOK
<1>12. Grows
  BY <1>3, <1>10 DEF Grows
<1>13. TabSound(t)'
  BY <1>4, <1>7, <1>8, <1>9, <1>10 DEF TabSound, PageSound
<1>14. CodeSound(c)'
  BY <1>2, <1>3, <1>5, <1>10 DEF CodeSound
<1>15. \A d \in Codes : code[d] = None => CodeSound(d)'
  BY <1>10, <1>14 DEF CodeSound
<1> QED
  BY <1>3, <1>9, <1>11, <1>12, <1>13, <1>15, RequestsStay, SessionsStay, GrowStep

LEMMA IssueCodeStep ==
  ASSUME IInv, NEW t \in Tabs, NEW c \in Codes, IssueCode(t, c) \/ AnswerWithCode(t, c)
  PROVE  IInv' /\ Grows
BY InsertCodeStep DEF IssueCode, AnswerWithCode

LEMMA RedeemStep ==
  ASSUME IInv, NEW t \in Tabs, Redeem(t)
  PROVE  IInv' /\ Grows
<1> DEFINE c == tab[t].code
           f == tab[t].flow
<1>1. c \in Codes /\ code[c] # None /\ code[c] \in CodeRow /\ f \in Flows
  BY CodeFacts DEF Redeem
<1>2. UNCHANGED <<pkce, agency, login, asked, par, session, rowIal>>
  BY DEF Redeem, agencyVars
<1>3. CASE code[c].usable
  <2> DEFINE x == [code[c] EXCEPT !.usable = FALSE]
             page == WithCode("redeemed", f, c)
  <2>1. code' = [code EXCEPT ![c] = x] /\ tokens' = tokens \cup {c} /\ Go(t, page)
    BY <1>3 DEF Redeem
  <2>2. /\ x \in CodeRow /\ x # None
        /\ x.flow = code[c].flow /\ x.user = code[c].user /\ x.ial = code[c].ial
        /\ x.aal = code[c].aal /\ x.acr = code[c].acr /\ x.claimed = code[c].claimed
    BY <1>1, NoneAssumption DEF CodeRow
  <2>3. page \in Tab
    BY <1>1, PageType DEF WithCode, Waiting
  <2>4. /\ page.at = "redeemed" /\ page.flow = f /\ page.code = c /\ page.session = None
    BY DEF WithCode, Show
  <2>5. f # None /\ c # None
    BY <1>1, AuthFlowAssumption
  <2> HIDE DEF page, x, f, c
  <2>6. /\ tab' \in [Tabs -> Tab] /\ tab'[t] = page
        /\ \A u \in Tabs \ {t} : tab'[u] = tab[u]
    BY <2>1, <2>3, Moves DEF IInv
  <2>7. /\ code' \in [Codes -> CodeRow \cup {None}] /\ code'[c] = x
        /\ \A d \in Codes : d # c => code'[d] = code[d]
    BY <1>1, <2>1, <2>2, CoreTypes
  <2>8. TypeOK'
    BY <1>1, <1>2, <2>1, <2>6, <2>7 DEF IInv, TypeOK
  <2>9. Grows
    BY <1>2, <2>2, <2>7 DEF Grows
  <2>10. TabSound(t)'
    BY <2>2, <2>4, <2>5, <2>6, <2>7 DEF TabSound, PageSound
  <2>11. \A d \in Codes : code[d] = None => CodeSound(d)'
    BY <1>1, <2>7 DEF CodeSound
  <2> QED
    BY <1>2, <2>6, <2>8, <2>9, <2>10, <2>11, RequestsStay, SessionsStay, GrowStep
<1>4. CASE ~code[c].usable
  <2>1. UNCHANGED <<code, tokens>> /\ Go(t, Page("error"))
    BY <1>4 DEF Redeem
  <2>2. Page("error") \in Tab /\ PageSound(Page("error"))
    BY PlainPage
  <2> QED
    BY <1>2, <2>1, <2>2, TabStep, IdleFacts
<1> QED
  BY <1>3, <1>4

-----------------------------------------------------------------------------
(***************************************************************************)
(* Every step.                                                             *)
(***************************************************************************)

LEMMA AnswerStep ==
  ASSUME IInv, NEW t \in Tabs, Answer(t)
  PROVE  IInv' /\ Grows
<1>1. CASE ReadRequest(t)
  BY <1>1, ReadRequestStep
<1>2. CASE DeleteRequest(t)
  BY <1>2, DeleteRequestStep
<1>3. CASE \E s \in Sessions : Authorize(t, s)
  BY <1>3, AuthorizeStep
<1>4. CASE ShowSignIn(t)
  BY <1>4, ShowSignInStep
<1>5. CASE ShowDashboard(t)
  BY <1>5, ShowDashboardStep
<1>6. CASE ReturnToVerify(t)
  BY <1>6, ReturnToVerifyStep
<1>7. CASE PatchSession(t)
  BY <1>7, PatchSessionStep
<1>8. CASE StartComplete(t)
  BY <1>8, StartCompleteStep
<1>9. CASE CheckSession(t)
  BY <1>9, CheckSessionStep
<1>10. CASE \E c \in Codes : IssueCode(t, c) \/ AnswerWithCode(t, c)
  BY <1>10, IssueCodeStep
<1>11. CASE CheckState(t)
  BY <1>11, CheckStateStep
<1>12. CASE Redeem(t)
  BY <1>12, RedeemStep
<1>13. CASE UserInfo(t)
  BY <1>13, UserInfoStep
<1>14. CASE IdpLogout(t)
  BY <1>14, IdpLogoutStep
<1>15. CASE CheckPosted(t)
  BY <1>15, CheckPostedStep
<1> QED
  BY <1>1, <1>2, <1>3, <1>4, <1>5, <1>6, <1>7, <1>8, <1>9, <1>10, <1>11, <1>12, <1>13,
     <1>14, <1>15 DEF Answer

LEMMA ActStep ==
  ASSUME IInv, NEW t \in Tabs, Act(t)
  PROVE  IInv' /\ Grows
<1>1. CASE Home(t)
  BY <1>1, HomeStep
<1>2. CASE \E u \in Tabs \ {t} : Duplicate(t, u)
  BY <1>2, DuplicateStep
<1>3. ASSUME NEW f \in Flows, NEW q \in AcrsOf[f], Start(t, f, q) \/ Push(t, f, q)
      PROVE  IInv' /\ Grows
  BY <1>3, StartStep, PushStep
<1>4. CASE \E u \in Users :
             SignInByPassword(t, u) \/ SignInBySocial(t, u) \/ PostComplete(t, u)
  BY <1>4, PasswordStep, SocialStep, PostCompleteStep
<1>5. CASE MockVerify(t)
  BY <1>5, MockVerifyStep
<1>6. CASE \E c \in Codes : IssueCodeAfterMfa(t, c)
  BY <1>6, NoCodeAfterMfa, StutterStep
<1>7. CASE AgencyLogout(t)
  BY <1>7, AgencyLogoutStep
<1> QED
  BY <1>1, <1>2, <1>3, <1>4, <1>5, <1>6, <1>7 DEF Act

LEMMA NextStep ==
  ASSUME IInv, [Next]_vars
  PROVE  IInv' /\ Grows
<1>1. CASE UNCHANGED vars
  BY <1>1, StutterStep
<1>2. CASE LoginExpires \/ PkceExpires
  BY <1>2, CookiesExpireStep
<1>3. CASE \E f \in Flows : RequestExpires(f)
  BY <1>3, RequestExpiresStep
<1>4. CASE \E s \in Sessions : SessionExpires(s)
  BY <1>4, SessionExpiresStep
<1>5. CASE \E t \in Tabs : Answer(t) \/ Act(t)
  BY <1>5, AnswerStep, ActStep
<1> QED
  BY <1>1, <1>2, <1>3, <1>4, <1>5 DEF Next, Expire

\* Init establishes the invariant and every step keeps it.
THEOREM Invariance ==
  Spec => []IInv
<1>1. Init => IInv
  BY InitIInv
<1>2. IInv /\ [Next]_vars => IInv'
  BY NextStep
<1> QED
  BY <1>1, <1>2, PTL DEF Spec

\* Tabs, cookies, requests, sessions and codes keep their types.
THEOREM TypesHold ==
  Spec => []TypeOK
<1>1. IInv => TypeOK
  BY DEF IInv
<1> QED
  BY <1>1, Invariance, PTL

\* However a tab came to its code, whichever tabs, expiries and logouts came
\* between, the code meets what its request asked for.
THEOREM CodesMeetRequests ==
  Spec => []CodesMeetRequest
<1>1. IInv => CodesMeetRequest
  BY DEF IInv, CodeSound, CodesMeetRequest
<1> QED
  BY <1>1, Invariance, PTL

-----------------------------------------------------------------------------
(***************************************************************************)
(* A pushed request is used once.                                          *)
(***************************************************************************)

Reading(x, f) == x.at \in {"read", "resolved"} /\ x.flow = f

\* A tab starts to read a pushed request only while it is in KV.
LEMMA AnswerReads ==
  ASSUME IInv, NEW t \in Tabs, NEW u \in Tabs, NEW f \in Pushed, Answer(t),
         Reading(tab'[u], f)
  PROVE  Reading(tab[u], f) \/ par[f] = "stored"
<1>1. tab \in [Tabs -> Tab]
  BY DEF IInv, TypeOK
<1>2. CASE ReadRequest(t) \/ DeleteRequest(t)
  BY <1>1, <1>2 DEF ReadRequest, DeleteRequest, Go, Reading, WithFlow, Page, Show
<1>3. CASE \E s \in Sessions : Authorize(t, s)
  BY <1>1, <1>3 DEF Authorize, Go, Reading, WithSession, Page, Show
<1>4. CASE ShowSignIn(t) \/ ShowDashboard(t) \/ ReturnToVerify(t)
  BY <1>1, <1>4 DEF ShowSignIn, ShowDashboard, ReturnToVerify, Go, Reading, WithSession,
                    WithUser, Page, Show
<1>5. CASE PatchSession(t) \/ StartComplete(t) \/ CheckSession(t) \/ CheckPosted(t)
  BY <1>1, <1>5 DEF PatchSession, StartComplete, CheckSession, CheckPosted, Completed, Go,
                    Reading, WithSession, WithUser, Page, Show
<1>6. CASE \E c \in Codes : IssueCode(t, c) \/ AnswerWithCode(t, c)
  BY <1>1, <1>6 DEF IssueCode, AnswerWithCode, InsertCode, Go, Reading, WithCode, Show
<1>7. CASE CheckState(t) \/ Redeem(t) \/ UserInfo(t) \/ IdpLogout(t)
  BY <1>1, <1>7 DEF CheckState, Redeem, UserInfo, IdpLogout, Go, Reading, WithCode, Page, Show
<1> QED
  BY <1>2, <1>3, <1>4, <1>5, <1>6, <1>7 DEF Answer

\* A tab that reads a pushed request was already reading it.
LEMMA ActReads ==
  ASSUME IInv, NEW t \in Tabs, NEW u \in Tabs, NEW f \in Pushed, Act(t),
         Reading(tab'[u], f)
  PROVE  Reading(tab[u], f)
<1>1. tab \in [Tabs -> Tab]
  BY DEF IInv, TypeOK
<1>2. CASE Home(t) \/ AgencyLogout(t)
  BY <1>1, <1>2 DEF Home, AgencyLogout, Go, Reading, WithCode, Page, Show
<1>3. CASE \E v \in Tabs \ {t} : Duplicate(t, v)
  BY <1>1, <1>3 DEF Duplicate, Go, Reading
<1>4. ASSUME NEW g \in Flows, NEW q \in AcrsOf[g], Start(t, g, q) \/ Push(t, g, q)
      PROVE  Reading(tab[u], f)
  BY <1>1, <1>4 DEF Start, Push, Go, Reading, WithFlow, Page, Show
<1>5. CASE \E v \in Users :
             SignInByPassword(t, v) \/ SignInBySocial(t, v) \/ PostComplete(t, v)
  BY <1>1, <1>5 DEF SignInByPassword, SignInBySocial, PostComplete, Completed, Go, Reading,
                    WithSession, WithUser, Page, Show
<1>6. CASE MockVerify(t)
  BY <1>1, <1>6 DEF MockVerify, Go, Reading, WithUser, Show
<1>7. CASE \E c \in Codes : IssueCodeAfterMfa(t, c)
  BY <1>7, NoCodeAfterMfa DEF vars
<1> QED
  BY <1>2, <1>3, <1>4, <1>5, <1>6, <1>7 DEF Act

\* A session is made only by a tab that has read the request.
LEMMA MakesSession ==
  ASSUME IInv, [Next]_vars, NEW s \in Sessions, session[s] = None, session'[s] # None
  PROVE  \E t \in Tabs : tab[t].at = "resolved" /\ session'[s].flow = tab[t].flow
<1>1. session \in [Sessions -> SessionState \cup {None}]
  BY CoreTypes
<1>2. CASE UNCHANGED vars \/ Expire
  BY <1>1, <1>2 DEF vars, Expire, LoginExpires, PkceExpires, RequestExpires, SessionExpires,
                    Live, idpVars
<1>3. ASSUME NEW t \in Tabs, Act(t) PROVE FALSE
  BY <1>3 DEF Act, Home, Duplicate, Start, Push, SignInByPassword, SignInBySocial,
              MockVerify, IssueCodeAfterMfa, PostComplete, AgencyLogout, idpVars
<1>4. ASSUME NEW t \in Tabs, Answer(t)
      PROVE  tab[t].at = "resolved" /\ session'[s].flow = tab[t].flow
  <2>1. CASE \E r \in Sessions : Authorize(t, r)
    BY <1>1, <2>1 DEF Authorize
  <2>2. CASE PatchSession(t)
    BY <1>1, <2>2 DEF PatchSession, Live
  <2>3. CASE session' = session
    BY <2>3
  <2> QED
    BY <1>4, <2>1, <2>2, <2>3 DEF Answer, ReadRequest, DeleteRequest, ShowSignIn,
       ShowDashboard, ReturnToVerify, StartComplete, CheckSession, IssueCode,
       AnswerWithCode, InsertCode, CheckPosted, CheckState, Redeem, UserInfo, IdpLogout,
       idpVars
<1> QED
  BY <1>2, <1>3, <1>4 DEF Next

\* Reading a pushed request and deleting it are two calls, and tabs may be
\* duplicated in between; still, once a session was made of it and its readers
\* are through, no step of any tab makes another or reads it again.
THEOREM RequestsAreSingleUse ==
  Spec => RequestsSingleUse
<1>1. ASSUME IInv, [Next]_vars, NEW f \in Pushed, Retired(f)
      PROVE  Retired(f)' /\ Made(f)' = Made(f)
  <2>1. IInv' /\ Grows
    BY <1>1, NextStep
  <2>2. f \in Flows /\ par[f] = "gone"
    BY <1>1, AuthFlowAssumption DEF IInv, RequestSound, Retired
  <2>3. \A t \in Tabs : ~Reading(tab[t], f)
    BY <1>1 DEF Retired, Reading
  <2>4. ASSUME NEW u \in Tabs PROVE ~Reading(tab'[u], f)
    <3>1. CASE tab' = tab
      BY <2>3, <3>1
    <3>2. ASSUME NEW t \in Tabs, Answer(t) \/ Act(t) PROVE ~Reading(tab'[u], f)
      BY <1>1, <2>2, <2>3, <3>2, AnswerReads, ActReads
    <3> QED
      BY <1>1, <3>1, <3>2 DEF Next, Expire, LoginExpires, PkceExpires, RequestExpires,
                              SessionExpires, vars
  <2>5. ASSUME NEW s \in Sessions, session[s] = None, session'[s] # None
        PROVE  session'[s].flow # f
    BY <1>1, <2>3, <2>5, MakesSession DEF Reading
  <2>6. Made(f)' = Made(f)
    BY <2>1, <2>5 DEF Made, Grows
  <2>7. Retired(f)'
    BY <1>1, <2>4, <2>6 DEF Retired, Reading
  <2> QED
    BY <2>6, <2>7
<1>2. IInv /\ [Next]_vars =>
        [\A f \in Pushed : Retired(f) => Retired(f)' /\ Made(f)' = Made(f)]_vars
  BY <1>1
<1> QED
  BY <1>2, Invariance, PTL DEF Spec, RequestsSingleUse

-----------------------------------------------------------------------------
(***************************************************************************)
(* Every step is one of SignIn, or a stutter.                              *)
(***************************************************************************)

Pair(t) == <<session[tab[t].session].flow, tab[t].user>>

InCode(p, claimed) ==
  \E c \in Codes :
    code[c] # None /\ code[c].claimed = claimed /\ p = <<code[c].flow, code[c].user>>

\* The pairs are those of the tabs and those in codes.
LEMMA PairsAre ==
  ASSUME NEW claimed
  PROVE  \A p : p \in PairsOf(claimed) <=>
           (\E t \in Tabs : Completing(t, claimed) /\ p = Pair(t)) \/ InCode(p, claimed)
BY DEF PairsOf, Pair, InCode

\* The same in the next state.
LEMMA PairsBecome ==
  ASSUME NEW claimed
  PROVE  \A p : p \in PairsOf(claimed)' <=>
           (\E t \in Tabs : Completing(t, claimed)' /\ p = Pair(t)') \/ InCode(p, claimed)'
BY DEF PairsOf, Pair, InCode

NoNewCode == \A c \in Codes : code[c] = None => code'[c] = None

\* No tab comes to complete a login or ceases to, and none changes the subject.
TabsQuiet ==
  \A u \in Tabs :
    \/ tab'[u] = tab[u]
    \/ \A x \in {tab[u], tab'[u]} : x.at \notin {"known", "checked", "posted", "accepted"}

\* A tab that does not move completes for the same pair.
LEMMA PairKept ==
  ASSUME IInv, Grows, NEW u \in Tabs, tab'[u] = tab[u], NEW claimed
  PROVE  /\ Completing(u, claimed)' <=> Completing(u, claimed)
         /\ Completing(u, claimed) => Pair(u)' = Pair(u)
<1>1. Completing(u, claimed) => tab[u].session \in Sessions /\ session[tab[u].session] # None
  BY TabFacts DEF Completing, PageSound
<1> QED
  BY <1>1 DEF Completing, Pair, Grows

\* Codes keep their pairs, and without a new code no pair is added.
LEMMA CodesKept ==
  ASSUME Grows, NEW p, NEW claimed
  PROVE  /\ InCode(p, claimed) => InCode(p, claimed)'
         /\ NoNewCode => (InCode(p, claimed)' => InCode(p, claimed))
BY DEF InCode, Grows, NoNewCode

\* Quiet tabs and no new code: the pairs are the same.
LEMMA PairsKept ==
  ASSUME IInv, Grows, NoNewCode, TabsQuiet
  PROVE  vouchedOf' = vouchedOf /\ claimedOf' = claimedOf
<1>1. ASSUME NEW claimed \in BOOLEAN PROVE PairsOf(claimed)' = PairsOf(claimed)
  <2>1. ASSUME NEW u \in Tabs
        PROVE  /\ Completing(u, claimed)' <=> Completing(u, claimed)
               /\ Completing(u, claimed) => Pair(u)' = Pair(u)
    <3>1. CASE tab'[u] = tab[u]
      BY <3>1, PairKept
    <3>2. CASE tab'[u] # tab[u]
      BY <3>2 DEF TabsQuiet, Completing
    <3> QED
      BY <3>1, <3>2
  <2>2. ASSUME NEW p PROVE p \in PairsOf(claimed)' <=> p \in PairsOf(claimed)
    BY <2>1, CodesKept, PairsAre, PairsBecome
  <2> QED
    BY <2>2 DEF PairsOf
<1> QED
  BY <1>1 DEF vouchedOf, claimedOf

\* The agency has the same account while it has the same code.
LEMMA AccountKept ==
  ASSUME IInv, Grows, agency' = agency
  PROVE  accountOf' = accountOf
<1>1. agency # None => agency \in Codes /\ code[agency] # None
  BY DEF IInv, TypeOK
<1> QED
  BY <1>1 DEF accountOf, Grows

\* What most steps leave to show: they complete for nobody and move no cookie.
LEMMA QuietStep ==
  ASSUME IInv, Grows, NoNewCode, TabsQuiet, UNCHANGED <<agency, login, asked>>
  PROVE  UNCHANGED Promise!vars
BY PairsKept, AccountKept DEF Promise!vars, startedOf

\* Answers that complete for nobody stutter in the promise.
LEMMA QuietAnswer ==
  ASSUME IInv, Grows, NEW t \in Tabs,
         \/ ReadRequest(t) \/ DeleteRequest(t) \/ \E s \in Sessions : Authorize(t, s)
         \/ ShowSignIn(t) \/ ShowDashboard(t) \/ ReturnToVerify(t) \/ PatchSession(t)
         \/ CheckState(t) \/ Redeem(t)
         \/ (StartComplete(t) /\ login = None)
  PROVE  UNCHANGED Promise!vars
<1>1. tab \in [Tabs -> Tab] /\ code \in [Codes -> CodeRow \cup {None}]
  BY DEF IInv, TypeOK
<1>2. TabsQuiet
  <2>1. CASE ReadRequest(t) \/ DeleteRequest(t)
    BY <1>1, <2>1 DEF ReadRequest, DeleteRequest, Go, TabsQuiet, WithFlow, Page, Show
  <2>2. CASE \E s \in Sessions : Authorize(t, s)
    BY <1>1, <2>2 DEF Authorize, Go, TabsQuiet, WithSession, Page, Show
  <2>3. CASE ShowSignIn(t) \/ ShowDashboard(t) \/ ReturnToVerify(t)
    BY <1>1, <2>3 DEF ShowSignIn, ShowDashboard, ReturnToVerify, Go, TabsQuiet, WithSession,
                      WithUser, Page, Show
  <2>4. CASE PatchSession(t) \/ (StartComplete(t) /\ login = None)
    BY <1>1, <2>4 DEF PatchSession, StartComplete, Completed, Go, TabsQuiet, WithSession,
                      Page, Show
  <2>5. CASE CheckState(t) \/ Redeem(t)
    BY <1>1, <2>5 DEF CheckState, Redeem, Go, TabsQuiet, WithCode, Page, Show
  <2> QED
    BY <2>1, <2>2, <2>3, <2>4, <2>5
<1>3. NoNewCode
  <2>1. CASE Redeem(t)
    BY <1>1, <2>1, CodeFacts DEF Redeem, NoNewCode
  <2>2. CASE code' = code
    BY <2>2 DEF NoNewCode
  <2> QED
    BY <2>1, <2>2 DEF ReadRequest, DeleteRequest, Authorize, ShowSignIn, ShowDashboard,
       ReturnToVerify, PatchSession, CheckState, StartComplete, idpVars
<1>4. UNCHANGED <<agency, login, asked>>
  BY DEF ReadRequest, DeleteRequest, Authorize, ShowSignIn, ShowDashboard, ReturnToVerify,
         PatchSession, CheckState, Redeem, StartComplete, agencyVars
<1> QED
  BY <1>2, <1>3, <1>4, QuietStep

\* Acts of the browser that change no cookie stutter in the promise.
LEMMA QuietAct ==
  ASSUME IInv, Grows, NEW t \in Tabs,
         Home(t) \/ (\E u \in Tabs \ {t} : Duplicate(t, u)) \/ MockVerify(t)
  PROVE  UNCHANGED Promise!vars
<1>1. tab \in [Tabs -> Tab]
  BY DEF IInv, TypeOK
<1>2. TabsQuiet
  BY <1>1 DEF Home, Duplicate, MockVerify, Go, TabsQuiet, WithUser, Page, Show, Resting
<1>3. NoNewCode /\ UNCHANGED <<agency, login, asked>>
  BY DEF Home, Duplicate, MockVerify, NoNewCode, agencyVars, idpVars
<1> QED
  BY <1>2, <1>3, QuietStep

\* Records that expire stutter in the promise.
LEMMA QuietExpiry ==
  ASSUME IInv, Grows,
         \/ PkceExpires
         \/ \E f \in Flows : RequestExpires(f)
         \/ \E s \in Sessions : SessionExpires(s)
  PROVE  UNCHANGED Promise!vars
<1>1. NoNewCode /\ TabsQuiet /\ UNCHANGED <<agency, login, asked>>
  BY DEF PkceExpires, RequestExpires, SessionExpires, NoNewCode, TabsQuiet, agencyVars, idpVars
<1> QED
  BY <1>1, QuietStep

\* The agency begins.
LEMMA BeginRefines ==
  ASSUME IInv, Grows, NEW t \in Tabs, NEW f \in Flows, NEW q \in AcrsOf[f],
         Start(t, f, q) \/ Push(t, f, q)
  PROVE  Promise!Start(f)
<1>1. tab \in [Tabs -> Tab] /\ asked' = [asked EXCEPT ![f] = q] /\ q # None
  BY NoneAssumption DEF IInv, TypeOK, Start, Push
<1>2. startedOf' = startedOf \cup {f}
  BY <1>1, CoreTypes DEF startedOf
<1>3. TabsQuiet /\ NoNewCode /\ UNCHANGED <<agency, login>>
  BY <1>1 DEF Start, Push, Go, TabsQuiet, NoNewCode, WithFlow, Page, Show, idpVars
<1> QED
  BY <1>2, <1>3, PairsKept, AccountKept DEF Promise!Start

LEMMA LoginRefines ==
  ASSUME IInv, Grows, NEW t \in Tabs, NEW u \in Users,
         SignInByPassword(t, u) \/ SignInBySocial(t, u)
  PROVE  Promise!LogIn(u)
<1>1. tab \in [Tabs -> Tab]
  BY DEF IInv, TypeOK
<1>2. TabsQuiet
  BY <1>1 DEF SignInByPassword, SignInBySocial, Completed, Go, TabsQuiet, WithSession,
              WithUser, Page, Show
<1>3. NoNewCode /\ login' = u /\ UNCHANGED <<agency, asked>>
  BY DEF SignInByPassword, SignInBySocial, NoNewCode, agencyVars, idpVars
<1> QED
  BY <1>2, <1>3, PairsKept, AccountKept DEF Promise!LogIn, startedOf

LEMMA LogoutRefines ==
  ASSUME IInv, Grows, LoginExpires \/ \E t \in Tabs : IdpLogout(t)
  PROVE  Promise!LogOut
<1>1. tab \in [Tabs -> Tab]
  BY DEF IInv, TypeOK
<1>2. TabsQuiet
  BY <1>1 DEF LoginExpires, IdpLogout, Go, TabsQuiet, Page, Show
<1>3. NoNewCode /\ login' = None /\ UNCHANGED <<agency, asked>>
  BY DEF LoginExpires, IdpLogout, NoNewCode, agencyVars, idpVars
<1> QED
  BY <1>2, <1>3, PairsKept, AccountKept DEF Promise!LogOut, startedOf

LEMMA LeaveRefines ==
  ASSUME IInv, Grows, NEW t \in Tabs, AgencyLogout(t)
  PROVE  Promise!Leave
<1>1. tab \in [Tabs -> Tab]
  BY DEF IInv, TypeOK
<1>2. TabsQuiet
  BY <1>1 DEF AgencyLogout, Go, TabsQuiet, WithCode, Show
<1>3. NoNewCode /\ agency' = None /\ UNCHANGED <<login, asked>>
  BY DEF AgencyLogout, NoNewCode, idpVars
<1>4. accountOf' = None
  BY <1>3 DEF accountOf
<1> QED
  BY <1>2, <1>3, <1>4, PairsKept DEF Promise!Leave, startedOf

\* What the others complete stays when one tab moves.
LEMMA MoverDecides ==
  ASSUME IInv, Grows, NEW t \in Tabs, \A u \in Tabs \ {t} : tab'[u] = tab[u],
         NEW claimed, NEW p
  PROVE  /\ p \in PairsOf(claimed) =>
              p \in PairsOf(claimed)' \/ (Completing(t, claimed) /\ p = Pair(t))
         /\ Completing(t, claimed)' /\ p = Pair(t)' => p \in PairsOf(claimed)'
         /\ NoNewCode => (p \in PairsOf(claimed)' =>
              p \in PairsOf(claimed) \/ (Completing(t, claimed)' /\ p = Pair(t)'))
<1>1. ASSUME NEW u \in Tabs, u # t
      PROVE  /\ Completing(u, claimed)' <=> Completing(u, claimed)
             /\ Completing(u, claimed) => Pair(u)' = Pair(u)
  BY <1>1, PairKept
<1> QED
  BY <1>1, CodesKept, PairsAre, PairsBecome

\* A tab that completes no login of one kind, before and after, leaves those be.
LEMMA OtherKind ==
  ASSUME IInv, Grows, NoNewCode, NEW t \in Tabs, \A u \in Tabs \ {t} : tab'[u] = tab[u],
         NEW claimed, ~Completing(t, claimed), ~Completing(t, claimed)'
  PROVE  PairsOf(claimed)' = PairsOf(claimed)
<1>1. ASSUME NEW p PROVE p \in PairsOf(claimed)' <=> p \in PairsOf(claimed)
  BY MoverDecides
<1> QED
  BY <1>1 DEF PairsOf

\* A tab sets out to complete its request for a user: one pair more.
LEMMA SetsOut ==
  ASSUME IInv, Grows, NEW t \in Tabs, NEW u \in Users, NEW claimed \in BOOLEAN,
         tab[t].at \in {"complete", "signIn"}, tab[t].session # None,
         Go(t, WithUser(IF claimed THEN "posted" ELSE "known", tab[t].session, u, 1)),
         UNCHANGED <<session, code>>
  PROVE  LET f == session[tab[t].session].flow IN
         /\ f \in Flows /\ asked[f] # None
         /\ PairsOf(claimed)' = PairsOf(claimed) \cup {<<f, u>>}
         /\ PairsOf(~claimed)' = PairsOf(~claimed)
<1> DEFINE s == tab[t].session
           f == session[s].flow
           page == WithUser(IF claimed THEN "posted" ELSE "known", s, u, 1)
<1>1. s \in Sessions /\ session[s] # None /\ f \in Flows /\ asked[f] # None
  BY TabFacts DEF PageSound, IInv, TypeOK, SessionState, SessionSound
<1>2. page \in Tab
  BY <1>1, PageType DEF WithUser, Waiting
<1>3. /\ tab'[t] = page
      /\ \A v \in Tabs \ {t} : tab'[v] = tab[v]
  BY <1>2, Moves DEF IInv
<1>4. /\ page.at = IF claimed THEN "posted" ELSE "known"
      /\ page.session = s /\ page.user = u
  BY DEF WithUser, Show
<1>5. NoNewCode
  BY DEF NoNewCode
<1>6. ~Completing(t, claimed) /\ ~Completing(t, ~claimed)
  BY DEF Completing
<1> HIDE DEF page
<1>7. Completing(t, claimed)' /\ ~Completing(t, ~claimed)'
  BY <1>3, <1>4 DEF Completing
<1>8. Pair(t)' = <<f, u>>
  BY <1>3, <1>4 DEF Pair
<1> HIDE DEF f, s
<1>9. ASSUME NEW p PROVE p \in PairsOf(claimed)' <=> p \in PairsOf(claimed) \/ p = <<f, u>>
  BY <1>3, <1>5, <1>6, <1>7, <1>8, MoverDecides
<1>10. PairsOf(claimed)' = PairsOf(claimed) \cup {<<f, u>>}
  BY <1>9 DEF PairsOf
<1>11. PairsOf(~claimed)' = PairsOf(~claimed)
  BY <1>3, <1>5, <1>6, <1>7, OtherKind
<1> QED
  BY <1>1, <1>10, <1>11 DEF f, s

\* complete-login has read the login: the provider vouches for that user.
LEMMA VouchRefines ==
  ASSUME IInv, Grows, NEW t \in Tabs, StartComplete(t), login # None
  PROVE  \E f \in Flows : Promise!Vouch(f)
<1> DEFINE f == session[tab[t].session].flow
<1>1. /\ Go(t, WithUser("known", tab[t].session, login, 1))
      /\ UNCHANGED <<agency, login, asked, session, code>>
  BY DEF StartComplete, agencyVars
<1>2. login \in Users /\ tab[t].session # None /\ tab[t].at = "complete"
  BY IdleFacts, TabFacts DEF StartComplete, PageSound
<1>3. /\ f \in Flows /\ asked[f] # None
      /\ vouchedOf' = vouchedOf \cup {<<f, login>>}
      /\ claimedOf' = claimedOf
  BY <1>1, <1>2, SetsOut DEF vouchedOf, claimedOf
<1>4. f \in startedOf /\ startedOf' = startedOf
  BY <1>1, <1>3 DEF startedOf
<1> HIDE DEF f
<1> QED
  BY <1>1, <1>2, <1>3, <1>4, AccountKept DEF Promise!Vouch

\* The POST to complete-login names a user: a claim.
LEMMA ClaimRefines ==
  ASSUME IInv, Grows, NEW t \in Tabs, NEW u \in Users, PostComplete(t, u)
  PROVE  \E f \in Flows : Promise!Claim(f, u)
<1> DEFINE f == session[tab[t].session].flow
<1>1. /\ Go(t, WithUser("posted", tab[t].session, u, 1))
      /\ UNCHANGED <<agency, login, asked, session, code>>
  BY DEF PostComplete, agencyVars
<1>2. tab[t].session # None /\ tab[t].at = "signIn"
  BY DEF PostComplete
<1>3. /\ f \in Flows /\ asked[f] # None
      /\ claimedOf' = claimedOf \cup {<<f, u>>}
      /\ vouchedOf' = vouchedOf
  BY <1>1, <1>2, SetsOut DEF vouchedOf, claimedOf
<1>4. f \in startedOf /\ startedOf' = startedOf
  BY <1>1, <1>3 DEF startedOf
<1> HIDE DEF f
<1> QED
  BY <1>1, <1>3, <1>4, AccountKept DEF Promise!Claim

\* The session is looked at: the tab completes on, or its pair may go.
LEMMA ChecksPair ==
  ASSUME IInv, Grows, NEW t \in Tabs, NEW claimed \in BOOLEAN,
         tab[t].at = IF claimed THEN "posted" ELSE "known",
         CheckSession(t) \/ CheckPosted(t)
  PROVE  LET f == session[tab[t].session].flow
             u == tab[t].user IN
         /\ f \in Flows /\ u \in Users
         /\ PairsOf(claimed)' \in {PairsOf(claimed), PairsOf(claimed) \ {<<f, u>>}}
         /\ PairsOf(~claimed)' = PairsOf(~claimed)
<1> DEFINE s == tab[t].session
           f == session[s].flow
           u == tab[t].user
<1>1. UNCHANGED <<session, code>>
  BY DEF CheckSession, CheckPosted, idpVars
<1>2. s \in Sessions /\ session[s] # None /\ u \in Users /\ f \in Flows
  BY TabFacts DEF PageSound, IInv, TypeOK, SessionState
<1>3. tab \in [Tabs -> Tab]
  BY DEF IInv, TypeOK
<1>4. \A v \in Tabs \ {t} : tab'[v] = tab[v]
  BY <1>3 DEF CheckSession, CheckPosted, Go
<1>5. /\ Completing(t, claimed) /\ ~Completing(t, ~claimed) /\ Pair(t) = <<f, u>>
  BY DEF Completing, Pair
<1>6. /\ Completing(t, claimed)' => Pair(t)' = <<f, u>>
      /\ ~Completing(t, ~claimed)'
  BY <1>1, <1>3 DEF CheckSession, CheckPosted, Go, Completing, Pair, WithUser, WithSession,
                    Page, Show
<1>7. NoNewCode
  BY <1>1 DEF NoNewCode
<1> HIDE DEF f, u, s
<1>8. ASSUME NEW p
      PROVE  /\ p \in PairsOf(claimed)' => p \in PairsOf(claimed)
             /\ p \in PairsOf(claimed) /\ p # <<f, u>> => p \in PairsOf(claimed)'
  BY <1>4, <1>5, <1>6, <1>7, MoverDecides, PairsAre
<1>9. ASSUME <<f, u>> \in PairsOf(claimed)'
      PROVE  PairsOf(claimed)' = PairsOf(claimed)
  BY <1>8, <1>9 DEF PairsOf
<1>10. ASSUME <<f, u>> \notin PairsOf(claimed)'
       PROVE  PairsOf(claimed)' = PairsOf(claimed) \ {<<f, u>>}
  <2>1. ASSUME NEW p
        PROVE  p \in PairsOf(claimed)' <=> p \in PairsOf(claimed) \ {<<f, u>>}
    BY <1>8, <1>10
  <2> QED
    BY <2>1 DEF PairsOf
<1>11. PairsOf(claimed)' \in {PairsOf(claimed), PairsOf(claimed) \ {<<f, u>>}}
  BY <1>9, <1>10
<1>12. PairsOf(~claimed)' = PairsOf(~claimed)
  BY <1>4, <1>5, <1>6, <1>7, OtherKind
<1> QED
  BY <1>2, <1>11, <1>12 DEF f, u, s

\* The session does not let the login through, or the tab vouches on; likewise
\* for a claim.
LEMMA CheckRefines ==
  ASSUME IInv, Grows, NEW t \in Tabs, CheckSession(t) \/ CheckPosted(t)
  PROVE  \/ UNCHANGED Promise!vars
         \/ \E f \in Flows, u \in Users : Promise!Withdraw(f, u) \/ Promise!Disclaim(f, u)
<1> DEFINE f == session[tab[t].session].flow
           u == tab[t].user
<1>1. UNCHANGED <<agency, login, asked>>
  BY DEF CheckSession, CheckPosted, agencyVars, idpVars
<1>2. UNCHANGED <<login, startedOf, accountOf>>
  BY <1>1, AccountKept DEF startedOf
<1>3. CASE CheckSession(t)
  <2>1. /\ f \in Flows /\ u \in Users
        /\ vouchedOf' \in {vouchedOf, vouchedOf \ {<<f, u>>}}
        /\ claimedOf' = claimedOf
    BY <1>3, ChecksPair DEF CheckSession, vouchedOf, claimedOf
  <2> HIDE DEF f, u
  <2> QED
    BY <1>2, <2>1 DEF Promise!Withdraw, Promise!vars
<1>4. CASE CheckPosted(t)
  <2>1. /\ f \in Flows /\ u \in Users
        /\ claimedOf' \in {claimedOf, claimedOf \ {<<f, u>>}}
        /\ vouchedOf' = vouchedOf
    BY <1>4, ChecksPair DEF CheckPosted, vouchedOf, claimedOf
  <2> HIDE DEF f, u
  <2> QED
    BY <1>2, <2>1 DEF Promise!Disclaim, Promise!vars
<1> QED
  BY <1>3, <1>4

\* The code takes over the pair of its tab.
LEMMA IssueRefines ==
  ASSUME IInv, Grows, NEW t \in Tabs, NEW c \in Codes, NEW claimed \in BOOLEAN,
         tab[t].at = IF claimed THEN "accepted" ELSE "checked", InsertCode(t, c, claimed)
  PROVE  UNCHANGED Promise!vars
<1> DEFINE s == tab[t].session
           f == session[s].flow
           u == tab[t].user
           x == [flow |-> f, user |-> u, ial |-> tab[t].ial, aal |-> 1,
                 acr |-> Acr(tab[t].ial, 1), usable |-> TRUE, claimed |-> claimed]
<1>1. UNCHANGED <<agency, login, asked>> /\ code[c] = None
  BY DEF InsertCode, agencyVars
<1>2. tab \in [Tabs -> Tab] /\ code \in [Codes -> CodeRow \cup {None}]
  BY DEF IInv, TypeOK
<1>3. \A v \in Tabs \ {t} : tab'[v] = tab[v]
  BY <1>2 DEF InsertCode, Go
<1>4. Completing(t, claimed) /\ ~Completing(t, ~claimed) /\ Pair(t) = <<f, u>>
  BY DEF Completing, Pair
<1>5. ~Completing(t, claimed)' /\ ~Completing(t, ~claimed)'
  BY <1>2 DEF InsertCode, Go, Completing, WithCode, Show
<1>6. code' = [code EXCEPT ![c] = x]
  BY DEF InsertCode
<1>7. x.flow = f /\ x.user = u /\ x.claimed = claimed
  OBVIOUS
<1>8. IInv' /\ code'[c] = x
  BY <1>2, <1>6, InsertCodeStep
<1>9. x # None
  <2>1. tab'[t].at = "callback" /\ tab'[t].code = c /\ c # None
    BY <1>2, AuthFlowAssumption DEF InsertCode, Go, WithCode, Show
  <2>2. TabSound(t)'
    BY <1>8 DEF IInv
  <2> HIDE DEF x
  <2> QED
    BY <1>8, <2>1, <2>2 DEF TabSound, PageSound
<1> HIDE DEF x
<1>10. \A d \in Codes : d # c => code'[d] = code[d]
  BY <1>2, <1>6
<1> HIDE DEF f, u, s
<1>11. ASSUME NEW p
       PROVE  /\ InCode(p, claimed)' <=> InCode(p, claimed) \/ p = <<f, u>>
              /\ InCode(p, ~claimed)' <=> InCode(p, ~claimed)
  BY <1>1, <1>7, <1>8, <1>9, <1>10 DEF InCode
<1>12. ASSUME NEW v \in Tabs, v # t, NEW k
       PROVE  /\ Completing(v, k)' <=> Completing(v, k)
              /\ Completing(v, k) => Pair(v)' = Pair(v)
  BY <1>3, <1>12, PairKept
<1>13. ASSUME NEW p
       PROVE  /\ p \in PairsOf(claimed)' <=> p \in PairsOf(claimed)
              /\ p \in PairsOf(~claimed)' <=> p \in PairsOf(~claimed)
  BY <1>4, <1>5, <1>11, <1>12, PairsAre, PairsBecome
<1>14. PairsOf(claimed)' = PairsOf(claimed) /\ PairsOf(~claimed)' = PairsOf(~claimed)
  BY <1>13 DEF PairsOf
<1>15. vouchedOf' = vouchedOf /\ claimedOf' = claimedOf
  BY <1>14 DEF vouchedOf, claimedOf
<1> QED
  BY <1>1, <1>15, AccountKept DEF Promise!vars, startedOf

\* The agency has the userinfo of its token: it takes the user in.
LEMMA AcceptRefines ==
  ASSUME IInv, Grows, NEW t \in Tabs, UserInfo(t)
  PROVE  UNCHANGED Promise!vars \/ \E f \in Flows, u \in Users : Promise!Accept(f, u)
<1> DEFINE c == tab[t].code
<1>1. c \in Codes /\ code[c] # None /\ code[c].flow \in Flows /\ code[c].user \in Users
  BY CodeFacts DEF UserInfo, CodeRow
<1>2. NoNewCode /\ UNCHANGED <<login, asked, code>>
  BY DEF UserInfo, NoNewCode, idpVars
<1>3. tab \in [Tabs -> Tab]
  BY DEF IInv, TypeOK
<1>4. TabsQuiet
  BY <1>3 DEF UserInfo, Go, TabsQuiet, Page, Show
<1>5. vouchedOf' = vouchedOf /\ claimedOf' = claimedOf /\ startedOf' = startedOf
  BY <1>2, <1>4, PairsKept DEF startedOf
<1>6. CASE agency' = agency
  BY <1>2, <1>5, <1>6, AccountKept DEF Promise!vars
<1>7. CASE agency' = c
  <2>1. c # None
    BY <1>1, AuthFlowAssumption
  <2>2. accountOf' = <<code[c].flow, code[c].user>>
    BY <1>2, <1>7, <2>1 DEF accountOf
  <2>3. <<code[c].flow, code[c].user>> \in vouchedOf \cup claimedOf
    <3>1. code[c].claimed \in BOOLEAN
      BY <1>1, CoreTypes DEF CodeRow
    <3>2. <<code[c].flow, code[c].user>> \in PairsOf(code[c].claimed)
      BY <1>1 DEF PairsOf
    <3> QED
      BY <3>1, <3>2 DEF vouchedOf, claimedOf
  <2> QED
    BY <1>1, <1>2, <1>5, <2>2, <2>3 DEF Promise!Accept
<1> QED
  BY <1>6, <1>7 DEF UserInfo, agencyVars

LEMMA InitRefines ==
  Init => Promise!Init
<1> SUFFICES ASSUME Init PROVE Promise!Init
  OBVIOUS
<1>1. startedOf = {}
  BY DEF Init, startedOf
<1>2. /\ \A t \in Tabs : ~Completing(t, TRUE) /\ ~Completing(t, FALSE)
      /\ \A c \in Codes : code[c] = None
  BY DEF Init, Completing, Page, Show
<1>3. vouchedOf = {} /\ claimedOf = {}
  BY <1>2 DEF vouchedOf, claimedOf, PairsOf
<1> QED
  BY <1>1, <1>3 DEF Init, Promise!Init, accountOf

LEMMA NextRefines ==
  ASSUME IInv, [Next]_vars
  PROVE  [Promise!Next]_(Promise!vars)
<1>0. Grows
  BY NextStep
<1>1. CASE UNCHANGED vars
  BY <1>1 DEF vars, Promise!vars, startedOf, vouchedOf, claimedOf, PairsOf, Completing, accountOf
<1>2. CASE Expire
  BY <1>0, <1>2, LogoutRefines, QuietExpiry DEF Expire, Promise!Next
<1>3. ASSUME NEW t \in Tabs, Answer(t)
      PROVE  [Promise!Next]_(Promise!vars)
  <2>1. CASE StartComplete(t) /\ login # None
    BY <1>0, <2>1, VouchRefines DEF Promise!Next
  <2>2. CASE CheckSession(t) \/ CheckPosted(t)
    BY <1>0, <2>2, CheckRefines DEF Promise!Next
  <2>3. CASE \E c \in Codes : IssueCode(t, c) \/ AnswerWithCode(t, c)
    BY <1>0, <2>3, IssueRefines DEF IssueCode, AnswerWithCode
  <2>4. CASE UserInfo(t)
    BY <1>0, <2>4, AcceptRefines DEF Promise!Next
  <2>5. CASE IdpLogout(t)
    BY <1>0, <2>5, LogoutRefines DEF Promise!Next
  <2> QED
    BY <1>0, <1>3, <2>1, <2>2, <2>3, <2>4, <2>5, QuietAnswer DEF Answer
<1>4. ASSUME NEW t \in Tabs, Act(t)
      PROVE  [Promise!Next]_(Promise!vars)
  <2>1. ASSUME NEW f \in Flows, NEW q \in AcrsOf[f], Start(t, f, q) \/ Push(t, f, q)
        PROVE  [Promise!Next]_(Promise!vars)
    BY <1>0, <2>1, BeginRefines DEF Promise!Next
  <2>2. CASE \E u \in Users : SignInByPassword(t, u) \/ SignInBySocial(t, u)
    BY <1>0, <2>2, LoginRefines DEF Promise!Next
  <2>3. CASE \E c \in Codes : IssueCodeAfterMfa(t, c)
    BY <2>3, <1>1, NoCodeAfterMfa
  <2>4. CASE AgencyLogout(t)
    BY <1>0, <2>4, LeaveRefines DEF Promise!Next
  <2>5. CASE \E u \in Users : PostComplete(t, u)
    BY <1>0, <2>5, ClaimRefines DEF Promise!Next
  <2> QED
    BY <1>0, <1>4, <2>1, <2>2, <2>3, <2>4, <2>5, QuietAct DEF Act
<1> QED
  BY <1>1, <1>2, <1>3, <1>4 DEF Next

\* The agency acts only on a user who was logged in when complete-login read
\* the login, or whom a POST to complete-login named, and only for a request it
\* made itself, in every interleaving of any number of tabs with logouts and
\* expiries.
THEOREM FlowRefinesSignIn ==
  Spec => ImplementsSignIn
<1>1. Init /\ [][Next]_vars /\ []IInv => Promise!Init /\ [][Promise!Next]_(Promise!vars)
  BY InitRefines, NextRefines, PTL
<1> QED
  BY <1>1, Invariance, PTL DEF Spec, ImplementsSignIn, Promise!Spec
-----------------------------------------------------------------------------
(***************************************************************************)
(* What the refinement tells the agency.                                   *)
(***************************************************************************)

\* Users are vouched for and claimed only in attempts that were begun.
PairsBegun == \A p \in vouchedOf \cup claimedOf : p[1] \in startedOf

LEMMA PairsBegunStep ==
  ASSUME PairsBegun, [Promise!Next]_(Promise!vars)
  PROVE  PairsBegun'
<1>1. ASSUME NEW f \in Flows, Promise!Start(f) \/ Promise!Vouch(f)
      PROVE  PairsBegun'
  BY <1>1 DEF Promise!Start, Promise!Vouch, PairsBegun
<1>2. ASSUME NEW f \in Flows, NEW u \in Users,
             \/ Promise!Claim(f, u) \/ Promise!Withdraw(f, u) \/ Promise!Disclaim(f, u)
             \/ Promise!Accept(f, u)
      PROVE  PairsBegun'
  BY <1>2 DEF Promise!Claim, Promise!Withdraw, Promise!Disclaim, Promise!Accept, PairsBegun
<1>3. ASSUME UNCHANGED <<startedOf, vouchedOf, claimedOf>>
      PROVE  PairsBegun'
  BY <1>3 DEF PairsBegun
<1> QED
  BY <1>1, <1>2, <1>3
     DEF Promise!Next, Promise!vars, Promise!LogIn, Promise!LogOut, Promise!Leave

\* The agency takes an account only from a pair that is vouched for or claimed.
LEMMA AccountHasGround ==
  ASSUME PairsBegun, [Promise!Next]_(Promise!vars), accountOf' \notin {None, accountOf}
  PROVE  accountOf' \in vouchedOf \cup claimedOf /\ accountOf'[1] \in startedOf
<1>1. PICK f \in Flows, u \in Users : Promise!Accept(f, u)
  BY DEF Promise!Next, Promise!vars, Promise!Start, Promise!Vouch, Promise!LogIn,
         Promise!LogOut, Promise!Leave, Promise!Claim, Promise!Withdraw, Promise!Disclaim
<1> QED
  BY <1>1 DEF Promise!Accept, PairsBegun

\* Whenever the agency comes to act on a user, the provider vouched for that
\* very user, having read the login, or a POST to complete-login named that
\* user, in an attempt the agency had begun: no mixing of tabs, codes and
\* callbacks makes it act on another (demo-agency, auth-flow.ts).
THEOREM AccountsHaveGround ==
  Spec => [][accountOf' \notin {None, accountOf} =>
               /\ accountOf' \in vouchedOf \cup claimedOf
               /\ accountOf'[1] \in startedOf]_vars
<1>1. Init => PairsBegun
  BY InitRefines DEF Promise!Init, PairsBegun
<1>2. IInv /\ PairsBegun /\ [Next]_vars => PairsBegun'
  BY NextRefines, PairsBegunStep
<1>3. IInv /\ PairsBegun /\ [Next]_vars =>
        [accountOf' \notin {None, accountOf} =>
           /\ accountOf' \in vouchedOf \cup claimedOf
           /\ accountOf'[1] \in startedOf]_vars
  BY NextRefines, AccountHasGround
<1> QED
  BY <1>1, <1>2, <1>3, Invariance, PTL DEF Spec
=============================================================================
