------------------------- MODULE TokenExchangeProofs -------------------------
(***************************************************************************)
(* Theorems about TokenExchange, for any number of requests, codes,        *)
(* providers and assertions and any lifetime of a code: its type           *)
(* invariant, the single use of a code, what a token is bound to, and that *)
(* every step of the exchange is a step of SingleUseGrant or a stutter.    *)
(***************************************************************************)
EXTENDS TokenExchange, TLAPS

(***************************************************************************)
(* The inductive invariant.  SingleUse alone is not inductive: a second    *)
(* request could claim the code of a holder whose row is still live, or    *)
(* put a token after a first one whose exchange was refused.               *)
(***************************************************************************)

\* Whoever holds a code holds a claimed one.
HoldersBurn == \A t \in Requests : step[t] \in Holds => row[CodeOf(t)] \in {"used", "gone"}

\* What CheckCode found stays true of the request.
CheckedStaysChecked ==
  \A t \in Requests : step[t] \in {"bound", "issued", "answered"}
    => ClientOf(t) = SpOf[CodeOf(t)] /\ body[t].proof

\* The requests with a token are those that got that far.
IssuedStepped ==
  \A t \in Requests :
    /\ step[t] \in {"issued", "answered"} => t \in issued
    /\ t \in issued => step[t] \in {"issued", "answered", "refused"}

\* Only a request with an assertion reads and records a jti.
OnlyAssertionsLookedUp ==
  \A t \in Requests : step[t] \in {"received", "unseen"} => body[t].auth \in Assertions

IInv ==
  /\ TypeOK
  /\ SingleUse
  /\ TokenBound
  /\ HoldersBurn
  /\ CheckedStaysChecked
  /\ IssuedStepped
  /\ OnlyAssertionsLookedUp

\* The invariant holds before any request.
LEMMA InitIInv == Init => IInv
BY TokenExchangeAssumption
   DEF Init, IInv, TypeOK, SingleUse, TokenBound, HoldersBurn,
       CheckedStaysChecked, IssuedStepped, OnlyAssertionsLookedUp, Holds, Pending

\* Actions that move one request along without touching rows or tokens.
\* A request may stop holding its code, but none starts to hold one.
LEMMA StepOnly ==
  ASSUME IInv, NEW t \in Requests, NEW s \in {"idle", "answered", "refused"} \cup Pending,
         GoTo(t, s), UNCHANGED <<row, left, body, issued>>,
         jtis' \in SUBSET Assertions,
         s \in Holds => step[t] \in Holds,
         s \in {"bound", "issued", "answered"}
           => ClientOf(t) = SpOf[CodeOf(t)] /\ body[t].proof,
         s \in {"issued", "answered"} => t \in issued,
         t \in issued => s \in {"answered", "refused"},
         s \in {"received", "unseen"} => body[t].auth \in Assertions
  PROVE  IInv'
<1> USE DEF IInv, GoTo, CodeOf
<1>1. TypeOK'
  BY DEF TypeOK
<1>2. SingleUse'
  BY DEF TypeOK, SingleUse
<1>3. TokenBound'
  BY DEF TypeOK, TokenBound, ClientOf
<1>4. HoldersBurn'
  BY DEF TypeOK, HoldersBurn
<1>5. CheckedStaysChecked'
  BY DEF TypeOK, CheckedStaysChecked, ClientOf
<1>6. IssuedStepped'
  BY DEF TypeOK, IssuedStepped
<1>7. OnlyAssertionsLookedUp'
  BY DEF TypeOK, OnlyAssertionsLookedUp
<1> QED
  BY <1>1, <1>2, <1>3, <1>4, <1>5, <1>6, <1>7

\* Claiming a code: no one else can hold it, for its row was still live.
LEMMA ClaimIInv ==
  ASSUME IInv, NEW t \in Requests, Claim(t)
  PROVE  IInv'
<1> USE DEF IInv
<1>1. CASE ~Claimable(CodeOf(t))
  BY <1>1, StepOnly DEF Claim, TypeOK, GoTo, Holds, IssuedStepped
<1>2. CASE Claimable(CodeOf(t))
  <2> USE <1>2 DEF Claim, Claimable, GoTo, CodeOf
  <2>1. TypeOK'
    BY DEF TypeOK, Body, Pending
  <2>2. SingleUse'
    BY DEF TypeOK, Body, SingleUse, HoldersBurn
  <2>3. TokenBound'
    BY DEF TypeOK, TokenBound, ClientOf
  <2>4. HoldersBurn'
    BY DEF TypeOK, Body, HoldersBurn
  <2>5. CheckedStaysChecked'
    BY DEF TypeOK, CheckedStaysChecked, ClientOf
  <2>6. IssuedStepped'
    BY DEF TypeOK, IssuedStepped
  <2>7. OnlyAssertionsLookedUp'
    BY DEF TypeOK, OnlyAssertionsLookedUp
  <2> QED
    BY <2>1, <2>2, <2>3, <2>4, <2>5, <2>6, <2>7
<1> QED
  BY <1>1, <1>2

\* Putting a token: the request holds the code, so nobody else has put one.
LEMMA IssueTokenIInv ==
  ASSUME IInv, NEW t \in Requests, IssueToken(t)
  PROVE  IInv'
<1> USE DEF IInv, IssueToken, GoTo, CodeOf
<1>1. TypeOK'
  BY DEF TypeOK, Pending
<1>2. SingleUse'
  BY DEF TypeOK, SingleUse, HoldersBurn, Holds
<1>3. TokenBound'
  BY DEF TypeOK, TokenBound, CheckedStaysChecked, ClientOf
<1>4. HoldersBurn'
  BY DEF TypeOK, HoldersBurn, Holds
<1>5. CheckedStaysChecked'
  BY DEF TypeOK, CheckedStaysChecked, ClientOf
<1>6. IssuedStepped'
  BY DEF TypeOK, IssuedStepped
<1>7. OnlyAssertionsLookedUp'
  BY DEF TypeOK, OnlyAssertionsLookedUp
<1> QED
  BY <1>1, <1>2, <1>3, <1>4, <1>5, <1>6, <1>7

\* Rows come, age and go without a request noticing: the codes that are
\* claimed stay claimed or are deleted.
LEMMA RowsIInv ==
  ASSUME IInv, UNCHANGED <<step, body, issued>>,
         row' \in [Codes -> {"none", "live", "used", "gone"}],
         left' \in [Codes -> -1..CodeTtl],
         jtis' \in SUBSET Assertions,
         \A c \in Codes : row[c] \in {"used", "gone"} => row'[c] \in {"used", "gone"}
  PROVE  IInv'
<1> USE DEF IInv, CodeOf
<1>1. TypeOK'
  BY DEF TypeOK
<1>2. SingleUse'
  BY DEF TypeOK, Body, SingleUse
<1>3. TokenBound'
  BY DEF TypeOK, TokenBound, ClientOf
<1>4. HoldersBurn'
  BY DEF TypeOK, Body, HoldersBurn
<1>5. CheckedStaysChecked'
  BY DEF TypeOK, CheckedStaysChecked, ClientOf
<1>6. IssuedStepped'
  BY DEF TypeOK, IssuedStepped
<1>7. OnlyAssertionsLookedUp'
  BY DEF TypeOK, OnlyAssertionsLookedUp
<1> QED
  BY <1>1, <1>2, <1>3, <1>4, <1>5, <1>6, <1>7

\* Every step preserves the invariant.
LEMMA NextIInv == IInv /\ [Next]_vars => IInv'
<1> SUFFICES ASSUME IInv, [Next]_vars PROVE IInv'
  OBVIOUS
<1> USE DEF IInv
<1>1. ASSUME NEW c \in Codes, InsertCode(c) PROVE IInv'
  BY <1>1, RowsIInv, TokenExchangeAssumption DEF InsertCode, TypeOK
<1>2. ASSUME NEW t \in Requests, Receive(t) PROVE IInv'
  BY <1>2, StepOnly DEF Receive, TypeOK, Body, Pending, Holds, IssuedStepped
<1>3. ASSUME NEW t \in Requests, Progress(t) PROVE IInv'
  <2> USE DEF TypeOK, Pending, Holds
  <2>1. CASE CheckJti(t)
    BY <2>1, StepOnly DEF CheckJti, IssuedStepped, OnlyAssertionsLookedUp
  <2>2. CASE RecordJti(t)
    BY <2>2, StepOnly DEF RecordJti, IssuedStepped, OnlyAssertionsLookedUp
  <2>3. CASE Claim(t)
    BY <2>3, ClaimIInv
  <2>4. CASE CheckCode(t)
    BY <2>4, StepOnly DEF CheckCode, Redeemable, IssuedStepped
  <2>5. CASE IssueToken(t)
    BY <2>5, IssueTokenIInv
  <2>6. CASE Answer(t)
    BY <2>6, StepOnly DEF Answer, IssuedStepped, CheckedStaysChecked
  <2>7. CASE Abort(t)
    BY <2>7, StepOnly DEF Abort, IssuedStepped
  <2> QED
    BY <1>3, <2>1, <2>2, <2>3, <2>4, <2>5, <2>6, <2>7 DEF Progress
<1>4. ASSUME NEW a \in Assertions, JtiExpires(a) PROVE IInv'
  BY <1>4, RowsIInv DEF JtiExpires, TypeOK
<1>5. CASE CleanupCron
  BY <1>5, RowsIInv DEF CleanupCron, PurgedByCron, Stale, TypeOK
<1>6. CASE Tick
  BY <1>6, RowsIInv, TokenExchangeAssumption DEF Tick, TypeOK
<1>7. CASE UNCHANGED vars
  BY <1>7, RowsIInv DEF vars, TypeOK
<1> QED
  BY <1>1, <1>2, <1>3, <1>4, <1>5, <1>6, <1>7 DEF Next
-----------------------------------------------------------------------------
LEMMA Invariance == Spec => []IInv
BY InitIInv, NextIInv, PTL DEF Spec

\* Every variable of the exchange keeps its type, however requests, cron and
\* expiry interleave.
THEOREM TypeCorrect == Spec => []TypeOK
BY Invariance, PTL DEF IInv

\* The claim by UPDATE ... WHERE usedAt IS NULL makes a code single-use among
\* any number of concurrent and repeated requests, and a code that yielded a
\* token stays burned whatever fails after that.
THEOREM CodesAreSingleUse == Spec => []SingleUse
BY Invariance, PTL DEF IInv

\* No token exists for a client the code was not issued to, or for a request
\* whose redirect_uri or code_verifier was wrong.
THEOREM TokensAreBound == Spec => []TokenBound
BY Invariance, PTL DEF IInv
-----------------------------------------------------------------------------
(***************************************************************************)
(* Refinement: Init maps to the initial grant, every step to a step of the *)
(* grant or to a stutter.                                                  *)
(***************************************************************************)

\* A code nobody has claimed is neither granted nor held.
LEMMA Untouched ==
  ASSUME IInv, NEW c \in Codes, row[c] \in {"none", "live"}
  PROVE  ~Granted(c) /\ ~Held(c) /\ grantOf[c] = row[c]
<1>1. ~Granted(c)
  BY DEF IInv, SingleUse, Granted
<1>2. ~Held(c)
  BY DEF IInv, HoldersBurn, Held, Holds
<1> QED
  BY <1>1, <1>2 DEF grantOf

\* A code that is claimed and has yielded no token yet is held.
LEMMA HeldBy ==
  ASSUME IInv, NEW t \in Requests, step[t] \in {"claimed", "bound"}
  PROVE  /\ CodeOf(t) \in Codes
         /\ ~Granted(CodeOf(t))
         /\ grantOf[CodeOf(t)] = "held"
         /\ \A u \in Requests :
              CodeOf(u) = CodeOf(t) /\ step[u] \in {"claimed", "bound"} => u = t
<1>1. CodeOf(t) \in Codes
  BY DEF IInv, TypeOK, Body, CodeOf
<1>2. ~Granted(CodeOf(t))
  BY DEF IInv, TypeOK, SingleUse, IssuedStepped, Granted, Holds
<1>3. Held(CodeOf(t))
  BY DEF Held
<1>4. ASSUME NEW u \in Requests, CodeOf(u) = CodeOf(t), step[u] \in {"claimed", "bound"}
      PROVE  u = t
  BY <1>4 DEF IInv, SingleUse, Holds
<1> QED
  BY <1>1, <1>2, <1>3, <1>4 DEF grantOf

\* Tokens are the payee's: the code's own client.
LEMMA PayeeIsClient ==
  IInv => payeeOf = [c \in Codes |-> IF Granted(c) THEN SpOf[c] ELSE Nobody]
<1> SUFFICES ASSUME IInv, NEW c \in Codes, Granted(c)
             PROVE  ClientOf(CHOOSE t \in issued : CodeOf(t) = c) = SpOf[c]
  BY DEF payeeOf
<1> DEFINE first == CHOOSE t \in issued : CodeOf(t) = c
<1>1. first \in issued /\ CodeOf(first) = c
  BY DEF Granted
<1> QED
  BY <1>1 DEF IInv, TokenBound

\* A step that changes neither rows nor tokens nor who holds what is a stutter.
LEMMA Stutter ==
  ASSUME UNCHANGED <<row, body, issued>>,
         \A c \in Codes : Held(c)' <=> Held(c)
  PROVE  UNCHANGED <<grantOf, payeeOf>>
<1>1. \A c \in Codes : Granted(c)' <=> Granted(c)
  BY DEF Granted, CodeOf
<1>2. grantOf' = grantOf
  BY <1>1 DEF grantOf
<1>3. payeeOf' = payeeOf
  BY <1>1 DEF payeeOf, ClientOf, CodeOf
<1> QED
  BY <1>2, <1>3

\* A request that moves along without taking, using or giving up a code.
LEMMA QuietStep ==
  ASSUME TypeOK, NEW t \in Requests, NEW s, GoTo(t, s),
         UNCHANGED <<row, body, issued>>,
         step[t] \in {"claimed", "bound"} <=> s \in {"claimed", "bound"}
  PROVE  UNCHANGED <<grantOf, payeeOf>>
<1>1. \A c \in Codes : Held(c)' <=> Held(c)
  BY DEF TypeOK, GoTo, Held, CodeOf
<1> QED
  BY <1>1, Stutter

\* The payee changes with the tokens only.
LEMMA SamePayee ==
  ASSUME UNCHANGED <<body, issued>>
  PROVE  payeeOf' = payeeOf /\ \A c \in Codes : Granted(c)' <=> Granted(c)
BY DEF payeeOf, Granted, ClientOf, CodeOf

\* A holder that is refused burns its code.
LEMMA BurnStep ==
  ASSUME IInv, IInv', NEW t \in Requests, step[t] \in {"claimed", "bound"},
         GoTo(t, "refused"), UNCHANGED <<row, body, issued>>
  PROVE  Grant!Burn(CodeOf(t))
<1> PICK k \in Codes : k = CodeOf(t)
  BY DEF IInv, TypeOK, Body, CodeOf
<1>1. /\ ~Granted(k)
      /\ grantOf[k] = "held"
      /\ \A u \in Requests :
           CodeOf(u) = k /\ step[u] \in {"claimed", "bound"} => u = t
  BY HeldBy
<1>2. payeeOf' = payeeOf /\ \A c \in Codes : Granted(c)' <=> Granted(c)
  BY SamePayee
<1>3. ~Held(k)'
  BY <1>1 DEF IInv, TypeOK, GoTo, Held, CodeOf
<1>4. \A c \in Codes : c # k => (Held(c)' <=> Held(c))
  BY DEF IInv, TypeOK, GoTo, Held, CodeOf
<1>5. row[k] \in {"used", "gone"}
  BY DEF IInv, HoldersBurn, Holds
<1>6. grantOf' = [grantOf EXCEPT ![k] = "void"]
  <2>1. grantOf'[k] = "void"
    BY <1>1, <1>2, <1>3, <1>5 DEF grantOf
  <2>2. \A c \in Codes : c # k => grantOf'[c] = grantOf[c]
    BY <1>2, <1>4 DEF grantOf
  <2> QED
    BY <2>1, <2>2, <1>1 DEF grantOf
<1> QED
  BY <1>1, <1>2, <1>6 DEF Grant!Burn, Grant!Move

\* A claim that finds its code live takes it.
LEMMA TakeStep ==
  ASSUME IInv, NEW t \in Requests, Claim(t), Claimable(CodeOf(t))
  PROVE  Grant!Take(CodeOf(t))
<1> PICK k \in Codes : k = CodeOf(t)
  BY DEF IInv, TypeOK, Body, CodeOf
<1>1. row[k] = "live"
  BY DEF Claimable
<1>2. ~Granted(k) /\ ~Held(k) /\ grantOf[k] = "live"
  BY <1>1, Untouched
<1>3. payeeOf' = payeeOf /\ \A c \in Codes : Granted(c)' <=> Granted(c)
  BY SamePayee DEF Claim
<1>4. Held(k)'
  BY DEF IInv, TypeOK, Claim, GoTo, Held, CodeOf
<1>5. \A c \in Codes : c # k => (Held(c)' <=> Held(c))
  BY DEF IInv, TypeOK, Claim, GoTo, Held, CodeOf
<1>6. \A c \in Codes : c # k => row'[c] = row[c]
  BY DEF IInv, TypeOK, Claim
<1>7. grantOf' = [grantOf EXCEPT ![k] = "held"]
  <2>1. grantOf'[k] = "held"
    BY <1>1, <1>2, <1>3, <1>4 DEF grantOf
  <2>2. \A c \in Codes : c # k => grantOf'[c] = grantOf[c]
    BY <1>3, <1>5, <1>6 DEF grantOf
  <2> QED
    BY <2>1, <2>2, <1>1 DEF grantOf
<1> QED
  BY <1>2, <1>3, <1>7 DEF Grant!Take, Grant!Move

\* A token is put: the code's client is given its tokens.
LEMMA GiveStep ==
  ASSUME IInv, IInv', NEW t \in Requests, IssueToken(t)
  PROVE  Grant!Give(CodeOf(t))
<1> PICK k \in Codes : k = CodeOf(t)
  BY DEF IInv, TypeOK, Body, CodeOf
<1>1. ~Granted(k) /\ grantOf[k] = "held"
  BY HeldBy DEF IssueToken
<1>2. \A c \in Codes : Granted(c)' <=> (Granted(c) \/ c = k)
  BY DEF IssueToken, Granted, CodeOf
<1>3. \A c \in Codes : c # k => (Held(c)' <=> Held(c))
  BY DEF IInv, TypeOK, IssueToken, GoTo, Held, CodeOf
<1>4. grantOf' = [grantOf EXCEPT ![k] = "granted"]
  <2>1. grantOf'[k] = "granted"
    BY <1>1, <1>2 DEF grantOf
  <2>2. \A c \in Codes : c # k => grantOf'[c] = grantOf[c]
    BY <1>2, <1>3 DEF grantOf, IssueToken
  <2> QED
    BY <2>1, <2>2, <1>1 DEF grantOf
<1>5. payeeOf = [c \in Codes |-> IF Granted(c) THEN SpOf[c] ELSE Nobody]
  BY PayeeIsClient
<1>6. (payeeOf = [c \in Codes |-> IF Granted(c) THEN SpOf[c] ELSE Nobody])'
  BY PayeeIsClient, PTL
<1>7. payeeOf' = [payeeOf EXCEPT ![k] = SpOf[k]]
  BY <1>1, <1>2, <1>5, <1>6
<1> QED
  BY <1>1, <1>4, <1>7 DEF Grant!Give, Grant!Move

\* A code is inserted.
LEMMA IssueStep ==
  ASSUME IInv, NEW k \in Codes, InsertCode(k)
  PROVE  Grant!Issue(k)
<1>1. ~Granted(k) /\ ~Held(k) /\ grantOf[k] = "none"
  BY Untouched DEF InsertCode
<1>2. payeeOf' = payeeOf /\ \A c \in Codes : Granted(c)' <=> Granted(c)
  BY SamePayee DEF InsertCode
<1>3. \A c \in Codes : Held(c)' <=> Held(c)
  BY DEF InsertCode, Held, CodeOf
<1>4. grantOf' = [grantOf EXCEPT ![k] = "live"]
  BY <1>1, <1>2, <1>3 DEF grantOf, InsertCode, IInv, TypeOK
<1> QED
  BY <1>1, <1>2, <1>4 DEF Grant!Issue, Grant!Move

\* The cron purges rows: those nobody claimed lapse, the others were settled
\* or are held by a request that read them or will find them gone.
LEMMA LapseStep ==
  ASSUME IInv, CleanupCron
  PROVE  Grant!Lapse({c \in Codes : PurgedByCron(c) /\ row[c] = "live"})
<1> DEFINE expired == {c \in Codes : PurgedByCron(c) /\ row[c] = "live"}
<1>1. \A c \in expired : ~Granted(c) /\ ~Held(c) /\ grantOf[c] = "live"
  BY Untouched
<1>2. payeeOf' = payeeOf /\ \A c \in Codes : Granted(c)' <=> Granted(c)
  BY SamePayee DEF CleanupCron
<1>3. \A c \in Codes : Held(c)' <=> Held(c)
  BY DEF CleanupCron, Held, CodeOf
<1>4. grantOf' = [c \in Codes |-> IF c \in expired THEN "void" ELSE grantOf[c]]
  <2>1. \A c \in expired : grantOf'[c] = "void"
    BY <1>1, <1>2, <1>3 DEF grantOf, CleanupCron
  <2>2. \A c \in Codes \ expired : grantOf'[c] = grantOf[c]
    BY <1>2, <1>3 DEF grantOf, CleanupCron, PurgedByCron, Stale
  <2> QED
    BY <2>1, <2>2 DEF grantOf
<1> QED
  BY <1>1, <1>2, <1>4 DEF Grant!Lapse

LEMMA InitRefines == Init => Grant!Init
<1> SUFFICES ASSUME Init PROVE Grant!Init
  OBVIOUS
<1>1. \A c \in Codes : ~Granted(c) /\ ~Held(c)
  BY DEF Init, Granted, Held
<1> QED
  BY <1>1 DEF Init, Grant!Init, grantOf, payeeOf

\* One case per action: the claim takes, the token gives, refusal burns, the
\* cron lets lapse, and everything else is invisible.
LEMMA NextRefines ==
  ASSUME IInv, IInv', [Next]_vars
  PROVE  [Grant!Next]_<<grantOf, payeeOf>>
<1> DEFINE Simulated == [Grant!Next]_<<grantOf, payeeOf>>
<1>t. TypeOK
  BY DEF IInv
<1>1. ASSUME NEW c \in Codes, InsertCode(c) PROVE Simulated
  BY <1>1, IssueStep DEF Grant!Next
<1>2. ASSUME NEW t \in Requests, Receive(t) PROVE Simulated
  BY <1>2, <1>t, QuietStep DEF Receive
<1>3. ASSUME NEW t \in Requests, Progress(t) PROVE Simulated
  <2>1. CASE CheckJti(t)
    BY <2>1, <1>t, QuietStep DEF CheckJti
  <2>2. CASE RecordJti(t)
    BY <2>2, <1>t, QuietStep DEF RecordJti
  <2>3. CASE Claim(t)
    <3>1. CASE Claimable(CodeOf(t))
      <4>1. CodeOf(t) \in Codes
        BY <1>t DEF TypeOK, Body, CodeOf
      <4> QED
        BY <2>3, <3>1, <4>1, TakeStep DEF Grant!Next
    <3>2. CASE ~Claimable(CodeOf(t))
      BY <2>3, <3>2, <1>t, QuietStep DEF Claim
    <3> QED
      BY <3>1, <3>2
  <2>4. CASE step[t] \in {"claimed", "bound"} /\ GoTo(t, "refused")
                /\ UNCHANGED <<row, body, issued>>
    <3>1. CodeOf(t) \in Codes
      BY <1>t DEF TypeOK, Body, CodeOf
    <3> QED
      BY <2>4, <3>1, BurnStep DEF Grant!Next
  <2>5. CASE CheckCode(t)
    BY <2>5, <2>4, <1>t, QuietStep DEF CheckCode
  <2>6. CASE IssueToken(t)
    <3>1. CodeOf(t) \in Codes
      BY <1>t DEF TypeOK, Body, CodeOf
    <3> QED
      BY <2>6, <3>1, GiveStep DEF Grant!Next
  <2>7. CASE Answer(t)
    BY <2>7, <1>t, QuietStep DEF Answer
  <2>8. CASE Abort(t)
    BY <2>8, <2>4, <1>t, QuietStep DEF Abort
  <2> QED
    BY <1>3, <2>1, <2>2, <2>3, <2>5, <2>6, <2>7, <2>8 DEF Progress
<1>4. ASSUME NEW a \in Assertions, JtiExpires(a) PROVE Simulated
  BY <1>4, Stutter DEF JtiExpires, Held, CodeOf
<1>5. CASE CleanupCron
  <2>1. {c \in Codes : PurgedByCron(c) /\ row[c] = "live"} \in SUBSET Codes
    OBVIOUS
  <2> QED
    BY <1>5, <2>1, LapseStep DEF Grant!Next
<1>6. CASE Tick
  BY <1>6, Stutter DEF Tick, Held, CodeOf
<1>7. CASE UNCHANGED vars
  BY <1>7, Stutter DEF vars, Held, CodeOf
<1> QED
  BY <1>1, <1>2, <1>3, <1>4, <1>5, <1>6, <1>7 DEF Next

\* The exchange, with its retries, races, failures and cron, is a single-use
\* grant: no interleaving takes a code twice, gives twice, or gives to another
\* client than the code's.
THEOREM ExchangeRefinesGrant == Spec => ImplementsGrantSafety
<1>1. Init /\ [][Next]_vars /\ []IInv => Grant!Init /\ [][Grant!Next]_<<grantOf, payeeOf>>
  BY InitRefines, NextRefines, PTL
<1> QED
  BY <1>1, Invariance, PTL DEF Spec, ImplementsGrantSafety, Grant!Safety, Grant!vars
-----------------------------------------------------------------------------
(***************************************************************************)
(* What the refinement tells a service provider.                           *)
(***************************************************************************)

\* Nothing but a step of a code that is issued, live or held changes it.
LEMMA EndedStaysEnded ==
  ASSUME [Grant!Next]_<<grantOf, payeeOf>>, NEW c \in Codes, grantOf[c] \in {"granted", "void"}
  PROVE  grantOf'[c] = grantOf[c] /\ payeeOf'[c] = payeeOf[c]
<1>1. DOMAIN grantOf = Codes /\ DOMAIN payeeOf = Codes
  BY DEF grantOf, payeeOf
<1>2. ASSUME NEW d \in Codes, Grant!Issue(d) \/ Grant!Take(d) \/ Grant!Give(d) \/ Grant!Burn(d)
      PROVE  grantOf'[c] = grantOf[c] /\ payeeOf'[c] = payeeOf[c]
  <2>1. d # c
    BY <1>2 DEF Grant!Issue, Grant!Take, Grant!Give, Grant!Burn, Grant!Move
  <2> QED
    BY <1>1, <1>2, <2>1 DEF Grant!Issue, Grant!Take, Grant!Give, Grant!Burn, Grant!Move
<1>3. ASSUME NEW expired \in SUBSET Codes, Grant!Lapse(expired)
      PROVE  grantOf'[c] = grantOf[c] /\ payeeOf'[c] = payeeOf[c]
  BY <1>3 DEF Grant!Lapse
<1> QED
  BY <1>2, <1>3 DEF Grant!Next

\* A code that was paid for, burned or purged stays so, and is never paid to
\* another client: no retry, cron run or late request revives it.
THEOREM CodesEndForGood ==
  Spec => [][\A c \in Codes : grantOf[c] \in {"granted", "void"} =>
               grantOf'[c] = grantOf[c] /\ payeeOf'[c] = payeeOf[c]]_vars
<1>1. IInv /\ IInv' /\ [Next]_vars =>
        [\A c \in Codes : grantOf[c] \in {"granted", "void"} =>
           grantOf'[c] = grantOf[c] /\ payeeOf'[c] = payeeOf[c]]_vars
  BY NextRefines, EndedStaysEnded
<1> QED
  BY <1>1, Invariance, PTL DEF Spec
=============================================================================
