---------------------------- MODULE TokenExchange ----------------------------
(***************************************************************************)
(* Authorization codes and their exchange for tokens: the INSERTs of       *)
(* packages/auth-core/src/routes/auth-flow.ts, POST                        *)
(* /api/openid_connect/token (routes/token.ts), the client authentication  *)
(* it calls (lib/client-auth.ts) and the cron that deletes expired codes   *)
(* (packages/infra/src/cron/cleanup.ts).                                   *)
(*                                                                         *)
(* Requests run on separate workers that share the database and the KV     *)
(* namespace.  A request is atomic between two calls to either, so every   *)
(* statement that reads or writes one of them is an action of its own, and *)
(* Abort is a call that fails, a check on data left out of the model, or a *)
(* worker that is stopped.                                                 *)
(***************************************************************************)
EXTENDS Integers

CONSTANTS
  Requests,    \* POST /token requests
  Codes,       \* authorization codes (uuids: each is inserted once)
  Providers,   \* service providers, the clients
  Assertions,  \* client_assertion JWTs, each with a jti of its own
  SpOf,        \* spId of each code
  IssuerOf,    \* iss of each assertion
  Pkce,        \* no client_assertion: authentication by code_verifier alone
  CodeTtl,     \* AUTH_CODE_TTL_MS, 10 minutes, in ticks
  Nobody       \* no client

ASSUME TokenExchangeAssumption ==
  /\ SpOf \in [Codes -> Providers]
  /\ IssuerOf \in [Assertions -> Providers]
  /\ Pkce \notin Assertions
  /\ CodeTtl \in Nat
  /\ Nobody \notin Providers

VARIABLES
  row,     \* auth_codes: none, live (usedAt null), used, or gone (deleted)
  left,    \* time left until expiresAt; -1 is every instant past it
  step,    \* per request: the last step it completed
  body,    \* per request: its code, its authentication, and whether its
           \* redirect_uri and code_verifier are the code's (proof)
  jtis,    \* assertions whose jti is recorded in KV
  issued   \* requests that have put an access token in KV

vars == <<row, left, step, body, jtis, issued>>

Body ==
  [code : Codes, auth : Assertions \cup {Pkce}, proof : BOOLEAN]

\* The request has claimed its code and still runs, or was answered 200.
Holds == {"claimed", "bound", "issued", "answered"}

Pending == {"received", "unseen", "authenticated", "claimed", "bound", "issued"}

TypeOK ==
  /\ row \in [Codes -> {"none", "live", "used", "gone"}]
  /\ left \in [Codes -> -1..CodeTtl]
  /\ step \in [Requests -> {"idle", "answered", "refused"} \cup Pending]
  /\ body \in [Requests -> Body]
  /\ jtis \in SUBSET Assertions
  /\ issued \in SUBSET Requests

Init ==
  /\ row = [c \in Codes |-> "none"]
  /\ left = [c \in Codes |-> CodeTtl]
  /\ step = [t \in Requests |-> "idle"]
  /\ body \in [Requests -> Body]
  /\ jtis = {}
  /\ issued = {}
-----------------------------------------------------------------------------
CodeOf(t) == body[t].code

GoTo(t, s) == step' = [step EXCEPT ![t] = s]

\* The INSERT of complete-login or issue-code.
InsertCode(c) ==
  /\ row[c] = "none"
  /\ row' = [row EXCEPT ![c] = "live"]
  /\ left' = [left EXCEPT ![c] = CodeTtl]
  /\ UNCHANGED <<step, body, jtis, issued>>

\* Variant: a missing client_assertion is authenticated like any other.
ReceiveAlike(t) ==
  /\ step[t] = "idle"
  /\ GoTo(t, "received")
  /\ UNCHANGED <<row, left, body, jtis, issued>>

\* The request comes in; without a client_assertion there is nothing to
\* authenticate before the code is claimed.
Receive(t) ==
  /\ step[t] = "idle"
  /\ GoTo(t, IF body[t].auth = Pkce THEN "authenticated" ELSE "received")
  /\ UNCHANGED <<row, left, body, jtis, issued>>

\* Look the jti up...
CheckJti(t) ==
  /\ step[t] = "received"
  /\ GoTo(t, IF body[t].auth \in jtis THEN "refused" ELSE "unseen")
  /\ UNCHANGED <<row, left, body, jtis, issued>>

\* ... and record it: not atomic, two requests may both find it absent.
RecordJti(t) ==
  /\ step[t] = "unseen"
  /\ jtis' = jtis \cup {body[t].auth}
  /\ GoTo(t, "authenticated")
  /\ UNCHANGED <<row, left, body, issued>>

Claimable(c) == row[c] = "live"

\* UPDATE auth_codes SET usedAt WHERE code = ? AND usedAt IS NULL; nothing
\* but the code is looked at, expired rows are claimed as well.
Claim(t) ==
  /\ step[t] = "authenticated"
  /\ IF Claimable(CodeOf(t))
       THEN row' = [row EXCEPT ![CodeOf(t)] = "used"] /\ GoTo(t, "claimed")
       ELSE row' = row /\ GoTo(t, "refused")
  /\ UNCHANGED <<left, body, jtis, issued>>

\* Who the request is authenticated as, once it holds the code.
ClientOf(t) ==
  IF body[t].auth = Pkce THEN SpOf[CodeOf(t)] ELSE IssuerOf[body[t].auth]

\* Variant: redirect_uri and code_verifier are checked, the client is not.
ProofOnly(t) == left[CodeOf(t)] >= 0 /\ body[t].proof

Redeemable(t) ==
  /\ left[CodeOf(t)] >= 0
  /\ SpOf[CodeOf(t)] = ClientOf(t)
  /\ body[t].proof

\* SELECT the claimed row (the cron may have deleted it: a TypeError), and
\* check expiry, client, redirect_uri and code_verifier.  Whatever fails,
\* the code stays used.
CheckCode(t) ==
  /\ step[t] = "claimed"
  /\ GoTo(t, IF row[CodeOf(t)] # "gone" /\ Redeemable(t) THEN "bound"
                                                         ELSE "refused")
  /\ UNCHANGED <<row, left, body, jtis, issued>>

\* issueAccessToken: the token is valid from here on.
IssueToken(t) ==
  /\ step[t] = "bound"
  /\ issued' = issued \cup {t}
  /\ GoTo(t, "issued")
  /\ UNCHANGED <<row, left, body, jtis>>

\* The id_token is signed, the audit message enqueued, and 200 answered.
Answer(t) ==
  /\ step[t] = "issued"
  /\ GoTo(t, "answered")
  /\ UNCHANGED <<row, left, body, jtis, issued>>

\* Variant: a failed exchange gives its code back.
AbortReleasing(t) ==
  /\ step[t] \in Pending
  /\ GoTo(t, "refused")
  /\ row' = IF step[t] \in {"claimed", "bound", "issued"}
              THEN [row EXCEPT ![CodeOf(t)] = "live"] ELSE row
  /\ UNCHANGED <<left, body, jtis, issued>>

\* A call fails, or the worker is stopped.  Nothing is undone: a code stays
\* used, a token stays in KV.
Abort(t) ==
  /\ step[t] \in Pending
  /\ GoTo(t, "refused")
  /\ UNCHANGED <<row, left, body, jtis, issued>>

\* The jti's entry expires in KV.  No property depends on when it does.
JtiExpires(a) ==
  /\ a \in jtis
  /\ jtis' = jtis \ {a}
  /\ UNCHANGED <<row, left, step, body, issued>>

Stale(c) == row[c] \in {"live", "used"} /\ left[c] < 0

\* Variant: the cron spares the codes nobody has claimed.
StaleUsed(c) == row[c] = "used" /\ left[c] < 0

PurgedByCron(c) == Stale(c)

\* The cron: DELETE FROM auth_codes WHERE expires_at < now.
CleanupCron ==
  /\ \E c \in Codes : PurgedByCron(c)
  /\ row' = [c \in Codes |-> IF PurgedByCron(c) THEN "gone" ELSE row[c]]
  /\ UNCHANGED <<left, step, body, jtis, issued>>

Tick ==
  /\ left' = [c \in Codes |->
                IF row[c] \in {"live", "used"} /\ left[c] >= 0
                  THEN left[c] - 1 ELSE left[c]]
  /\ UNCHANGED <<row, step, body, jtis, issued>>
-----------------------------------------------------------------------------
Progress(t) ==
  \/ CheckJti(t)
  \/ RecordJti(t)
  \/ Claim(t)
  \/ CheckCode(t)
  \/ IssueToken(t)
  \/ Answer(t)
  \/ Abort(t)

Next ==
  \/ \E c \in Codes : InsertCode(c)
  \/ \E t \in Requests : Receive(t) \/ Progress(t)
  \/ \E a \in Assertions : JtiExpires(a)
  \/ CleanupCron
  \/ Tick

\* Time passes, the cron runs, and a request that was received goes on until
\* it is answered or fails: a call resolves, rejects or is cut off.
Fairness ==
  /\ WF_vars(Tick)
  /\ WF_vars(CleanupCron)
  /\ \A t \in Requests : WF_vars(Progress(t))

Spec == Init /\ [][Next]_vars /\ Fairness
-----------------------------------------------------------------------------
(***************************************************************************)
(* Safety.                                                                 *)
(***************************************************************************)

\* Of all the requests that ever present a code, retries and concurrent ones
\* included, at most one gets past the claim and at most one puts a token in
\* KV; and a code a token was issued for can never be claimed again, also
\* when the exchange failed after the token was put.
SingleUse ==
  /\ \A t, u \in Requests :
       /\ CodeOf(t) = CodeOf(u)
       /\ step[t] \in Holds \/ t \in issued
       /\ step[u] \in Holds \/ u \in issued
       => t = u
  /\ \A t \in issued : row[CodeOf(t)] \in {"used", "gone"}

\* A token is put only for the client the code was issued to, and only when
\* the request proved it by redirect_uri and code_verifier, although the code
\* is claimed before any of this is looked at.
TokenBound ==
  \A t \in issued : ClientOf(t) = SpOf[CodeOf(t)] /\ body[t].proof

(***************************************************************************)
(* The exchange implements a single-use grant.                             *)
(***************************************************************************)

Granted(c) == \E t \in issued : CodeOf(t) = c
Held(c)    == \E t \in Requests : CodeOf(t) = c /\ step[t] \in {"claimed", "bound"}

grantOf ==
  [c \in Codes |->
     IF Granted(c) THEN "granted"
     ELSE IF Held(c) THEN "held"
     ELSE IF row[c] \in {"none", "live"} THEN row[c] ELSE "void"]

payeeOf ==
  [c \in Codes |->
     IF Granted(c) THEN ClientOf(CHOOSE t \in issued : CodeOf(t) = c)
                   ELSE Nobody]

Grant == INSTANCE SingleUseGrant WITH grant <- grantOf, payee <- payeeOf

\* Every behaviour of codes, requests and cron, interleaved in any way and cut
\* off anywhere, is one of the single-use grant: a code is taken once, given
\* once to its own client or burned, and is not left live or held for ever.
ImplementsGrant == Grant!Spec

\* The same without the liveness of the grant.
ImplementsGrantSafety == Grant!Safety
=============================================================================
