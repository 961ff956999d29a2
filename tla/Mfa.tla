--------------------------------- MODULE Mfa ---------------------------------
(***************************************************************************)
(* Second factors of one user in one session: the routes of packages/mfa   *)
(* (totp.ts, sms-otp.ts, backup-codes.ts, webauthn.ts), the texts with     *)
(* codes (email-consumer.ts), the failure counter and lockout              *)
(* (middleware/rate-limiter.ts), cards (x509.ts), and the gates that look  *)
(* at the result (middleware/aal-evaluator.ts).                            *)
(*                                                                         *)
(* Every KV entry and row is keyed by the user, so users do not interact.  *)
(* A request is atomic between two calls to KV, the database or the        *)
(* session object.  The session id is one idFromString accepts: with the   *)
(* uuids of sign-in sessions every request fails at its first step         *)
(* (AuthFlow).                                                             *)
(***************************************************************************)
EXTENDS Integers, FiniteSets

CONSTANTS
  Requests,    \* verify requests
  Plans,       \* what the requests bring: functions to [method, value]
  StampOf,     \* the millisecond in which each request takes its time
  Secrets,     \* numbers of time steps, SMS codes, challenges and backup codes
  Gens,        \* generations of backup codes
  GenOf,       \* the generation of each backup code
  Counts,      \* sign counts the user's authenticators report, 0 where none is kept
  MaxFailed,   \* MAX_FAILED_ATTEMPTS, 5
  MaxSends,    \* SMS_SEND_MAX, 3
  MaxTries,    \* attempts to send a text, 3
  ReplayTtl,   \* TOTP_REPLAY_TTL, in periods of 30 seconds: 3, the codes in a window
  LastStep,    \* bound on the time step
  MaxSetups    \* bound on TOTP setups running at a time

Methods == {"totp", "sms", "backup", "webauthn"}

ASSUME MfaAssumption ==
  /\ Secrets \subseteq Nat \ {0}
  /\ Plans \subseteq [Requests -> [method : Methods, value : Secrets \cup {0}]]
  /\ StampOf \in [Requests -> Nat \ {0}]
  /\ Gens \subseteq Nat \ {0}
  /\ GenOf \in [Secrets -> Nat]
  /\ Counts \subseteq Nat
  /\ {MaxFailed, MaxSends, MaxTries} \subseteq Nat \ {0}
  /\ ReplayTtl \in Nat /\ ReplayTtl >= 3
  /\ LastStep \in Nat /\ MaxSetups \in Nat

VARIABLES
  step,       \* per request: the last step it completed
  body,       \* per request: its method and the secret it presents, 0 a wrong one
  seen,       \* per request: what it read last
  clock,      \* the time step
  totpRows,   \* TOTP credentials of the user
  settingUp,  \* TOTP setups that found none
  marker,     \* per time step: periods its replay marker has left
  otp,        \* the SMS code in KV, 0 for none
  sent,       \* SMS codes sent so far: the numbers 1..sent
  sends,      \* the counter of sends in KV
  texts,      \* per SMS code: attempts its message in the queue has left
  received,   \* SMS codes on the user's phone
  backup,     \* per generation: its row, see BackupRow
  regen,      \* per generation: none, deleting (the old rows are gone), stored
  enrolled,   \* the WebAuthn credential: none, offered, opened, yes
  challenge,  \* the WebAuthn challenge in KV, 0 for none
  given,      \* challenges given so far: the numbers 1..given
  signCount,  \* of the WebAuthn credential
  counted,    \* history: requests whose sign count was stored
  crossed,    \* history: ... while another assertion was found good
  attempts,   \* the counter of failures in KV, 0 for none
  locked,     \* users.locked_at is set
  session,    \* what MFA left in the session, see SessionState
  card,       \* the issuer of the certificate noted in the session
  streak,     \* history: requests that failed since the counter was last gone
  raced,      \* history: a counter was written between a request's read and write
  shown       \* history: issuers of certificates presented in the session

vars ==
  <<step, body, seen, clock, totpRows, settingUp, marker, otp, sent, sends, texts,
    received, backup, regen, enrolled, challenge, given, signCount, counted, crossed,
    attempts, locked, session, streak, raced>>

totpVars     == <<totpRows, settingUp, marker>>
smsVars      == <<otp, sent, sends, texts, received>>
backupVars   == <<backup, regen>>
countVars    == <<signCount, counted, crossed>>
webauthnVars == <<enrolled, challenge, given, countVars>>
factorVars   == <<totpVars, smsVars, backupVars, webauthnVars>>
limitVars    == <<attempts, locked, streak, raced>>
cardVars     == <<card, shown>>

BackupRow == [used : SUBSET Secrets, last : Nat, live : BOOLEAN]

NoRow == [used |-> {}, last |-> 0, live |-> FALSE]

SessionState ==
  [verified : BOOLEAN, method : Methods \cup {"none", "remembered"},
   remembered : BOOLEAN]

\* What a request holds: a failure count, a challenge, a row it read.
Seen == [n : Nat, gen : Nat, row : BackupRow]

Nothing == [n |-> 0, gen |-> 0, row |-> NoRow]

Running ==
  {"unlocked", "checked", "fetched", "deleted", "matched", "consumed", "cleared",
   "wrong", "counting", "locking"}

\* Of a trusted federal authority, or not.
Issuers == {"federal", "other"}

Over == {"verified", "failed", "refused"}

MfaTypeOK ==
  /\ step \in [Requests -> {"new"} \cup Running \cup Over]
  /\ body \in [Requests -> [method : Methods, value : Secrets \cup {0}]]
  /\ seen \in [Requests -> Seen]
  /\ clock \in 0..LastStep
  /\ totpRows \in Nat /\ settingUp \in 0..MaxSetups
  /\ marker \in [Secrets -> 0..ReplayTtl]
  /\ otp \in Secrets \cup {0} /\ sent \in Nat
  /\ sends \in 0..MaxSends
  /\ texts \in [Secrets -> 0..MaxTries] /\ received \subseteq Secrets
  /\ backup \in [Gens -> BackupRow]
  /\ regen \in [Gens -> {"none", "deleting", "stored"}]
  /\ enrolled \in {"none", "offered", "opened", "yes"}
  /\ challenge \in Secrets \cup {0} /\ given \in Nat
  /\ signCount \in Nat /\ counted \subseteq Requests /\ crossed \in BOOLEAN
  /\ attempts \in 0..MaxFailed
  /\ locked \in BOOLEAN
  /\ session \in SessionState
  /\ streak \subseteq Requests /\ raced \in BOOLEAN
  /\ card \in Issuers \cup {"none"} /\ shown \subseteq Issuers

Init ==
  /\ step = [r \in Requests |-> "new"]
  /\ body \in Plans
  /\ seen = [r \in Requests |-> Nothing]
  /\ clock = 0
  /\ totpRows = 0 /\ settingUp = 0
  /\ marker = [k \in Secrets |-> 0]
  /\ otp = 0 /\ sent = 0 /\ sends = 0
  /\ texts = [k \in Secrets |-> 0] /\ received = {}
  /\ backup = [g \in Gens |-> NoRow]
  /\ regen = [g \in Gens |-> "none"]
  /\ enrolled = "none" /\ challenge = 0 /\ given = 0
  /\ signCount = 0 /\ counted = {} /\ crossed = FALSE
  /\ attempts = 0 /\ locked = FALSE
  /\ session = [verified |-> FALSE, method |-> "none", remembered |-> FALSE]
  /\ streak = {} /\ raced = FALSE
  /\ card = "none" /\ shown = {}
-----------------------------------------------------------------------------
GoTo(r, s) == step' = [step EXCEPT ![r] = s]

Holding(r, n, g, row) == seen' = [seen EXCEPT ![r] = [n |-> n, gen |-> g, row |-> row]]

Uses(r, m) == body[r].method = m

\* What happens to a factor that no request uses is left out.
InUse(m) == \E r \in Requests : Uses(r, m)

\* The user, with a device or a paper, can present the secret by now; a new
\* authenticator also answers challenges from before it was registered.
Obtainable(r) ==
  LET v == body[r].value IN
  \/ v = 0
  \/ Uses(r, "totp")
  \/ Uses(r, "sms") /\ v \in received
  \/ Uses(r, "backup") /\ v # 0 /\ GenOf[v] \in Gens /\ regen[GenOf[v]] = "stored"
  \/ Uses(r, "webauthn") /\ v <= given /\ enrolled = "yes"
-----------------------------------------------------------------------------
(***************************************************************************)
(* The limiter.                                                            *)
(***************************************************************************)

\* loadSession, and the lock of checkMfaRateLimit...
CheckLock(r) ==
  /\ step[r] = "new"
  /\ Obtainable(r)
  /\ GoTo(r, IF locked THEN "refused" ELSE "unlocked")
  /\ UNCHANGED <<body, seen, clock, factorVars, limitVars, session>>

\* ... and its counter: a full one locks the account.
CheckCount(r) ==
  /\ step[r] = "unlocked"
  /\ GoTo(r, IF attempts >= MaxFailed THEN "refused" ELSE "checked")
  /\ locked' = (locked \/ attempts >= MaxFailed)
  /\ UNCHANGED <<body, seen, clock, factorVars, attempts, streak, raced, session>>

\* recordFailedAttempt reads the counter...
ReadCount(r) ==
  /\ step[r] = "wrong"
  /\ GoTo(r, "counting")
  /\ Holding(r, attempts, 0, NoRow)
  /\ UNCHANGED <<body, clock, factorVars, limitVars, session>>

AtMost(n, limit) == IF n <= limit THEN n ELSE limit

\* Variant: the counter starts again with every failure.
CountAfresh(r) == 1

Counted(r) == seen[r].n + 1

\* ... puts it back, one higher, ...
Record(r) ==
  /\ step[r] = "counting"
  /\ attempts' = AtMost(Counted(r), MaxFailed)
  /\ GoTo(r, IF Counted(r) >= MaxFailed THEN "locking" ELSE "failed")
  /\ streak' = streak \cup {r}
  /\ raced' = (raced \/ seen[r].n # attempts)
  /\ UNCHANGED <<body, seen, clock, factorVars, locked, session>>

\* ... and locks the account at the limit.
Lock(r) ==
  /\ step[r] = "locking"
  /\ locked' = TRUE
  /\ GoTo(r, "failed")
  /\ UNCHANGED <<body, seen, clock, factorVars, attempts, streak, raced, session>>

\* clearRateLimit.
ClearCount(r) ==
  /\ step[r] = "consumed"
  /\ attempts' = 0 /\ streak' = {}
  /\ GoTo(r, "cleared")
  /\ UNCHANGED <<body, seen, clock, factorVars, locked, raced, session>>

\* Its entry expires, LOCKOUT_WINDOW_SECONDS after it was last put.
CountExpires ==
  /\ attempts > 0
  /\ attempts' = 0 /\ streak' = {}
  /\ UNCHANGED <<step, body, seen, clock, factorVars, locked, raced, session>>
-----------------------------------------------------------------------------
(***************************************************************************)
(* TOTP.                                                                   *)
(***************************************************************************)

\* POST /mfa/totp/setup looks for a credential and inserts one.
LookForTotp ==
  /\ InUse("totp")
  /\ totpRows = 0 /\ settingUp < MaxSetups
  /\ settingUp' = settingUp + 1
  /\ UNCHANGED <<step, body, seen, clock, totpRows, marker, smsVars, backupVars,
                 webauthnVars, limitVars, session>>

InsertTotp ==
  /\ settingUp > 0
  /\ settingUp' = settingUp - 1
  /\ totpRows' = totpRows + 1
  /\ UNCHANGED <<step, body, seen, clock, marker, smsVars, backupVars, webauthnVars,
                 limitVars, session>>

\* A code is good in its own time step and the two next to it.
InWindow(k) == k # 0 /\ clock - 1 <= k /\ k <= clock + 1

\* POST /mfa/totp/verify: the code is compared, and the marker looked up...
LookTotp(r) ==
  LET k == body[r].value IN
  /\ step[r] = "checked" /\ Uses(r, "totp")
  /\ GoTo(r, IF totpRows = 0 THEN "refused"
             ELSE IF InWindow(k) /\ marker[k] = 0 THEN "matched" ELSE "wrong")
  /\ UNCHANGED <<body, seen, clock, factorVars, limitVars, session>>

\* ... and put.
MarkTotp(r) ==
  /\ step[r] = "matched" /\ Uses(r, "totp")
  /\ marker' = [marker EXCEPT ![body[r].value] = ReplayTtl]
  /\ GoTo(r, "consumed")
  /\ UNCHANGED <<body, seen, clock, totpRows, settingUp, smsVars, backupVars,
                 webauthnVars, limitVars, session>>

Tick ==
  /\ InUse("totp") /\ clock < LastStep
  /\ clock' = clock + 1
  /\ marker' = [k \in Secrets |-> IF marker[k] = 0 THEN 0 ELSE marker[k] - 1]
  /\ UNCHANGED <<step, body, seen, totpRows, settingUp, smsVars, backupVars,
                 webauthnVars, limitVars, session>>
-----------------------------------------------------------------------------
(***************************************************************************)
(* SMS.                                                                    *)
(***************************************************************************)

\* Variant: a code is sent whenever one is asked for.
SendAlways == TRUE

MaySend == sends < MaxSends

\* POST /mfa/sms/send: a new code replaces the old one and is queued.  Its counter is put
\* in a call of its own, which only matters to how many are sent.
SendSms ==
  /\ InUse("sms") /\ MaySend
  /\ sent + 1 \in Secrets
  /\ sends' = sends + 1
  /\ sent' = sent + 1
  /\ otp' = sent + 1
  /\ texts' = [texts EXCEPT ![sent + 1] = MaxTries]
  /\ UNCHANGED <<received, step, body, seen, clock, totpVars, backupVars, webauthnVars,
                 limitVars, session>>

\* A text nobody will present any more is left where it is.
Awaited(k) == texts[k] > 0 /\ \E r \in Requests : step[r] = "new" /\ body[r].value = k

\* The consumer of the queue sends a text, in any order...
SendText(k) ==
  /\ Awaited(k)
  /\ texts' = [texts EXCEPT ![k] = 0]
  /\ received' = received \cup {k}
  /\ UNCHANGED <<step, body, seen, clock, totpVars, otp, sent, sends, backupVars,
                 webauthnVars, limitVars, session>>

\* ... or fails to, and tries again or gives up.  An attempt that is cut off
\* after the text was sent only sends it twice.
TextFails(k) ==
  /\ Awaited(k)
  /\ texts' = [texts EXCEPT ![k] = @ - 1]
  /\ UNCHANGED <<step, body, seen, clock, totpVars, otp, sent, sends, received,
                 backupVars, webauthnVars, limitVars, session>>

SendsExpire ==
  /\ sends > 0
  /\ sends' = 0
  /\ UNCHANGED <<step, body, seen, clock, totpVars, otp, sent, texts, received,
                 backupVars, webauthnVars, limitVars, session>>

SmsExpires ==
  /\ otp # 0
  /\ otp' = 0
  /\ UNCHANGED <<step, body, seen, clock, totpVars, sent, sends, texts, received,
                 backupVars, webauthnVars, limitVars, session>>

\* POST /mfa/sms/verify: the stored code is read and compared...
LookSms(r) ==
  /\ step[r] = "checked" /\ Uses(r, "sms")
  /\ GoTo(r, IF otp = 0 THEN "refused"
             ELSE IF otp = body[r].value THEN "matched" ELSE "wrong")
  /\ UNCHANGED <<body, seen, clock, factorVars, limitVars, session>>

\* ... and whatever is stored by now deleted.
DeleteSms(r) ==
  /\ step[r] = "matched" /\ Uses(r, "sms")
  /\ otp' = 0
  /\ GoTo(r, "consumed")
  /\ UNCHANGED <<body, seen, clock, totpVars, sent, sends, texts, received,
                 backupVars, webauthnVars, limitVars, session>>
-----------------------------------------------------------------------------
(***************************************************************************)
(* Backup codes.                                                           *)
(***************************************************************************)

\* POST /mfa/backup-codes/generate deletes what there is...
DropBackup(g) ==
  /\ InUse("backup")
  /\ regen[g] = "none"
  /\ \A h \in Gens : h < g => regen[h] # "none"
  /\ regen' = [regen EXCEPT ![g] = "deleting"]
  /\ backup' = [h \in Gens |-> NoRow]
  /\ UNCHANGED <<step, body, seen, clock, totpVars, smsVars, webauthnVars, limitVars,
                 session>>

\* ... and inserts a row with the new codes.
StoreBackup(g) ==
  /\ regen[g] = "deleting"
  /\ regen' = [regen EXCEPT ![g] = "stored"]
  /\ backup' = [backup EXCEPT ![g] = [used |-> {}, last |-> 0, live |-> TRUE]]
  /\ UNCHANGED <<step, body, seen, clock, totpVars, smsVars, webauthnVars, limitVars,
                 session>>

\* POST /mfa/backup-codes/verify reads one row and looks for the code...
LookBackup(r) ==
  LET v == body[r].value IN
  /\ step[r] = "checked" /\ Uses(r, "backup")
  /\ IF \A g \in Gens : ~backup[g].live
       THEN GoTo(r, "refused") /\ UNCHANGED seen
       ELSE \E g \in Gens :
              /\ backup[g].live
              /\ IF v # 0 /\ GenOf[v] = g /\ v \notin backup[g].used
                   THEN GoTo(r, "matched") /\ Holding(r, 0, g, backup[g])
                   ELSE GoTo(r, "wrong") /\ UNCHANGED seen
  /\ UNCHANGED <<body, clock, factorVars, limitVars, session>>

\* Variant: the row is written back whoever wrote it since.
UnchangedOrNot(r) == backup[seen[r].gen].live

\* WHERE id = ? AND last_used_at = ?, or IS NULL
StillAsRead(r) ==
  backup[seen[r].gen].live /\ backup[seen[r].gen].last = seen[r].row.last

\* ... marks it in what was read, and writes that back if last_used_at is
\* still what it was.
UpdateBackup(r) ==
  LET g == seen[r].gen IN
  /\ step[r] = "matched" /\ Uses(r, "backup")
  /\ IF StillAsRead(r)
       THEN /\ backup' = [backup EXCEPT ![g] =
                 [used |-> seen[r].row.used \cup {body[r].value},
                  last |-> StampOf[r], live |-> TRUE]]
            /\ GoTo(r, "consumed")
       ELSE /\ UNCHANGED backup
            /\ GoTo(r, "refused")
  /\ UNCHANGED <<body, seen, clock, totpVars, smsVars, regen, webauthnVars, limitVars,
                 session>>
-----------------------------------------------------------------------------
(***************************************************************************)
(* WebAuthn, with one authenticator, which is registered once (it is given *)
(* the credentials there are).  It may count its assertions or not, and    *)
(* may have been cloned: a good assertion comes with any count.            *)
(***************************************************************************)

Enrol(from, to) ==
  /\ InUse("webauthn")
  /\ enrolled = from /\ enrolled' = to
  /\ UNCHANGED <<step, body, seen, clock, totpVars, smsVars, backupVars, challenge, given,
                 countVars, limitVars, session>>

\* POST /mfa/webauthn/register/options puts a challenge, which expires...
OfferRegistration == Enrol("none", "offered")

\* ... and /register/verify deletes it, ...
OpenRegistration == Enrol("offered", "opened")

\* ... checks the answer and inserts the credential, counting from zero.
InsertCredential == Enrol("opened", "yes")

\* The challenge expires, the answer is refused or a call fails.
RegistrationEnds == \E s \in {"offered", "opened"} : Enrol(s, "none")

\* POST /mfa/webauthn/authenticate/options puts a challenge also when there
\* is no credential, and then answers 404.
GiveChallenge ==
  /\ InUse("webauthn") /\ given + 1 \in Secrets
  /\ given' = given + 1
  /\ challenge' = given + 1
  /\ UNCHANGED <<step, body, seen, clock, totpVars, smsVars, backupVars, enrolled,
                 countVars, limitVars, session>>

ChallengeExpires ==
  /\ challenge # 0
  /\ challenge' = 0
  /\ UNCHANGED <<step, body, seen, clock, totpVars, smsVars, backupVars, enrolled, given,
                 countVars, limitVars, session>>

\* POST /mfa/webauthn/authenticate/verify reads the challenge...
FetchChallenge(r) ==
  /\ step[r] = "checked" /\ Uses(r, "webauthn")
  /\ GoTo(r, IF challenge = 0 THEN "refused" ELSE "fetched")
  /\ Holding(r, challenge, 0, NoRow)
  /\ UNCHANGED <<body, clock, factorVars, limitVars, session>>

\* ... and deletes what is stored by now; ...
DeleteChallenge(r) ==
  /\ step[r] = "fetched"
  /\ challenge' = 0
  /\ GoTo(r, "deleted")
  /\ UNCHANGED <<body, seen, clock, totpVars, smsVars, backupVars, enrolled, given,
                 countVars, limitVars, session>>

\* Variant: the sign count is only stored.
CountIgnored(n) == TRUE

\* A count of zero is never refused: the authenticator keeps none.
NoRegression(n) == n = 0 \/ n > signCount

\* ... the assertion must be for that challenge, with a count that is zero or
\* higher than the credential's; ...
CheckAssertion(r) ==
  LET v == body[r].value IN
  /\ step[r] = "deleted"
  /\ \/ /\ v # 0 /\ seen[r].n = v
        /\ \E n \in Counts : NoRegression(n) /\ Holding(r, n, 0, NoRow)
        /\ GoTo(r, "matched")
     \/ /\ v = 0 \/ seen[r].n # v \/ \E n \in Counts : ~NoRegression(n)
        /\ GoTo(r, "wrong") /\ UNCHANGED seen
  /\ UNCHANGED <<body, clock, factorVars, limitVars, session>>

\* ... its count is stored, zero or not, whatever was stored since.
StoreSignCount(r) ==
  /\ step[r] = "matched" /\ Uses(r, "webauthn")
  /\ signCount' = seen[r].n
  /\ counted' = counted \cup {r}
  /\ crossed' = (crossed \/ \E q \in Requests \ {r} :
                                step[q] = "matched" /\ Uses(q, "webauthn"))
  /\ GoTo(r, "consumed")
  /\ UNCHANGED <<body, seen, clock, totpVars, smsVars, backupVars, enrolled, challenge,
                 given, limitVars, session>>
-----------------------------------------------------------------------------
(***************************************************************************)
(* The session, and what looks at it.                                      *)
(***************************************************************************)

\* Variant: the session is marked before the secret is consumed.
MarkBeforeUse(r, remember) ==
  /\ step[r] = "matched"
  /\ session' = [verified |-> TRUE, method |-> body[r].method,
                 remembered |-> session.remembered \/ remember]
  /\ GoTo(r, "consumed")
  /\ UNCHANGED <<body, seen, clock, factorVars, limitVars>>

\* updateSessionDO at the end of every verify handler.
MarkSession(r, remember) ==
  /\ step[r] = "cleared"
  /\ session' = [verified |-> TRUE, method |-> body[r].method,
                 remembered |-> session.remembered \/ remember]
  /\ GoTo(r, "verified")
  /\ UNCHANGED <<body, seen, clock, factorVars, limitVars>>

\* A call fails.
Abort(r) ==
  /\ step[r] \in Running
  /\ GoTo(r, "refused")
  /\ UNCHANGED <<body, seen, clock, factorVars, limitVars, session>>

\* requireAAL2 lets the request through, for a session that asks for AAL2.
PassesAal2(phishing) ==
  session.verified \/ (session.remembered /\ ~phishing)

\* requireAAL2 turns a remembered device into a verified session.
RequireAal2 ==
  /\ session' = IF ~session.verified /\ session.remembered
                  THEN [verified |-> TRUE, method |-> "remembered", remembered |-> TRUE]
                  ELSE session
  /\ UNCHANGED <<step, body, seen, clock, factorVars, limitVars>>

\* requirePhishingResistant; no handler writes the method piv.
PassesPhishingResistant == session.verified /\ session.method \in {"webauthn", "piv"}

\* POST /x509/extract notes a certificate that the edge has verified in the
\* session, and nothing about MFA.
PresentCard(i) ==
  /\ card' = i
  /\ shown' = shown \cup {i}

\* requireHSPD12 lets the request through, for a session that asks for it.
PassesHspd12 == card = "federal"

\* Methods with a row in credentials; SMS has none.
Configured ==
  {m \in Methods : \/ m = "totp" /\ totpRows > 0
                   \/ m = "backup" /\ \E g \in Gens : backup[g].live
                   \/ m = "webauthn" /\ enrolled = "yes"}

\* GET /mfa/challenge, by what the session asks for.
Offered(asks) ==
  IF asks = "hspd12" THEN {"piv"}
  ELSE IF asks = "phishing_resistant" THEN (Configured \cap {"webauthn"}) \cup {"piv"}
  ELSE Configured
-----------------------------------------------------------------------------
\* A verify request takes its next step.
Advance(r) ==
  \/ CheckLock(r) \/ CheckCount(r)
  \/ LookTotp(r) \/ MarkTotp(r)
  \/ LookSms(r) \/ DeleteSms(r)
  \/ LookBackup(r) \/ UpdateBackup(r)
  \/ FetchChallenge(r) \/ DeleteChallenge(r) \/ CheckAssertion(r) \/ StoreSignCount(r)
  \/ ReadCount(r) \/ Record(r) \/ Lock(r) \/ ClearCount(r)
  \/ \E remember \in BOOLEAN : MarkSession(r, remember)

\* Factors are set up, codes and challenges sent, entries expire.
Provide ==
  \/ LookForTotp \/ InsertTotp \/ Tick
  \/ SendSms \/ SendsExpire \/ SmsExpires
  \/ \E k \in Secrets : SendText(k) \/ TextFails(k)
  \/ \E g \in Gens : DropBackup(g) \/ StoreBackup(g)
  \/ OfferRegistration \/ OpenRegistration \/ InsertCredential \/ RegistrationEnds
  \/ GiveChallenge \/ ChallengeExpires
  \/ CountExpires

Next ==
  \/ \E r \in Requests : Advance(r) \/ Abort(r)
  \/ Provide
  \/ RequireAal2

Cards == \E i \in Issuers : PresentCard(i)

MfaNext == (Next /\ UNCHANGED cardVars) \/ (Cards /\ UNCHANGED vars)

Spec == Init /\ [][MfaNext]_<<vars, cardVars>>
-----------------------------------------------------------------------------
(***************************************************************************)
(* What MFA promises.                                                      *)
(***************************************************************************)

Presents(r, m, v) == Uses(r, m) /\ body[r].value = v

\* Requests that consumed the secret, and that found it good, or read the
\* challenge it answers, but have not.
Winners(m, v) ==
  {r \in Requests : Presents(r, m, v) /\ step[r] \in {"consumed", "cleared", "verified"}}

Holders(m, v) ==
  {r \in Requests :
     /\ Presents(r, m, v)
     /\ \/ step[r] = "matched"
        \/ step[r] \in {"fetched", "deleted"} /\ seen[r].n = v}

Spent(m, v) == Winners(m, v) # {} /\ Holders(m, v) = {}

StampsDiffer == \A q, r \in Requests : StampOf[q] = StampOf[r] => q = r

\* A secret is good once: when a request has consumed a code, a backup code
\* or a challenge, and no other request had found it good by then, no later
\* request consumes it, whatever is sent again, expires, is regenerated or is
\* written back by requests with other secrets (totp.ts, sms-otp.ts,
\* backup-codes.ts with times that differ, webauthn.ts).
FactorsSpent ==
  [][\A m \in Methods, v \in Secrets :
       Spent(m, v) /\ (m = "backup" => StampsDiffer) =>
         Holders(m, v)' = {} /\ Winners(m, v)' \subseteq Winners(m, v)]_vars

\* No two assertions with one sign count are accepted, as a clone of the
\* authenticator would present them, and the count stored goes back to zero
\* only: unless an authenticator that keeps no count set it back to zero, or
\* two assertions were good at a time (webauthn.ts checks the count when it
\* verifies, lets zero pass, and stores the count in a later call).
SignCountKept ==
  /\ [](\/ crossed \/ \E r \in counted : seen[r].n = 0
        \/ \A q, r \in counted : seen[q].n = seen[r].n => q = r)
  /\ [][signCount' >= signCount \/ signCount' = 0 \/ crossed]_vars

\* A session that a gate lets through had a factor verified to the end: one
\* requirePhishingResistant lets through, with WebAuthn.  A remembered device
\* opens no session by itself: the branch of requireAAL2 for it is never
\* taken, as the device is remembered in the call that marks the session.  A
\* card opens the gate for cards only: not requirePhishingResistant, although
\* /mfa/challenge offers it there.
GatesSound ==
  /\ \A phishing \in BOOLEAN :
       PassesAal2(phishing) => \E r \in Requests : step[r] = "verified"
  /\ PassesPhishingResistant =>
       /\ \E r \in Requests : step[r] = "verified" /\ Uses(r, "webauthn")
       /\ session.method \in Offered("phishing_resistant")
  /\ PassesHspd12 => "federal" \in shown
  /\ session.remembered => session.verified
  /\ session.method # "remembered"

\* The counter counts the failures since it was last gone, and stops at its
\* limit, as long as no two requests count at a time (recordFailedAttempt and
\* clearRateLimit); a full counter that nobody raced for is what locks.
FailuresCount ==
  ~raced => attempts = AtMost(Cardinality(streak), MaxFailed)
=============================================================================
