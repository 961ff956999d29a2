----------------------------- MODULE FactorsProofs -----------------------------
(***************************************************************************)
(* Theorems about Mfa and Account, and about the two in one specification  *)
(* as MCFactors puts them: for any requests, secrets, limits, rows,        *)
(* addresses and links.  First the factors, then the account, then both.   *)
(***************************************************************************)
EXTENDS MCFactors, FiniteSetTheorems, TLAPS

(***************************************************************************)
(* The inductive invariant of the factors and cards (Mfa).                 *)
(***************************************************************************)

\* A secret was consumed.
Done == {"consumed", "cleared", "verified"}

\* What a request presents was there to be presented.
Presented ==
  \A r \in Requests :
    step[r] # "new" /\ body[r].value # 0 =>
      /\ Uses(r, "sms") => body[r].value <= sent
      /\ Uses(r, "webauthn") => body[r].value <= given /\ enrolled = "yes"

\* Requests are where the handler of their method is; a wrong secret is not matched.
StepsSound ==
  \A r \in Requests :
    /\ step[r] \in {"fetched", "deleted"} => Uses(r, "webauthn")
    /\ step[r] \in {"matched"} \cup Done => body[r].value \in Secrets

\* What is in the session has been verified.
SessionSound ==
  /\ session.verified =>
       \E r \in Requests : step[r] = "verified" /\ body[r].method = session.method
  /\ session.remembered => session.verified
  /\ session.method # "remembered"

CardSound == card = "federal" => "federal" \in shown

\* Every request of the streak has counted its failure.
StreakSound ==
  /\ IsFiniteSet(streak)
  /\ \A r \in streak : step[r] \in {"locking", "failed", "refused"}
  /\ ~raced => attempts = AtMost(Cardinality(streak), MaxFailed)

\* A good assertion counts higher than the credential, the stored counts are
\* of requests that are done with it, and the credential has the highest.
AssertionsSound ==
  /\ \A r \in Requests :
       step[r] = "matched" /\ Uses(r, "webauthn") =>
         crossed \/ seen[r].n = 0 \/ seen[r].n > signCount
  /\ \A r \in counted : step[r] \in Done \cup {"refused"}
  /\ \/ crossed \/ \E r \in counted : seen[r].n = 0
     \/ /\ \A r \in counted : seen[r].n <= signCount
        /\ \A q, r \in counted : seen[q].n = seen[r].n => q = r

\* The marker of a consumed code lasts until its time step is over.
TotpSound ==
  \A r \in Requests :
    LET k == body[r].value IN
    Uses(r, "totp") =>
      /\ step[r] = "matched" => k <= clock + 1
      /\ step[r] \in Done => clock + marker[k] >= k + 2

\* Codes are sent in order, and a consumed one is not stored.
SmsSound ==
  /\ otp <= sent
  /\ \A k \in Secrets : texts[k] > 0 \/ k \in received => k <= sent
  /\ \A r \in Requests : Uses(r, "sms") /\ step[r] \in Done => otp # body[r].value

\* Challenges are given in order, and one that was taken is not stored.
ChallengeSound ==
  /\ challenge <= given
  /\ \A r \in Requests :
       /\ Uses(r, "webauthn")
       /\ \/ step[r] \in {"matched"} \cup Done
          \/ step[r] = "deleted" /\ seen[r].n = body[r].value /\ body[r].value # 0
       => challenge # body[r].value

\* A request found a backup code good.
HoldsRow(r) == step[r] = "matched" /\ Uses(r, "backup")

\* A time that was written by a request whose update is over.
Stamped(last) ==
  last # 0 =>
    \E y \in Requests : StampOf[y] = last /\ step[y] \in Done \cup {"refused"}

\* Rows are of stored generations, and carry the times of updates.
RowsSound ==
  /\ \A g \in Gens : backup[g].live => regen[g] = "stored"
  /\ \A g \in Gens : Stamped(backup[g].last)
  /\ \A r \in Requests : HoldsRow(r) =>
       /\ seen[r].gen \in Gens /\ regen[seen[r].gen] = "stored"
       /\ GenOf[body[r].value] = seen[r].gen
       /\ Stamped(seen[r].row.last)

\* A row that carries the time it was read with is the row that was read.
ReadsSound ==
  \A r \in Requests :
    /\ HoldsRow(r) /\ backup[seen[r].gen].live
    /\ seen[r].row.last = backup[seen[r].gen].last
    => backup[seen[r].gen].used \subseteq seen[r].row.used

\* A consumed code is marked in its row, as long as the row is there.
CodesMarked ==
  \A r \in Requests :
    Uses(r, "backup") /\ step[r] \in Done =>
      LET g == GenOf[body[r].value] IN
      g \in Gens /\ regen[g] = "stored" /\ (backup[g].live => body[r].value \in backup[g].used)

BackupSound == RowsSound /\ (StampsDiffer => ReadsSound /\ CodesMarked)

MfaInv ==
  /\ MfaTypeOK /\ Presented /\ StepsSound /\ SessionSound /\ CardSound /\ StreakSound
  /\ AssertionsSound /\ TotpSound /\ SmsSound /\ ChallengeSound /\ BackupSound
-----------------------------------------------------------------------------
(***************************************************************************)
(* Types, part by part.                                                    *)
(***************************************************************************)

RequestTypes ==
  /\ step \in [Requests -> {"new"} \cup Running \cup Over]
  /\ body \in [Requests -> [method : Methods, value : Secrets \cup {0}]]
  /\ seen \in [Requests -> Seen]

TotpTypes ==
  /\ clock \in 0..LastStep
  /\ totpRows \in Nat /\ settingUp \in 0..MaxSetups
  /\ marker \in [Secrets -> 0..ReplayTtl]

SmsTypes ==
  /\ otp \in Secrets \cup {0} /\ sent \in Nat
  /\ sends \in 0..MaxSends
  /\ texts \in [Secrets -> 0..MaxTries] /\ received \subseteq Secrets

BackupTypes ==
  /\ backup \in [Gens -> BackupRow]
  /\ regen \in [Gens -> {"none", "deleting", "stored"}]

WebauthnTypes ==
  /\ enrolled \in {"none", "offered", "opened", "yes"}
  /\ challenge \in Secrets \cup {0} /\ given \in Nat
  /\ signCount \in Nat /\ counted \subseteq Requests /\ crossed \in BOOLEAN

LimitTypes ==
  /\ attempts \in 0..MaxFailed /\ locked \in BOOLEAN
  /\ streak \subseteq Requests /\ raced \in BOOLEAN

OtherTypes ==
  session \in SessionState /\ card \in Issuers \cup {"none"} /\ shown \subseteq Issuers

MfaTypes ==
  /\ RequestTypes /\ TotpTypes /\ SmsTypes /\ BackupTypes /\ WebauthnTypes
  /\ LimitTypes /\ OtherTypes

\* The type invariant, part by part.
LEMMA TypesByPart ==
  MfaTypeOK <=> MfaTypes
BY DEF MfaTypeOK, MfaTypes, RequestTypes, TotpTypes, SmsTypes, BackupTypes, WebauthnTypes,
       LimitTypes, OtherTypes

\* The type invariant of the next state, part by part.
LEMMA TypesByPartNext ==
  MfaTypeOK' <=> MfaTypes'
BY DEF MfaTypeOK, MfaTypes, RequestTypes, TotpTypes, SmsTypes, BackupTypes, WebauthnTypes,
       LimitTypes, OtherTypes

\* The invariant includes the types of every part.
LEMMA Types ==
  ASSUME MfaInv
  PROVE  MfaTypes
BY TypesByPart DEF MfaInv

\* What a request presents is of a known method, and a natural number.
LEMMA Bodies ==
  ASSUME MfaInv
  PROVE  /\ Secrets \subseteq Nat \ {0}
         /\ \A r \in Requests : body[r].method \in Methods
         /\ \A r \in Requests : body[r].value \in Secrets \cup {0}
         /\ \A r \in Requests : body[r].value \in Nat
<1>1. RequestTypes
  BY Types DEF MfaTypes
<1>2. Secrets \subseteq Nat \ {0}
  BY MfaAssumption
<1>3. \A r \in Requests : body[r] \in [method : Methods, value : Secrets \cup {0}]
  BY <1>1 DEF RequestTypes
<1>4. \A r \in Requests : body[r].method \in Methods /\ body[r].value \in Secrets \cup {0}
  BY <1>3
<1>5. \A v \in Secrets \cup {0} : v \in Nat
  BY <1>2
<1> QED
  BY <1>2, <1>4, <1>5

LEMMA MfaInitInv ==
  Init /\ card = "none" /\ shown = {} => MfaInv
<1> SUFFICES ASSUME Init, card = "none", shown = {} PROVE MfaInv
  OBVIOUS
<1> USE MfaAssumption
<1>1. NoRow \in BackupRow
  BY DEF NoRow, BackupRow
<1>2. Nothing \in Seen
  BY <1>1 DEF Nothing, Seen
<1>3. RequestTypes
  BY <1>2 DEF Init, RequestTypes
<1>4. TotpTypes /\ WebauthnTypes
  <2>1. 0 \in 0..LastStep /\ 0 \in 0..MaxSetups /\ 0 \in 0..ReplayTtl
    OBVIOUS
  <2>2. TotpTypes
    BY <2>1 DEF Init, TotpTypes
  <2> QED
    BY <2>2 DEF Init, WebauthnTypes
<1>5. SmsTypes
  BY DEF Init, SmsTypes
<1>6. BackupTypes
  BY <1>1 DEF Init, BackupTypes
<1>7. LimitTypes
  <2>1. 0 \in 0..MaxFailed
    OBVIOUS
  <2> QED
    BY <2>1 DEF Init, LimitTypes
<1>8. OtherTypes
  BY DEF Init, OtherTypes, SessionState
<1>9. Presented /\ StepsSound /\ AssertionsSound /\ TotpSound
  BY DEF Init, Presented, StepsSound, AssertionsSound, TotpSound, Done
<1>10. SessionSound /\ CardSound
  BY DEF Init, SessionSound, CardSound
<1>11. StreakSound
  <2>1. IsFiniteSet({}) /\ Cardinality({}) = 0
    BY FS_EmptySet
  <2> QED
    BY <2>1 DEF Init, StreakSound, AtMost
<1>12. SmsSound /\ ChallengeSound
  BY DEF Init, SmsSound, ChallengeSound, Done
<1>13. BackupSound
  BY DEF Init, BackupSound, RowsSound, ReadsSound, CodesMarked, HoldsRow, Stamped, NoRow, Done
<1> QED
  BY <1>3, <1>4, <1>5, <1>6, <1>7, <1>8, <1>9, <1>10, <1>11, <1>12, <1>13, TypesByPart
     DEF MfaTypes, MfaInv
-----------------------------------------------------------------------------
(***************************************************************************)
(* What most steps leave alone.                                            *)
(***************************************************************************)

\* A request comes no further with its secret.
Settles(q) ==
  /\ step'[q] \in {"fetched", "deleted", "matched"} =>
       step'[q] = step[q] /\ seen'[q] = seen[q]
  /\ step'[q] \in Done => step[q] \in Done

Still(m) == \A q \in Requests : Uses(q, m) => Settles(q)

\* A request does not go back.
Onward(q) ==
  /\ step[q] = "verified" => step'[q] = "verified"
  /\ step[q] \in Done \cup {"refused"} =>
       step'[q] \in Done \cup {"refused"} /\ seen'[q] = seen[q]
  /\ step[q] \in {"locking", "failed", "refused"} =>
       step'[q] \in {"locking", "failed", "refused"}
  /\ step[q] # "new" \/ step'[q] = "new" \/ Obtainable(q)

AllOnward == UNCHANGED body /\ \A q \in Requests : Onward(q)

\* Requests that only go on present what has been sent or given.
LEMMA PresentedKept ==
  ASSUME MfaInv, AllOnward, sent' \in Nat, sent <= sent', given' \in Nat, given <= given',
         enrolled = "yes" => enrolled' = "yes"
  PROVE  Presented'
<1> SUFFICES ASSUME NEW r \in Requests, step'[r] # "new", body[r].value # 0
             PROVE  /\ Uses(r, "sms") => body[r].value <= sent'
                    /\ Uses(r, "webauthn") => body[r].value <= given' /\ enrolled' = "yes"
  BY DEF AllOnward, Presented, Uses
<1>1. body[r].value \in Secrets /\ body[r].value \in Nat /\ sent \in Nat /\ given \in Nat
  BY Bodies, Types DEF MfaTypes, SmsTypes, WebauthnTypes
<1>2. CASE step[r] # "new"
  BY <1>1, <1>2 DEF MfaInv, Presented
<1>3. CASE Obtainable(r)
  BY <1>1, <1>3 DEF MfaInv, SmsSound, Obtainable, Uses
<1> QED
  BY <1>2, <1>3 DEF AllOnward, Onward

\* Where no request comes further, all are where their method allows.
LEMMA StepsKept ==
  ASSUME MfaInv, UNCHANGED body, \A q \in Requests : Settles(q)
  PROVE  StepsSound'
BY DEF MfaInv, StepsSound, Settles, Uses

\* A session that stays as it is keeps the request that verified it.
LEMMA SessionKept ==
  ASSUME MfaInv, AllOnward, UNCHANGED session
  PROVE  SessionSound'
BY DEF MfaInv, SessionSound, AllOnward, Onward

\* A card that stays as it is keeps the record of being shown.
LEMMA CardKept ==
  ASSUME MfaInv, UNCHANGED cardVars
  PROVE  CardSound'
BY DEF MfaInv, CardSound, cardVars

\* The session and the card keep their types.
LEMMA OtherTypesKept ==
  ASSUME MfaInv, UNCHANGED <<session, cardVars>>
  PROVE  OtherTypes'
BY Types DEF MfaTypes, OtherTypes, cardVars

\* The count and the streak agree while neither moves.
LEMMA StreakKept ==
  ASSUME MfaInv, AllOnward, UNCHANGED <<attempts, streak>>, raced => raced'
  PROVE  StreakSound'
BY Types DEF MfaInv, MfaTypes, LimitTypes, StreakSound, AllOnward, Onward

\* The limiter stays sound when it is not touched.
LEMMA LimitsKept ==
  ASSUME MfaInv, AllOnward, UNCHANGED limitVars
  PROVE  LimitTypes' /\ StreakSound'
BY StreakKept, Types DEF MfaTypes, LimitTypes, limitVars

\* Good assertions stay good while the stored count does not move.
LEMMA AssertionsKept ==
  ASSUME MfaInv, AllOnward, UNCHANGED countVars,
         \A q \in Requests : step'[q] = "matched" /\ Uses(q, "webauthn") =>
           step[q] = "matched" /\ seen'[q] = seen[q]
  PROVE  AssertionsSound'
<1>1. UNCHANGED <<body, signCount, counted, crossed>> /\ counted \subseteq Requests
  BY Types DEF AllOnward, countVars, MfaTypes, WebauthnTypes
<1>2. \A q \in counted : step'[q] \in Done \cup {"refused"} /\ seen'[q] = seen[q]
  BY <1>1 DEF AllOnward, Onward, MfaInv, AssertionsSound
<1>3. \A q \in Requests : step'[q] = "matched" /\ Uses(q, "webauthn")' =>
        crossed \/ seen'[q].n = 0 \/ seen'[q].n > signCount
  BY <1>1 DEF MfaInv, AssertionsSound, Uses
<1>4. \/ crossed \/ \E r \in counted : seen'[r].n = 0
      \/ /\ \A r \in counted : seen'[r].n <= signCount
         /\ \A q, r \in counted : seen'[q].n = seen'[r].n => q = r
  BY <1>2 DEF MfaInv, AssertionsSound
<1> QED
  BY <1>1, <1>2, <1>3, <1>4 DEF AssertionsSound

\* The authenticator factor, when it is not touched.
LEMMA TotpKept ==
  ASSUME MfaInv, UNCHANGED <<body, clock, totpVars>>, Still("totp")
  PROVE  TotpTypes' /\ TotpSound'
<1>1. TotpTypes'
  BY Types DEF MfaTypes, TotpTypes, totpVars
<1>2. TotpSound'
  BY DEF MfaInv, TotpSound, Still, Settles, Uses, totpVars
<1> QED
  BY <1>1, <1>2

\* The factor of text messages, when it is not touched.
LEMMA SmsKept ==
  ASSUME MfaInv, UNCHANGED <<body, smsVars>>, Still("sms")
  PROVE  SmsTypes' /\ SmsSound'
<1>1. SmsTypes'
  BY Types DEF MfaTypes, SmsTypes, smsVars
<1>2. SmsSound'
  BY DEF MfaInv, SmsSound, Still, Settles, Uses, smsVars
<1> QED
  BY <1>1, <1>2

\* The challenge, when it is not touched.
LEMMA ChallengeKept ==
  ASSUME MfaInv, UNCHANGED <<body, challenge, given>>, Still("webauthn")
  PROVE  ChallengeSound'
BY DEF MfaInv, ChallengeSound, Still, Settles, Uses

\* The passkey factor, when it is not touched.
LEMMA WebauthnKept ==
  ASSUME MfaInv, AllOnward, UNCHANGED webauthnVars, Still("webauthn")
  PROVE  WebauthnTypes' /\ ChallengeSound' /\ AssertionsSound'
<1>1. WebauthnTypes'
  BY Types DEF MfaTypes, WebauthnTypes, webauthnVars, countVars
<1>2. UNCHANGED <<body, challenge, given, countVars>>
  BY DEF webauthnVars, AllOnward
<1>3. ChallengeSound'
  BY <1>2, ChallengeKept
<1>4. AssertionsSound'
  BY <1>2, AssertionsKept DEF Still, Settles
<1> QED
  BY <1>1, <1>3, <1>4

\* A time that an update left has still been left by it.
LEMMA StampedKept ==
  ASSUME AllOnward, NEW last, Stamped(last)
  PROVE  /\ last # 0 => \E y \in Requests : StampOf[y] = last /\ step'[y] \in Done \cup {"refused"}
BY DEF Stamped, AllOnward, Onward

\* The backup codes, when they are not touched.
LEMMA BackupKept ==
  ASSUME MfaInv, AllOnward, UNCHANGED backupVars, Still("backup")
  PROVE  BackupTypes' /\ BackupSound'
<1>1. BackupTypes'
  BY Types DEF MfaTypes, BackupTypes, backupVars
<1>2. UNCHANGED <<body, backup, regen>>
  BY DEF AllOnward, backupVars
<1>3. \A r \in Requests : HoldsRow(r)' => HoldsRow(r) /\ seen'[r] = seen[r]
  BY <1>2 DEF HoldsRow, Still, Settles, Uses
<1>4. \A g \in Gens : Stamped(backup[g].last)'
  BY <1>2, StampedKept DEF MfaInv, BackupSound, RowsSound, Stamped
<1>5. \A r \in Requests : HoldsRow(r)' => Stamped(seen[r].row.last)'
  <2> SUFFICES ASSUME NEW r \in Requests, HoldsRow(r)', seen'[r].row.last # 0
               PROVE  \E y \in Requests :
                        StampOf[y] = seen'[r].row.last /\ step'[y] \in Done \cup {"refused"}
    BY DEF Stamped
  <2>1. Stamped(seen[r].row.last) /\ seen'[r] = seen[r]
    BY <1>3 DEF MfaInv, BackupSound, RowsSound
  <2> QED
    BY <2>1, StampedKept
<1>6. RowsSound'
  BY <1>2, <1>3, <1>4, <1>5 DEF MfaInv, BackupSound, RowsSound
<1>7. StampsDiffer => ReadsSound'
  BY <1>2, <1>3 DEF MfaInv, BackupSound, ReadsSound
<1>8. StampsDiffer => CodesMarked'
  BY <1>2 DEF MfaInv, BackupSound, CodesMarked, Still, Settles, Uses
<1> QED
  BY <1>1, <1>6, <1>7, <1>8 DEF BackupSound, StampsDiffer
-----------------------------------------------------------------------------
(***************************************************************************)
(* One request takes a step.                                               *)
(***************************************************************************)

Steps == {"new"} \cup Running \cup Over

\* Only request r moves, to step s.
Reaches(r, s) ==
  /\ UNCHANGED body /\ step'[r] = s
  /\ \A q \in Requests \ {r} : step'[q] = step[q] /\ seen'[q] = seen[q]

\* GoTo brings its request to s and leaves what it holds alone.
LEMMA GoToReaches ==
  ASSUME MfaInv, NEW r \in Requests, NEW s \in Steps, GoTo(r, s), UNCHANGED <<body, seen>>
  PROVE  RequestTypes' /\ Reaches(r, s) /\ seen'[r] = seen[r]
<1>1. RequestTypes
  BY Types DEF MfaTypes
<1> QED
  BY <1>1 DEF RequestTypes, GoTo, Reaches, Steps

\* GoTo with Holding brings its request to s with what it has read.
LEMMA HoldingReaches ==
  ASSUME MfaInv, NEW r \in Requests, NEW s \in Steps, GoTo(r, s), UNCHANGED body,
         NEW n \in Nat, NEW g \in Nat, NEW row \in BackupRow, Holding(r, n, g, row)
  PROVE  RequestTypes' /\ Reaches(r, s) /\ seen'[r] = [n |-> n, gen |-> g, row |-> row]
<1>1. RequestTypes
  BY Types DEF MfaTypes
<1>2. [n |-> n, gen |-> g, row |-> row] \in Seen
  BY DEF Seen
<1>3. seen' \in [Requests -> Seen]
  BY <1>1, <1>2 DEF RequestTypes, Holding
<1>4. step' \in [Requests -> Steps]
  BY <1>1 DEF RequestTypes, GoTo, Steps
<1>5. /\ seen'[r] = [n |-> n, gen |-> g, row |-> row]
      /\ \A q \in Requests \ {r} : seen'[q] = seen[q]
  BY <1>1 DEF RequestTypes, Holding
<1>6. step'[r] = s /\ \A q \in Requests \ {r} : step'[q] = step[q]
  BY <1>1 DEF RequestTypes, GoTo
<1> QED
  BY <1>1, <1>3, <1>4, <1>5, <1>6 DEF RequestTypes, Reaches, Steps

\* When the one request that moves goes on, all do.
LEMMA ReachesOnward ==
  ASSUME MfaInv, NEW r \in Requests, NEW s, Reaches(r, s), Onward(r)
  PROVE  AllOnward
<1>1. \A q \in Requests \ {r} : Onward(q)
  BY DEF Reaches, Onward
<1> QED
  BY <1>1 DEF AllOnward, Reaches

\* A method that the one moving request does not advance is at rest.
LEMMA ReachesStill ==
  ASSUME MfaInv, NEW r \in Requests, NEW s, Reaches(r, s), NEW m, Settles(r) \/ ~Uses(r, m)
  PROVE  Still(m)
<1>1. \A q \in Requests \ {r} : Settles(q)
  BY DEF Reaches, Settles
<1> QED
  BY <1>1 DEF Still

\* All are where their method allows when the one that moves is.
LEMMA StepsReach ==
  ASSUME MfaInv, NEW r \in Requests, NEW s, Reaches(r, s),
         s \in {"fetched", "deleted"} => Uses(r, "webauthn"),
         s \in {"matched"} \cup Done => body[r].value \in Secrets
  PROVE  StepsSound'
BY DEF MfaInv, StepsSound, Reaches, Uses

\* A step of r that changes nothing but its own progress and the limiter.
LEMMA PlainStep ==
  ASSUME MfaInv, NEW r \in Requests, NEW s, Reaches(r, s), RequestTypes', Onward(r),
         Settles(r), UNCHANGED <<clock, factorVars, cardVars>>, raced => raced',
         LimitTypes', StreakSound', session' \in SessionState, SessionSound'
  PROVE  MfaInv'
<1>1. AllOnward /\ Still("totp") /\ Still("sms") /\ Still("backup") /\ Still("webauthn")
  BY ReachesOnward, ReachesStill
<1>2. UNCHANGED <<totpVars, smsVars, backupVars, webauthnVars, sent, given, enrolled>>
  BY DEF factorVars, smsVars, webauthnVars
<1>3. sent \in Nat /\ given \in Nat
  BY Types DEF MfaTypes, SmsTypes, WebauthnTypes
<1>4. Presented'
  BY <1>1, <1>2, <1>3, PresentedKept
<1>5. \A q \in Requests : Settles(q)
  BY DEF Reaches, Settles
<1>6. StepsSound'
  BY <1>5, StepsKept DEF Reaches
<1>7. TotpTypes' /\ TotpSound' /\ SmsTypes' /\ SmsSound'
  BY <1>1, <1>2, TotpKept, SmsKept DEF AllOnward
<1>8. WebauthnTypes' /\ ChallengeSound' /\ AssertionsSound'
  BY <1>1, <1>2, WebauthnKept DEF AllOnward
<1>9. BackupTypes' /\ BackupSound'
  BY <1>1, <1>2, BackupKept
<1>10. CardSound' /\ OtherTypes'
  BY CardKept, Types DEF MfaTypes, OtherTypes, cardVars
<1> QED
  BY <1>4, <1>6, <1>7, <1>8, <1>9, <1>10, TypesByPartNext DEF MfaTypes, MfaInv

\* The steps of a request that consume nothing, at a place a failure leads to as well.
LEMMA QuietStep ==
  ASSUME MfaInv, NEW r \in Requests, NEW s \in Steps, Reaches(r, s), RequestTypes',
         Onward(r), Settles(r), UNCHANGED <<clock, factorVars, limitVars, session, cardVars>>
  PROVE  MfaInv'
<1>1. AllOnward
  BY ReachesOnward
<1>2. LimitTypes' /\ StreakSound' /\ SessionSound'
  BY <1>1, LimitsKept, SessionKept
<1>3. session' \in SessionState /\ (raced => raced')
  BY Types DEF MfaTypes, OtherTypes, limitVars
<1> QED
  BY <1>2, <1>3, PlainStep
-----------------------------------------------------------------------------
(***************************************************************************)
(* The limiter and the session.                                            *)
(***************************************************************************)

LEMMA CheckLockStep ==
  ASSUME MfaInv, NEW r \in Requests, CheckLock(r), UNCHANGED cardVars
  PROVE  MfaInv'
<1>1. PICK s \in {"refused", "unlocked"} : GoTo(r, s)
  BY DEF CheckLock
<1>2. /\ UNCHANGED <<body, seen, clock, factorVars, limitVars, session>>
      /\ step[r] = "new" /\ Obtainable(r) /\ s \in Steps
  BY DEF CheckLock, Steps, Running, Over
<1>3. RequestTypes' /\ Reaches(r, s)
  BY <1>1, <1>2, GoToReaches
<1>4. Onward(r) /\ Settles(r)
  BY <1>2, <1>3 DEF Onward, Settles, Reaches, Done
<1> QED
  BY <1>2, <1>3, <1>4, QuietStep

LEMMA CheckCountStep ==
  ASSUME MfaInv, NEW r \in Requests, CheckCount(r), UNCHANGED cardVars
  PROVE  MfaInv'
<1>1. PICK s \in {"refused", "checked"} : GoTo(r, s)
  BY DEF CheckCount
<1>2. /\ UNCHANGED <<body, seen, clock, factorVars, attempts, streak, raced, session>>
      /\ step[r] = "unlocked" /\ s \in Steps /\ locked' = (locked \/ attempts >= MaxFailed)
  BY DEF CheckCount, Steps, Running, Over
<1>3. RequestTypes' /\ Reaches(r, s)
  BY <1>1, <1>2, GoToReaches
<1>4. Onward(r) /\ Settles(r)
  BY <1>2, <1>3 DEF Onward, Settles, Reaches, Done
<1>5. AllOnward
  BY <1>3, <1>4, ReachesOnward
<1>6. StreakSound' /\ SessionSound'
  BY <1>2, <1>5, StreakKept, SessionKept
<1>7. locked' \in BOOLEAN
  BY <1>2
<1>8. LimitTypes' /\ session' \in SessionState
  BY <1>2, <1>7, Types DEF MfaTypes, LimitTypes, OtherTypes
<1> QED
  BY <1>2, <1>3, <1>4, <1>6, <1>8, PlainStep

LEMMA ReadCountStep ==
  ASSUME MfaInv, NEW r \in Requests, ReadCount(r), UNCHANGED cardVars
  PROVE  MfaInv'
<1>1. /\ UNCHANGED <<body, clock, factorVars, limitVars, session>>
      /\ step[r] = "wrong" /\ GoTo(r, "counting") /\ Holding(r, attempts, 0, NoRow)
      /\ "counting" \in Steps
  BY DEF ReadCount, Steps, Running
<1>2. attempts \in Nat /\ NoRow \in BackupRow
  BY Types, MfaAssumption DEF MfaTypes, LimitTypes, NoRow, BackupRow
<1>3. RequestTypes' /\ Reaches(r, "counting")
  BY <1>1, <1>2, HoldingReaches
<1>4. Onward(r) /\ Settles(r)
  BY <1>1, <1>3 DEF Onward, Settles, Reaches, Done
<1> QED
  BY <1>1, <1>3, <1>4, QuietStep

\* One failure more is counted, up to the limit.
LEMMA StreakGrows ==
  ASSUME NEW S, IsFiniteSet(S), NEW x, x \notin S, NEW limit \in Nat
  PROVE  /\ IsFiniteSet(S \cup {x})
         /\ AtMost(AtMost(Cardinality(S), limit) + 1, limit)
              = AtMost(Cardinality(S \cup {x}), limit)
<1>1. /\ IsFiniteSet(S \cup {x}) /\ Cardinality(S) \in Nat
      /\ Cardinality(S \cup {x}) = Cardinality(S) + 1
  BY FS_AddElement, FS_CardinalityType
<1> QED
  BY <1>1 DEF AtMost

LEMMA RecordStep ==
  ASSUME MfaInv, NEW r \in Requests, Record(r), UNCHANGED cardVars
  PROVE  MfaInv'
<1>1. PICK s \in {"locking", "failed"} : GoTo(r, s)
  BY DEF Record
<1>2. /\ UNCHANGED <<body, seen, clock, factorVars, locked, session>>
      /\ step[r] = "counting" /\ s \in Steps
      /\ attempts' = AtMost(seen[r].n + 1, MaxFailed) /\ streak' = streak \cup {r}
      /\ raced' = (raced \/ seen[r].n # attempts)
  BY DEF Record, Counted, Steps, Running, Over
<1>3. RequestTypes' /\ Reaches(r, s)
  BY <1>1, <1>2, GoToReaches
<1>4. Onward(r) /\ Settles(r)
  BY <1>2, <1>3 DEF Onward, Settles, Reaches, Done
<1>5. AllOnward
  BY <1>3, <1>4, ReachesOnward
<1>6. MaxFailed \in Nat /\ seen[r].n \in Nat
  BY MfaAssumption, Types DEF MfaTypes, RequestTypes, Seen
<1>7. attempts' \in 0..MaxFailed /\ raced' \in BOOLEAN
  BY <1>2, <1>6 DEF AtMost
<1>8. LimitTypes' /\ session' \in SessionState
  BY <1>2, <1>7, Types DEF MfaTypes, LimitTypes, OtherTypes
<1>9. r \notin streak /\ IsFiniteSet(streak)
  BY <1>2 DEF MfaInv, StreakSound
<1>10. StreakSound'
  <2>1. IsFiniteSet(streak')
    BY <1>2, <1>6, <1>9, StreakGrows
  <2>2. \A q \in streak' : step'[q] \in {"locking", "failed", "refused"}
    BY <1>2, <1>3, Types DEF MfaTypes, LimitTypes, MfaInv, StreakSound, Reaches
  <2>3. ASSUME ~raced' PROVE attempts' = AtMost(Cardinality(streak'), MaxFailed)
    <3>1. attempts = AtMost(Cardinality(streak), MaxFailed) /\ seen[r].n = attempts
      BY <1>2, <2>3 DEF MfaInv, StreakSound
    <3> QED
      BY <1>2, <1>6, <1>9, <3>1, StreakGrows
  <2> QED
    BY <2>1, <2>2, <2>3 DEF StreakSound
<1>11. SessionSound'
  BY <1>2, <1>5, SessionKept
<1> QED
  BY <1>2, <1>3, <1>4, <1>8, <1>10, <1>11, PlainStep

LEMMA LockStep ==
  ASSUME MfaInv, NEW r \in Requests, Lock(r), UNCHANGED cardVars
  PROVE  MfaInv'
<1>1. /\ UNCHANGED <<body, seen, clock, factorVars, attempts, streak, raced, session>>
      /\ step[r] = "locking" /\ GoTo(r, "failed") /\ "failed" \in Steps /\ locked' = TRUE
  BY DEF Lock, Steps, Over
<1>2. RequestTypes' /\ Reaches(r, "failed")
  BY <1>1, GoToReaches
<1>3. Onward(r) /\ Settles(r)
  BY <1>1, <1>2 DEF Onward, Settles, Reaches, Done
<1>4. AllOnward
  BY <1>2, <1>3, ReachesOnward
<1>5. StreakSound' /\ SessionSound'
  BY <1>1, <1>4, StreakKept, SessionKept
<1>6. LimitTypes' /\ session' \in SessionState
  BY <1>1, Types DEF MfaTypes, LimitTypes, OtherTypes
<1> QED
  BY <1>1, <1>2, <1>3, <1>5, <1>6, PlainStep

\* The counter is gone, and the streak with it.
LEMMA StreakGone ==
  ASSUME MfaInv, attempts' = 0, streak' = {}, UNCHANGED <<locked, raced>>
  PROVE  LimitTypes' /\ StreakSound'
<1>1. IsFiniteSet({}) /\ Cardinality({}) = 0 /\ MaxFailed \in Nat
  BY FS_EmptySet, MfaAssumption
<1>2. StreakSound'
  BY <1>1 DEF StreakSound, AtMost
<1>3. 0 \in 0..MaxFailed
  BY <1>1
<1> QED
  BY <1>2, <1>3, Types DEF MfaTypes, LimitTypes

LEMMA ClearCountStep ==
  ASSUME MfaInv, NEW r \in Requests, ClearCount(r), UNCHANGED cardVars
  PROVE  MfaInv'
<1>1. /\ UNCHANGED <<body, seen, clock, factorVars, locked, raced, session>>
      /\ step[r] = "consumed" /\ GoTo(r, "cleared") /\ "cleared" \in Steps
      /\ attempts' = 0 /\ streak' = {}
  BY DEF ClearCount, Steps, Running
<1>2. RequestTypes' /\ Reaches(r, "cleared")
  BY <1>1, GoToReaches
<1>3. Onward(r) /\ Settles(r)
  BY <1>1, <1>2 DEF Onward, Settles, Reaches, Done
<1>4. AllOnward
  BY <1>2, <1>3, ReachesOnward
<1>5. LimitTypes' /\ StreakSound' /\ SessionSound'
  BY <1>1, <1>4, StreakGone, SessionKept
<1>6. session' \in SessionState
  BY <1>1, Types DEF MfaTypes, OtherTypes
<1> QED
  BY <1>1, <1>2, <1>3, <1>5, <1>6, PlainStep

LEMMA MarkSessionStep ==
  ASSUME MfaInv, NEW r \in Requests, NEW remember \in BOOLEAN, MarkSession(r, remember),
         UNCHANGED cardVars
  PROVE  MfaInv'
<1>1. /\ UNCHANGED <<body, seen, clock, factorVars, limitVars>>
      /\ step[r] = "cleared" /\ GoTo(r, "verified") /\ "verified" \in Steps
      /\ session' = [verified |-> TRUE, method |-> body[r].method,
                     remembered |-> session.remembered \/ remember]
  BY DEF MarkSession, Steps, Over
<1>2. RequestTypes' /\ Reaches(r, "verified")
  BY <1>1, GoToReaches
<1>3. Onward(r) /\ Settles(r)
  BY <1>1, <1>2 DEF Onward, Settles, Reaches, Done
<1>4. AllOnward
  BY <1>2, <1>3, ReachesOnward
<1>5. LimitTypes' /\ StreakSound' /\ (raced => raced')
  BY <1>1, <1>4, LimitsKept DEF limitVars
<1>6. body[r].method \in Methods
  BY Bodies
<1>7. session' \in SessionState
  BY <1>1, <1>6 DEF SessionState
<1>8. SessionSound'
  <2>1. session'.verified /\ session'.method = body[r].method
    BY <1>1
  <2>2. step'[r] = "verified" /\ body'[r].method = session'.method
    BY <1>1, <1>2, <2>1 DEF Reaches
  <2>3. session'.method # "remembered"
    BY <1>6, <2>1 DEF Methods
  <2> QED
    BY <2>1, <2>2, <2>3 DEF SessionSound
<1> QED
  BY <1>1, <1>2, <1>3, <1>5, <1>7, <1>8, PlainStep

LEMMA AbortStep ==
  ASSUME MfaInv, NEW r \in Requests, Abort(r), UNCHANGED cardVars
  PROVE  MfaInv'
<1>1. /\ UNCHANGED <<body, seen, clock, factorVars, limitVars, session>>
      /\ step[r] \in Running /\ GoTo(r, "refused") /\ "refused" \in Steps
  BY DEF Abort, Steps, Over
<1>2. RequestTypes' /\ Reaches(r, "refused")
  BY <1>1, GoToReaches
<1>3. Onward(r) /\ Settles(r)
  BY <1>1, <1>2 DEF Onward, Settles, Reaches, Done, Running
<1> QED
  BY <1>1, <1>2, <1>3, QuietStep
-----------------------------------------------------------------------------
(***************************************************************************)
(* The factors.                                                            *)
(***************************************************************************)

\* A step of r, with the parts it may disturb as premises.
LEMMA FactorStep ==
  ASSUME MfaInv, NEW r \in Requests, NEW s, Reaches(r, s), RequestTypes', Onward(r),
         s \in {"fetched", "deleted"} => Uses(r, "webauthn"),
         s \in {"matched"} \cup Done => body[r].value \in Secrets,
         UNCHANGED <<sent, given, enrolled, attempts, locked, streak, session, cardVars>>,
         raced' \in BOOLEAN, raced => raced',
         TotpTypes', TotpSound', SmsTypes', SmsSound', WebauthnTypes', ChallengeSound',
         AssertionsSound', BackupTypes', BackupSound'
  PROVE  MfaInv'
<1>1. AllOnward
  BY ReachesOnward
<1>2. sent \in Nat /\ given \in Nat
  BY Types DEF MfaTypes, SmsTypes, WebauthnTypes
<1>3. Presented'
  BY <1>1, <1>2, PresentedKept
<1>4. StepsSound'
  BY StepsReach
<1>5. SessionSound' /\ StreakSound'
  BY <1>1, SessionKept, StreakKept
<1>6. LimitTypes'
  BY Types DEF MfaTypes, LimitTypes
<1>7. CardSound' /\ OtherTypes'
  BY CardKept, OtherTypesKept
<1> QED
  BY <1>3, <1>4, <1>5, <1>6, <1>7, TypesByPartNext DEF MfaTypes, MfaInv

LEMMA LookTotpStep ==
  ASSUME MfaInv, NEW r \in Requests, LookTotp(r), UNCHANGED cardVars
  PROVE  MfaInv'
<1>1. PICK s \in {"refused", "matched", "wrong"} :
        GoTo(r, s) /\ (s = "matched" => InWindow(body[r].value))
  BY DEF LookTotp
<1>2. /\ UNCHANGED <<body, seen, clock, factorVars, limitVars, session>>
      /\ step[r] = "checked" /\ Uses(r, "totp") /\ s \in Steps
  BY DEF LookTotp, Steps, Running, Over
<1>3. RequestTypes' /\ Reaches(r, s)
  BY <1>1, <1>2, GoToReaches
<1>4. Onward(r)
  BY <1>2, <1>3 DEF Onward, Reaches, Done
<1>5. CASE s # "matched"
  <2>1. Settles(r)
    BY <1>1, <1>3, <1>5 DEF Settles, Reaches, Done
  <2> QED
    BY <1>2, <1>3, <1>4, <2>1, QuietStep
<1>6. CASE s = "matched"
  <2>1. UNCHANGED <<totpVars, smsVars, backupVars, webauthnVars, sent, given, enrolled>>
    BY <1>2 DEF factorVars, smsVars, webauthnVars
  <2>2. AllOnward /\ Still("sms") /\ Still("backup") /\ Still("webauthn")
    BY <1>2, <1>3, <1>4, ReachesOnward, ReachesStill DEF Uses
  <2>3. UNCHANGED <<attempts, locked, streak, raced>> /\ raced \in BOOLEAN
    BY <1>2, Types DEF limitVars, MfaTypes, LimitTypes
  <2>4. SmsTypes' /\ SmsSound' /\ BackupTypes' /\ BackupSound'
    BY <2>1, <2>2, SmsKept, BackupKept DEF AllOnward
  <2>5. WebauthnTypes' /\ ChallengeSound' /\ AssertionsSound'
    BY <2>1, <2>2, <2>3, WebauthnKept DEF AllOnward
  <2>6. TotpTypes'
    BY <1>2, <2>1, Types DEF MfaTypes, TotpTypes, totpVars
  <2>7. body[r].value # 0 /\ body[r].value <= clock + 1
    BY <1>1, <1>6 DEF InWindow
  <2>8. TotpSound'
    BY <1>2, <1>3, <1>6, <2>1, <2>7 DEF MfaInv, TotpSound, Reaches, Done, Uses, totpVars
  <2>9. body[r].value \in Secrets
    BY <2>7, Bodies
  <2> QED
    BY <1>2, <1>3, <1>4, <1>6, <2>1, <2>3, <2>4, <2>5, <2>6, <2>8, <2>9, FactorStep
<1> QED
  BY <1>5, <1>6

LEMMA MarkTotpStep ==
  ASSUME MfaInv, NEW r \in Requests, MarkTotp(r), UNCHANGED cardVars
  PROVE  MfaInv'
<1> DEFINE k == body[r].value
<1>1. /\ UNCHANGED <<body, seen, clock, totpRows, settingUp, smsVars, backupVars,
                     webauthnVars, limitVars, session>>
      /\ step[r] = "matched" /\ Uses(r, "totp") /\ GoTo(r, "consumed") /\ "consumed" \in Steps
      /\ marker' = [marker EXCEPT ![k] = ReplayTtl]
  BY DEF MarkTotp, Steps, Running
<1>2. RequestTypes' /\ Reaches(r, "consumed")
  BY <1>1, GoToReaches
<1>3. Onward(r)
  BY <1>1, <1>2 DEF Onward, Reaches, Done
<1>4. k \in Secrets /\ k \in Nat /\ k <= clock + 1
  BY <1>1, Bodies DEF MfaInv, StepsSound, TotpSound
<1>5. UNCHANGED <<sent, given, enrolled, attempts, locked, streak, raced>>
  BY <1>1 DEF smsVars, webauthnVars, limitVars
<1>6. raced \in BOOLEAN
  BY Types DEF MfaTypes, LimitTypes
<1>7. AllOnward /\ Still("sms") /\ Still("backup") /\ Still("webauthn")
  BY <1>1, <1>2, <1>3, ReachesOnward, ReachesStill DEF Uses
<1>8. SmsTypes' /\ SmsSound' /\ BackupTypes' /\ BackupSound'
  BY <1>1, <1>7, SmsKept, BackupKept DEF AllOnward
<1>9. WebauthnTypes' /\ ChallengeSound' /\ AssertionsSound'
  BY <1>1, <1>5, <1>7, WebauthnKept DEF AllOnward
<1>10. TotpTypes /\ ReplayTtl \in Nat /\ ReplayTtl >= 3
  BY Types, MfaAssumption DEF MfaTypes
<1>11. TotpTypes'
  <2>1. ReplayTtl \in 0..ReplayTtl
    BY <1>10
  <2> QED
    BY <1>1, <1>10, <2>1 DEF TotpTypes
<1>12. TotpSound'
  <2> SUFFICES ASSUME NEW q \in Requests, Uses(q, "totp")
               PROVE  /\ step'[q] = "matched" => body[q].value <= clock + 1
                      /\ step'[q] \in Done =>
                           clock + marker'[body[q].value] >= body[q].value + 2
    BY <1>1 DEF TotpSound, Uses
  <2>1. clock \in Nat /\ body[q].value \in Nat
    BY <1>10, Bodies, MfaAssumption DEF TotpTypes
  <2>2. CASE body[q].value = k
    <3>1. marker'[k] = ReplayTtl
      BY <1>1, <1>4, <1>10 DEF TotpTypes
    <3> QED
      BY <1>4, <1>10, <2>1, <2>2, <3>1
  <2>3. CASE body[q].value # k
    <3>1. q # r /\ step'[q] = step[q]
      BY <1>2, <2>3 DEF Reaches
    <3>2. step[q] \in Done => body[q].value \in Secrets
      BY DEF MfaInv, StepsSound
    <3>3. step[q] \in Done => marker'[body[q].value] = marker[body[q].value]
      BY <1>1, <1>10, <2>3, <3>2 DEF TotpTypes
    <3> QED
      BY <3>1, <3>3 DEF MfaInv, TotpSound
  <2> QED
    BY <2>2, <2>3
<1> QED
  BY <1>1, <1>2, <1>3, <1>4, <1>5, <1>6, <1>8, <1>9, <1>11, <1>12, FactorStep

LEMMA LookSmsStep ==
  ASSUME MfaInv, NEW r \in Requests, LookSms(r), UNCHANGED cardVars
  PROVE  MfaInv'
<1>1. PICK s \in {"refused", "matched", "wrong"} :
        GoTo(r, s) /\ (s = "matched" => otp # 0 /\ otp = body[r].value)
  BY DEF LookSms
<1>2. /\ UNCHANGED <<body, seen, clock, factorVars, limitVars, session>>
      /\ step[r] = "checked" /\ Uses(r, "sms") /\ s \in Steps
  BY DEF LookSms, Steps, Running, Over
<1>3. RequestTypes' /\ Reaches(r, s)
  BY <1>1, <1>2, GoToReaches
<1>4. Onward(r)
  BY <1>2, <1>3 DEF Onward, Reaches, Done
<1>5. CASE s # "matched"
  <2>1. Settles(r)
    BY <1>1, <1>3, <1>5 DEF Settles, Reaches, Done
  <2> QED
    BY <1>2, <1>3, <1>4, <2>1, QuietStep
<1>6. CASE s = "matched"
  <2>1. UNCHANGED <<totpVars, smsVars, backupVars, webauthnVars, sent, given, enrolled, otp>>
    BY <1>2 DEF factorVars, smsVars, webauthnVars
  <2>2. AllOnward /\ Still("totp") /\ Still("backup") /\ Still("webauthn")
    BY <1>2, <1>3, <1>4, ReachesOnward, ReachesStill DEF Uses
  <2>3. UNCHANGED <<attempts, locked, streak, raced>> /\ raced \in BOOLEAN
    BY <1>2, Types DEF limitVars, MfaTypes, LimitTypes
  <2>4. TotpTypes' /\ TotpSound' /\ BackupTypes' /\ BackupSound'
    BY <1>2, <2>1, <2>2, TotpKept, BackupKept DEF AllOnward
  <2>5. WebauthnTypes' /\ ChallengeSound' /\ AssertionsSound'
    BY <2>1, <2>2, <2>3, WebauthnKept DEF AllOnward
  <2>6. SmsTypes'
    BY <2>1, Types DEF MfaTypes, SmsTypes, smsVars
  <2>7. \A q \in Requests : step'[q] \in Done => step[q] \in Done
    BY <1>3, <1>6 DEF Reaches, Done
  <2>8. SmsSound'
    BY <1>2, <2>1, <2>7 DEF MfaInv, SmsSound, Uses, smsVars
  <2>9. body[r].value \in Secrets
    BY <1>1, <1>6, Bodies
  <2> QED
    BY <1>2, <1>3, <1>4, <1>6, <2>1, <2>3, <2>4, <2>5, <2>6, <2>8, <2>9, FactorStep
<1> QED
  BY <1>5, <1>6

LEMMA DeleteSmsStep ==
  ASSUME MfaInv, NEW r \in Requests, DeleteSms(r), UNCHANGED cardVars
  PROVE  MfaInv'
<1>1. /\ UNCHANGED <<body, seen, clock, totpVars, sent, sends, texts, received, backupVars,
                     webauthnVars, limitVars, session>>
      /\ step[r] = "matched" /\ Uses(r, "sms") /\ GoTo(r, "consumed") /\ "consumed" \in Steps
      /\ otp' = 0
  BY DEF DeleteSms, Steps, Running
<1>2. RequestTypes' /\ Reaches(r, "consumed")
  BY <1>1, GoToReaches
<1>3. Onward(r)
  BY <1>1, <1>2 DEF Onward, Reaches, Done
<1>4. body[r].value \in Secrets
  BY <1>1 DEF MfaInv, StepsSound
<1>5. UNCHANGED <<given, enrolled, attempts, locked, streak, raced>>
  BY <1>1 DEF webauthnVars, limitVars
<1>6. raced \in BOOLEAN
  BY Types DEF MfaTypes, LimitTypes
<1>7. AllOnward /\ Still("totp") /\ Still("backup") /\ Still("webauthn")
  BY <1>1, <1>2, <1>3, ReachesOnward, ReachesStill DEF Uses
<1>8. TotpTypes' /\ TotpSound' /\ BackupTypes' /\ BackupSound'
  BY <1>1, <1>7, TotpKept, BackupKept DEF AllOnward
<1>9. WebauthnTypes' /\ ChallengeSound' /\ AssertionsSound'
  BY <1>1, <1>5, <1>7, WebauthnKept DEF AllOnward
<1>10. SmsTypes'
  BY <1>1, Types DEF MfaTypes, SmsTypes
<1>11. StepsSound'
  BY <1>2, <1>4, StepsReach
<1>12. SmsSound'
  <2>1. \A q \in Requests : step'[q] \in Done => body'[q].value # 0
    BY <1>11, Bodies DEF StepsSound
  <2>2. 0 <= sent
    BY Types DEF MfaTypes, SmsTypes
  <2> QED
    BY <1>1, <2>1, <2>2 DEF MfaInv, SmsSound, Uses
<1> QED
  BY <1>1, <1>2, <1>3, <1>4, <1>5, <1>6, <1>8, <1>9, <1>10, <1>12, FactorStep

LEMMA LookBackupStep ==
  ASSUME MfaInv, NEW r \in Requests, LookBackup(r), UNCHANGED cardVars
  PROVE  MfaInv'
<1> DEFINE v == body[r].value
<1>1. /\ UNCHANGED <<body, clock, factorVars, limitVars, session>>
      /\ step[r] = "checked" /\ Uses(r, "backup")
      /\ {"refused", "wrong", "matched"} \subseteq Steps
  BY DEF LookBackup, Steps, Running, Over
<1>2. CASE \E s \in {"refused", "wrong"} : GoTo(r, s) /\ UNCHANGED seen
  <2>1. PICK s \in {"refused", "wrong"} : GoTo(r, s) /\ UNCHANGED seen
    BY <1>2
  <2>2. RequestTypes' /\ Reaches(r, s) /\ s \in Steps
    BY <1>1, <2>1, GoToReaches
  <2>3. Onward(r) /\ Settles(r)
    BY <1>1, <2>1, <2>2 DEF Onward, Settles, Reaches, Done
  <2> QED
    BY <1>1, <2>2, <2>3, QuietStep
<1>3. ASSUME NEW g \in Gens, backup[g].live, v # 0, GenOf[v] = g, v \notin backup[g].used,
             GoTo(r, "matched"), Holding(r, 0, g, backup[g])
      PROVE  MfaInv'
  <2>1. g \in Nat /\ backup[g] \in BackupRow
    BY MfaAssumption, Types DEF MfaTypes, BackupTypes
  <2>2. /\ RequestTypes' /\ Reaches(r, "matched")
        /\ seen'[r] = [n |-> 0, gen |-> g, row |-> backup[g]]
    BY <1>1, <1>3, <2>1, HoldingReaches
  <2>3. Onward(r)
    BY <1>1, <2>2 DEF Onward, Reaches, Done
  <2>4. UNCHANGED <<totpVars, smsVars, webauthnVars, sent, given, enrolled, backup, regen>>
    BY <1>1 DEF factorVars, smsVars, backupVars, webauthnVars
  <2>5. AllOnward /\ Still("totp") /\ Still("sms") /\ Still("webauthn")
    BY <1>1, <2>2, <2>3, ReachesOnward, ReachesStill DEF Uses
  <2>6. UNCHANGED <<attempts, locked, streak, raced>> /\ raced \in BOOLEAN
    BY <1>1, Types DEF limitVars, MfaTypes, LimitTypes
  <2>7. TotpTypes' /\ TotpSound' /\ SmsTypes' /\ SmsSound'
    BY <1>1, <2>4, <2>5, TotpKept, SmsKept DEF AllOnward
  <2>8. WebauthnTypes' /\ ChallengeSound' /\ AssertionsSound'
    BY <2>4, <2>5, <2>6, WebauthnKept DEF AllOnward
  <2>9. BackupTypes'
    BY <2>4, Types DEF MfaTypes, BackupTypes
  <2>10. /\ \A q \in Requests \ {r} : HoldsRow(q)' => HoldsRow(q) /\ seen'[q] = seen[q]
         /\ \A q \in Requests : step'[q] \in Done => step[q] \in Done
         /\ seen'[r].gen = g /\ seen'[r].row = backup[g]
    BY <1>1, <2>2 DEF HoldsRow, Reaches, Uses, Done
  <2>11. RowsSound'
    <3>1. \A h \in Gens : Stamped(backup[h].last)'
      BY <2>4, <2>5, StampedKept DEF MfaInv, BackupSound, RowsSound, Stamped
    <3>2. ASSUME NEW q \in Requests, HoldsRow(q)'
          PROVE  /\ seen'[q].gen \in Gens /\ regen'[seen'[q].gen] = "stored"
                 /\ GenOf[body'[q].value] = seen'[q].gen
                 /\ Stamped(seen[q].row.last)'
      <4>1. CASE q = r
        <5>1. Stamped(backup[g].last)'
          BY <3>1
        <5>2. regen[g] = "stored"
          BY <1>3 DEF MfaInv, BackupSound, RowsSound
        <5> QED
          BY <1>1, <1>3, <2>4, <2>10, <4>1, <5>1, <5>2 DEF Stamped
      <4>2. CASE q # r
        <5>1. HoldsRow(q) /\ seen'[q] = seen[q]
          BY <2>10, <3>2, <4>2
        <5>2. Stamped(seen[q].row.last)'
          <6>1. Stamped(seen[q].row.last)
            BY <5>1 DEF MfaInv, BackupSound, RowsSound
          <6>2. seen'[q].row.last # 0 =>
                  \E y \in Requests :
                    StampOf[y] = seen'[q].row.last /\ step'[y] \in Done \cup {"refused"}
            BY <2>5, <5>1, <6>1, StampedKept
          <6> QED
            BY <6>2 DEF Stamped
        <5> QED
          BY <1>1, <2>4, <5>1, <5>2 DEF MfaInv, BackupSound, RowsSound
      <4> QED
        BY <4>1, <4>2
    <3> QED
      BY <2>4, <3>1, <3>2 DEF MfaInv, BackupSound, RowsSound
  <2>12. StampsDiffer => ReadsSound'
    <3>1. ASSUME StampsDiffer, NEW q \in Requests, HoldsRow(q)',
                 seen'[q].row.last = backup[seen'[q].gen].last, backup[seen'[q].gen].live
          PROVE  backup[seen'[q].gen].used \subseteq seen'[q].row.used
      BY <2>10, <3>1 DEF MfaInv, BackupSound, ReadsSound
    <3> QED
      BY <2>4, <3>1 DEF ReadsSound
  <2>13. StampsDiffer => CodesMarked'
    BY <1>1, <2>4, <2>10 DEF MfaInv, BackupSound, CodesMarked, Uses
  <2>14. v \in Secrets
    BY <1>3, Bodies
  <2>15. BackupSound'
    BY <2>11, <2>12, <2>13 DEF BackupSound, StampsDiffer
  <2> QED
    BY <1>1, <2>2, <2>3, <2>4, <2>6, <2>7, <2>8, <2>9, <2>14, <2>15, FactorStep
<1> QED
  BY <1>2, <1>3 DEF LookBackup

LEMMA UpdateBackupStep ==
  ASSUME MfaInv, NEW r \in Requests, UpdateBackup(r), UNCHANGED cardVars
  PROVE  MfaInv'
<1> DEFINE v == body[r].value
           g == seen[r].gen
<1>1. /\ UNCHANGED <<body, seen, clock, totpVars, smsVars, regen, webauthnVars, limitVars,
                     session>>
      /\ step[r] = "matched" /\ Uses(r, "backup")
      /\ "refused" \in Steps /\ "consumed" \in Steps
  BY DEF UpdateBackup, Steps, Running, Over
<1>2. CASE ~StillAsRead(r)
  <2>1. GoTo(r, "refused") /\ UNCHANGED factorVars
    BY <1>1, <1>2 DEF UpdateBackup, factorVars, backupVars
  <2>2. RequestTypes' /\ Reaches(r, "refused")
    BY <1>1, <2>1, GoToReaches
  <2>3. Onward(r) /\ Settles(r)
    BY <1>1, <2>2 DEF Onward, Settles, Reaches, Done
  <2> QED
    BY <1>1, <2>1, <2>2, <2>3, QuietStep
<1>3. CASE StillAsRead(r)
  <2>1. /\ GoTo(r, "consumed") /\ backup[g].live /\ backup[g].last = seen[r].row.last
        /\ backup' = [backup EXCEPT ![g] =
             [used |-> seen[r].row.used \cup {v}, last |-> StampOf[r], live |-> TRUE]]
    BY <1>3 DEF UpdateBackup, StillAsRead
  <2>2. RequestTypes' /\ Reaches(r, "consumed")
    BY <1>1, <2>1, GoToReaches
  <2>3. Onward(r)
    BY <1>1, <2>2 DEF Onward, Reaches, Done
  <2>4. /\ HoldsRow(r) /\ g \in Gens /\ regen[g] = "stored" /\ GenOf[v] = g
        /\ v \in Secrets
    BY <1>1 DEF HoldsRow, MfaInv, BackupSound, RowsSound, StepsSound
  <2>5. UNCHANGED <<sent, given, enrolled, attempts, locked, streak, raced>>
    BY <1>1 DEF smsVars, webauthnVars, limitVars
  <2>6. raced \in BOOLEAN /\ BackupTypes /\ seen[r].row \in BackupRow
    BY Types DEF MfaTypes, LimitTypes, RequestTypes, Seen
  <2>7. AllOnward /\ Still("totp") /\ Still("sms") /\ Still("webauthn")
    BY <1>1, <2>2, <2>3, ReachesOnward, ReachesStill DEF Uses
  <2>8. TotpTypes' /\ TotpSound' /\ SmsTypes' /\ SmsSound'
    BY <1>1, <2>7, TotpKept, SmsKept DEF AllOnward
  <2>9. WebauthnTypes' /\ ChallengeSound' /\ AssertionsSound'
    BY <1>1, <2>5, <2>7, WebauthnKept DEF AllOnward
  <2>10. BackupTypes'
    <3>1. StampOf[r] \in Nat
      BY MfaAssumption
    <3>2. [used |-> seen[r].row.used \cup {v}, last |-> StampOf[r], live |-> TRUE]
            \in BackupRow
      BY <2>4, <2>6, <3>1 DEF BackupRow
    <3> QED
      BY <1>1, <2>1, <2>6, <3>2 DEF BackupTypes
  <2>11. /\ backup'[g].used = seen[r].row.used \cup {v}
         /\ backup'[g].last = StampOf[r] /\ backup'[g].live
         /\ \A h \in Gens \ {g} : backup'[h] = backup[h]
    BY <2>1, <2>4, <2>6 DEF BackupTypes
  <2>12. /\ \A q \in Requests : HoldsRow(q)' => HoldsRow(q) /\ q # r
         /\ \A q \in Requests \ {r} : step'[q] \in Done => step[q] \in Done
         /\ step'[r] = "consumed"
    BY <1>1, <2>2 DEF HoldsRow, Reaches, Uses, Done
  <2>13. RowsSound'
    <3>1. Stamped(StampOf[r])'
      BY <2>12 DEF Stamped, Done
    <3>2. ASSUME NEW h \in Gens PROVE Stamped(backup[h].last)'
      <4>1. CASE h = g
        BY <2>11, <3>1, <4>1 DEF Stamped
      <4>2. CASE h # g
        <5>1. Stamped(backup[h].last) /\ backup'[h].last = backup[h].last
          BY <2>11, <4>2 DEF MfaInv, BackupSound, RowsSound
        <5>2. backup'[h].last # 0 =>
                \E y \in Requests :
                  /\ StampOf[y] = backup'[h].last
                  /\ step'[y] \in Done \cup {"refused"}
          BY <2>7, <5>1, StampedKept
        <5> QED
          BY <5>2 DEF Stamped
      <4> QED
        BY <4>1, <4>2
    <3>3. ASSUME NEW q \in Requests, HoldsRow(q)' PROVE Stamped(seen[q].row.last)'
      BY <1>1, <2>7, <2>12, <3>3, StampedKept DEF MfaInv, BackupSound, RowsSound, Stamped
    <3>4. \A h \in Gens : backup'[h].live => regen'[h] = "stored"
      BY <1>1, <2>4, <2>11 DEF MfaInv, BackupSound, RowsSound
    <3>5. \A q \in Requests : HoldsRow(q)' =>
            /\ seen'[q].gen \in Gens /\ regen'[seen'[q].gen] = "stored"
            /\ GenOf[body'[q].value] = seen'[q].gen
      BY <1>1, <2>12 DEF MfaInv, BackupSound, RowsSound
    <3> QED
      BY <3>2, <3>3, <3>4, <3>5 DEF RowsSound
  <2>14. StampsDiffer => ReadsSound'
    <3>1. ASSUME StampsDiffer, NEW q \in Requests, HoldsRow(q)',
                 seen[q].row.last = backup'[seen[q].gen].last, backup'[seen[q].gen].live
          PROVE  backup'[seen[q].gen].used \subseteq seen[q].row.used
      <4>1. HoldsRow(q) /\ seen[q].gen \in Gens /\ Stamped(seen[q].row.last)
        BY <2>12, <3>1 DEF MfaInv, BackupSound, RowsSound
      <4>2. CASE seen[q].gen = g
        <5>1. seen[q].row.last = StampOf[r] /\ StampOf[r] # 0
          BY <2>11, <3>1, <4>2, MfaAssumption
        <5>2. PICK y \in Requests : StampOf[y] = StampOf[r] /\ step[y] \in Done \cup {"refused"}
          BY <4>1, <5>1 DEF Stamped
        <5>3. y = r
          BY <3>1, <5>2 DEF StampsDiffer
        <5> QED
          BY <1>1, <5>2, <5>3 DEF Done
      <4>3. CASE seen[q].gen # g
        BY <2>11, <3>1, <4>1, <4>3 DEF MfaInv, BackupSound, ReadsSound
      <4> QED
        BY <4>2, <4>3
    <3> QED
      BY <1>1, <3>1 DEF ReadsSound
  <2>15. StampsDiffer => CodesMarked'
    <3>1. ASSUME StampsDiffer, NEW q \in Requests, Uses(q, "backup"), step'[q] \in Done
          PROVE  LET h == GenOf[body[q].value] IN
                 /\ h \in Gens /\ regen[h] = "stored"
                 /\ backup'[h].live => body[q].value \in backup'[h].used
      <4>1. CASE q = r
        BY <2>4, <2>11, <4>1
      <4>2. CASE q # r
        <5> DEFINE h == GenOf[body[q].value]
        <5>1. /\ h \in Gens /\ regen[h] = "stored"
              /\ backup[h].live => body[q].value \in backup[h].used
          BY <2>12, <3>1, <4>2 DEF MfaInv, BackupSound, CodesMarked
        <5>2. CASE h # g
          BY <2>11, <5>1, <5>2
        <5>3. CASE h = g
          <6>1. backup[g].used \subseteq seen[r].row.used
            BY <2>1, <2>4, <3>1 DEF MfaInv, BackupSound, ReadsSound
          <6> QED
            BY <2>1, <2>11, <5>1, <5>3, <6>1
        <5> QED
          BY <5>2, <5>3
      <4> QED
        BY <4>1, <4>2
    <3> QED
      BY <1>1, <3>1 DEF CodesMarked, Uses
  <2>16. BackupSound'
    BY <2>13, <2>14, <2>15 DEF BackupSound, StampsDiffer
  <2> QED
    BY <1>1, <2>2, <2>3, <2>4, <2>5, <2>6, <2>8, <2>9, <2>10, <2>16, FactorStep
<1> QED
  BY <1>2, <1>3

LEMMA FetchChallengeStep ==
  ASSUME MfaInv, NEW r \in Requests, FetchChallenge(r), UNCHANGED cardVars
  PROVE  MfaInv'
<1>1. PICK s \in {"refused", "fetched"} : GoTo(r, s)
  BY DEF FetchChallenge
<1>2. /\ UNCHANGED <<body, clock, factorVars, limitVars, session>>
      /\ step[r] = "checked" /\ Uses(r, "webauthn") /\ s \in Steps
      /\ Holding(r, challenge, 0, NoRow)
  BY DEF FetchChallenge, Steps, Running, Over
<1>3. challenge \in Nat /\ NoRow \in BackupRow
  <2>1. challenge \in Secrets \cup {0}
    BY Types DEF MfaTypes, WebauthnTypes
  <2>2. challenge \in Nat
    BY <2>1, Bodies
  <2> QED
    BY <2>2 DEF NoRow, BackupRow
<1>4. RequestTypes' /\ Reaches(r, s)
  BY <1>1, <1>2, <1>3, HoldingReaches
<1>5. Onward(r)
  BY <1>2, <1>4 DEF Onward, Reaches, Done
<1>6. UNCHANGED <<totpVars, smsVars, backupVars, sent, given, enrolled, challenge, countVars>>
  BY <1>2 DEF factorVars, smsVars, webauthnVars
<1>7. AllOnward /\ Still("totp") /\ Still("sms") /\ Still("backup")
  BY <1>2, <1>4, <1>5, ReachesOnward, ReachesStill DEF Uses
<1>8. UNCHANGED <<attempts, locked, streak, raced>> /\ raced \in BOOLEAN
  BY <1>2, Types DEF limitVars, MfaTypes, LimitTypes
<1>9. TotpTypes' /\ TotpSound' /\ SmsTypes' /\ SmsSound' /\ BackupTypes' /\ BackupSound'
  BY <1>2, <1>6, <1>7, TotpKept, SmsKept, BackupKept DEF AllOnward
<1>10. \A q \in Requests : step'[q] \in {"deleted", "matched"} \cup Done =>
         step'[q] = step[q] /\ seen'[q] = seen[q]
  BY <1>4 DEF Reaches, Done
<1>11. ChallengeSound' /\ AssertionsSound'
  <2>1. ChallengeSound'
    BY <1>2, <1>6, <1>10 DEF MfaInv, ChallengeSound, Uses
  <2>2. AssertionsSound'
    BY <1>6, <1>7, <1>10, AssertionsKept
  <2> QED
    BY <2>1, <2>2
<1>12. WebauthnTypes'
  BY <1>6, Types DEF MfaTypes, WebauthnTypes, countVars
<1>13. s \notin {"matched"} \cup Done
  BY DEF Done
<1> QED
  BY <1>2, <1>4, <1>5, <1>6, <1>8, <1>9, <1>11, <1>12, <1>13, FactorStep

LEMMA DeleteChallengeStep ==
  ASSUME MfaInv, NEW r \in Requests, DeleteChallenge(r), UNCHANGED cardVars
  PROVE  MfaInv'
<1>1. /\ UNCHANGED <<body, seen, clock, totpVars, smsVars, backupVars, enrolled, given,
                     countVars, limitVars, session>>
      /\ step[r] = "fetched" /\ GoTo(r, "deleted") /\ "deleted" \in Steps /\ challenge' = 0
  BY DEF DeleteChallenge, Steps, Running
<1>2. RequestTypes' /\ Reaches(r, "deleted") /\ Uses(r, "webauthn")
  BY <1>1, GoToReaches DEF MfaInv, StepsSound
<1>3. Onward(r)
  BY <1>1, <1>2 DEF Onward, Reaches, Done
<1>4. UNCHANGED <<sent, attempts, locked, streak, raced>> /\ raced \in BOOLEAN
  BY <1>1, Types DEF smsVars, limitVars, MfaTypes, LimitTypes
<1>5. AllOnward /\ Still("totp") /\ Still("sms") /\ Still("backup")
  BY <1>2, <1>3, ReachesOnward, ReachesStill DEF Uses
<1>6. TotpTypes' /\ TotpSound' /\ SmsTypes' /\ SmsSound' /\ BackupTypes' /\ BackupSound'
  BY <1>1, <1>5, TotpKept, SmsKept, BackupKept DEF AllOnward
<1>7. "deleted" \notin {"matched"} \cup Done
  BY DEF Done
<1>8. StepsSound'
  BY <1>2, <1>7, StepsReach
<1>9. ChallengeSound'
  <2>1. \A q \in Requests : step'[q] \in {"matched"} \cup Done => body'[q].value # 0
    BY <1>8, Bodies DEF StepsSound
  <2>2. 0 <= given
    BY Types DEF MfaTypes, WebauthnTypes
  <2> QED
    BY <1>1, <2>1, <2>2 DEF ChallengeSound
<1>10. \A q \in Requests : step'[q] = "matched" => step[q] = "matched"
  BY <1>2 DEF Reaches
<1>11. AssertionsSound'
  BY <1>1, <1>5, <1>10, AssertionsKept
<1>12. WebauthnTypes'
  BY <1>1, Types DEF MfaTypes, WebauthnTypes, countVars
<1> QED
  BY <1>1, <1>2, <1>3, <1>4, <1>6, <1>7, <1>9, <1>11, <1>12, FactorStep

LEMMA CheckAssertionStep ==
  ASSUME MfaInv, NEW r \in Requests, CheckAssertion(r), UNCHANGED cardVars
  PROVE  MfaInv'
<1>1. /\ UNCHANGED <<body, clock, factorVars, limitVars, session>>
      /\ step[r] = "deleted" /\ {"matched", "wrong"} \subseteq Steps
  BY DEF CheckAssertion, Steps, Running
<1>2. CASE GoTo(r, "wrong") /\ UNCHANGED seen
  <2>1. RequestTypes' /\ Reaches(r, "wrong")
    BY <1>1, <1>2, GoToReaches
  <2>2. Onward(r) /\ Settles(r)
    BY <1>1, <2>1 DEF Onward, Settles, Reaches, Done
  <2> QED
    BY <1>1, <2>1, <2>2, QuietStep
<1>3. CASE /\ body[r].value # 0 /\ seen[r].n = body[r].value /\ GoTo(r, "matched")
           /\ \E n \in Counts : NoRegression(n) /\ Holding(r, n, 0, NoRow)
  <2>1. PICK n \in Counts : (n = 0 \/ n > signCount) /\ Holding(r, n, 0, NoRow)
    BY <1>3 DEF NoRegression
  <2>2. n \in Nat /\ NoRow \in BackupRow
    BY MfaAssumption DEF NoRow, BackupRow
  <2>3. RequestTypes' /\ Reaches(r, "matched") /\ seen'[r] = [n |-> n, gen |-> 0, row |-> NoRow]
    BY <1>1, <1>3, <2>1, <2>2, HoldingReaches
  <2>4. Uses(r, "webauthn")
    BY <1>1 DEF MfaInv, StepsSound
  <2>5. Onward(r)
    BY <1>1, <2>3 DEF Onward, Reaches, Done
  <2>6. UNCHANGED <<totpVars, smsVars, backupVars, sent, given, enrolled, challenge, countVars>>
    BY <1>1 DEF factorVars, smsVars, webauthnVars
  <2>7. AllOnward /\ Still("totp") /\ Still("sms") /\ Still("backup")
    BY <2>3, <2>4, <2>5, ReachesOnward, ReachesStill DEF Uses
  <2>8. UNCHANGED <<attempts, locked, streak, raced>> /\ raced \in BOOLEAN
    BY <1>1, Types DEF limitVars, MfaTypes, LimitTypes
  <2>9. TotpTypes' /\ TotpSound' /\ SmsTypes' /\ SmsSound' /\ BackupTypes' /\ BackupSound'
    BY <1>1, <2>6, <2>7, TotpKept, SmsKept, BackupKept DEF AllOnward
  <2>10. WebauthnTypes'
    BY <2>6, Types DEF MfaTypes, WebauthnTypes, countVars
  <2>11. \A q \in Requests \ {r} : step'[q] = step[q] /\ seen'[q] = seen[q]
    BY <2>3 DEF Reaches
  <2>12. challenge # body[r].value
    BY <1>1, <1>3, <2>4 DEF MfaInv, ChallengeSound
  <2>13. ChallengeSound'
    BY <1>1, <2>6, <2>11, <2>12 DEF MfaInv, ChallengeSound, Uses
  <2>14. AssertionsSound'
    <3>1. UNCHANGED <<body, signCount, counted, crossed>> /\ counted \subseteq Requests \ {r}
      BY <1>1, <2>6, Types
         DEF countVars, MfaTypes, WebauthnTypes, MfaInv, AssertionsSound, Done
    <3>2. seen'[r].n = n /\ (n = 0 \/ n > signCount)
      BY <2>1, <2>3
    <3>3. \A q \in Requests : step'[q] = "matched" /\ Uses(q, "webauthn")' =>
            crossed \/ seen'[q].n = 0 \/ seen'[q].n > signCount
      BY <2>11, <3>1, <3>2 DEF MfaInv, AssertionsSound, Uses
    <3>4. \A q \in counted : step'[q] = step[q] /\ seen'[q] = seen[q]
      BY <2>11, <3>1
    <3>5. \/ crossed \/ \E q \in counted : seen'[q].n = 0
          \/ /\ \A q \in counted : seen'[q].n <= signCount
             /\ \A p, q \in counted : seen'[p].n = seen'[q].n => p = q
      BY <3>4 DEF MfaInv, AssertionsSound
    <3> QED
      BY <3>1, <3>3, <3>4, <3>5 DEF MfaInv, AssertionsSound
  <2>15. body[r].value \in Secrets
    BY <1>3, Bodies
  <2> QED
    BY <1>1, <2>3, <2>4, <2>5, <2>6, <2>8, <2>9, <2>10, <2>13, <2>14, <2>15, FactorStep
<1> QED
  BY <1>2, <1>3 DEF CheckAssertion

LEMMA StoreSignCountStep ==
  ASSUME MfaInv, NEW r \in Requests, StoreSignCount(r), UNCHANGED cardVars
  PROVE  MfaInv'
<1>1. /\ UNCHANGED <<body, seen, clock, totpVars, smsVars, backupVars, enrolled, challenge,
                     given, limitVars, session>>
      /\ step[r] = "matched" /\ Uses(r, "webauthn")
      /\ GoTo(r, "consumed") /\ "consumed" \in Steps
      /\ signCount' = seen[r].n /\ counted' = counted \cup {r}
      /\ crossed' = (crossed \/ \E q \in Requests \ {r} :
                                    step[q] = "matched" /\ Uses(q, "webauthn"))
  BY DEF StoreSignCount, Steps, Running
<1>2. RequestTypes' /\ Reaches(r, "consumed")
  BY <1>1, GoToReaches
<1>3. Onward(r)
  BY <1>1, <1>2 DEF Onward, Reaches, Done
<1>4. body[r].value \in Secrets /\ RequestTypes /\ WebauthnTypes
  BY <1>1, Bodies, Types DEF MfaInv, StepsSound, MfaTypes
<1>5. UNCHANGED <<sent, attempts, locked, streak, raced>> /\ raced \in BOOLEAN
  BY <1>1, Types DEF smsVars, limitVars, MfaTypes, LimitTypes
<1>6. AllOnward /\ Still("totp") /\ Still("sms") /\ Still("backup")
  BY <1>1, <1>2, <1>3, ReachesOnward, ReachesStill DEF Uses
<1>7. TotpTypes' /\ TotpSound' /\ SmsTypes' /\ SmsSound' /\ BackupTypes' /\ BackupSound'
  BY <1>1, <1>6, TotpKept, SmsKept, BackupKept DEF AllOnward
<1>8. seen[r].n \in Nat /\ \A q \in counted : seen[q].n \in Nat
  BY <1>4 DEF RequestTypes, WebauthnTypes, Seen
<1>9. WebauthnTypes'
  BY <1>1, <1>4, <1>8 DEF WebauthnTypes
<1>10. \A q \in Requests \ {r} : step'[q] = step[q]
  BY <1>2 DEF Reaches
<1>11. ChallengeSound'
  BY <1>1, <1>10 DEF MfaInv, ChallengeSound, Uses
<1>12. \A q \in Requests : step'[q] = "matched" => q # r /\ step[q] = "matched"
  BY <1>2 DEF Reaches
<1>13. AssertionsSound'
  <2>1. \A q \in Requests : step'[q] = "matched" /\ Uses(q, "webauthn")' => crossed'
    BY <1>1, <1>12 DEF Uses
  <2>2. \A q \in counted' : step'[q] \in Done \cup {"refused"}
    BY <1>1, <1>2, <1>4, <1>6
       DEF AllOnward, Onward, MfaInv, AssertionsSound, WebauthnTypes, Reaches, Done
  <2>3. ASSUME ~crossed', \A q \in counted' : seen[q].n # 0
        PROVE  /\ \A q \in counted' : seen[q].n <= signCount'
               /\ \A p, q \in counted' : seen[p].n = seen[q].n => p = q
    <3>1. ~crossed /\ seen[r].n # 0 /\ seen[r].n > signCount
      BY <1>1, <2>3 DEF MfaInv, AssertionsSound
    <3>2. /\ \A q \in counted : seen[q].n <= signCount
          /\ \A p, q \in counted : seen[p].n = seen[q].n => p = q
      BY <1>1, <2>3, <3>1 DEF MfaInv, AssertionsSound
    <3>3. signCount \in Nat
      BY <1>4 DEF WebauthnTypes
    <3>4. \A q \in counted : seen[q].n < seen[r].n
      BY <1>8, <3>1, <3>2, <3>3
    <3> QED
      BY <1>1, <1>8, <3>2, <3>4
  <2> QED
    BY <1>1, <2>1, <2>2, <2>3 DEF AssertionsSound
<1> QED
  BY <1>1, <1>2, <1>3, <1>4, <1>5, <1>7, <1>9, <1>11, <1>13, FactorStep

LEMMA AdvanceStep ==
  ASSUME MfaInv, NEW r \in Requests, Advance(r), UNCHANGED cardVars
  PROVE  MfaInv'
BY CheckLockStep, CheckCountStep, LookTotpStep, MarkTotpStep, LookSmsStep, DeleteSmsStep,
   LookBackupStep, UpdateBackupStep, FetchChallengeStep, DeleteChallengeStep,
   CheckAssertionStep, StoreSignCountStep, ReadCountStep, RecordStep, LockStep,
   ClearCountStep, MarkSessionStep DEF Advance
-----------------------------------------------------------------------------
(***************************************************************************)
(* What happens beside the requests.                                       *)
(***************************************************************************)

\* No request moves, and the factors stay sound.
LEMMA ProvideStep ==
  ASSUME MfaInv, UNCHANGED <<step, body, seen, cardVars>>,
         sent' \in Nat, sent <= sent', given' \in Nat, given <= given',
         enrolled = "yes" => enrolled' = "yes",
         UNCHANGED <<session, countVars>>, LimitTypes', StreakSound',
         TotpTypes', TotpSound', SmsTypes', SmsSound', WebauthnTypes', ChallengeSound',
         BackupTypes', BackupSound'
  PROVE  MfaInv'
<1>1. RequestTypes'
  BY Types DEF MfaTypes, RequestTypes
<1>2. AllOnward
  BY DEF AllOnward, Onward
<1>3. \A q \in Requests : Settles(q)
  BY DEF Settles
<1>4. Presented' /\ StepsSound' /\ AssertionsSound' /\ SessionSound'
  BY <1>2, <1>3, PresentedKept, StepsKept, AssertionsKept, SessionKept DEF Still
<1>5. CardSound' /\ OtherTypes'
  BY CardKept, OtherTypesKept
<1> QED
  BY <1>1, <1>4, <1>5, TypesByPartNext DEF MfaTypes, MfaInv

\* When no request moves, all go on and all methods are at rest.
LEMMA NobodyMoves ==
  ASSUME UNCHANGED <<step, body, seen>>
  PROVE  AllOnward /\ Still("totp") /\ Still("sms") /\ Still("backup") /\ Still("webauthn")
BY DEF AllOnward, Onward, Still, Settles

LEMMA TotpStep ==
  ASSUME MfaInv, LookForTotp \/ InsertTotp \/ Tick, UNCHANGED cardVars
  PROVE  MfaInv'
<1>1. UNCHANGED <<step, body, seen, smsVars, backupVars, webauthnVars, limitVars, session>>
  BY DEF LookForTotp, InsertTotp, Tick
<1>2. UNCHANGED <<sent, given, enrolled, countVars>>
  BY <1>1 DEF smsVars, webauthnVars
<1>3. /\ SmsTypes' /\ SmsSound' /\ BackupTypes' /\ BackupSound' /\ WebauthnTypes'
      /\ ChallengeSound' /\ LimitTypes' /\ StreakSound'
  BY <1>1, <1>2, NobodyMoves, SmsKept, BackupKept, WebauthnKept, LimitsKept
<1>4. sent \in Nat /\ given \in Nat
  BY Types DEF MfaTypes, SmsTypes, WebauthnTypes
<1>5. TotpTypes /\ LastStep \in Nat /\ MaxSetups \in Nat /\ ReplayTtl \in Nat
  BY Types, MfaAssumption DEF MfaTypes
<1>6. TotpTypes' /\ TotpSound'
  <2>1. CASE LookForTotp \/ InsertTotp
    <3>1. UNCHANGED <<clock, marker>>
      BY <2>1 DEF LookForTotp, InsertTotp
    <3>2. TotpTypes'
      BY <1>5, <2>1, <3>1 DEF LookForTotp, InsertTotp, TotpTypes
    <3>3. TotpSound'
      BY <1>1, <3>1 DEF MfaInv, TotpSound, Uses
    <3> QED
      BY <3>2, <3>3
  <2>2. CASE Tick
    <3>1. /\ clock < LastStep /\ clock' = clock + 1 /\ UNCHANGED <<totpRows, settingUp>>
          /\ marker' = [k \in Secrets |-> IF marker[k] = 0 THEN 0 ELSE marker[k] - 1]
      BY <2>2 DEF Tick
    <3>2. \A k \in Secrets :
            marker'[k] \in 0..ReplayTtl /\ clock' + marker'[k] >= clock + marker[k]
      BY <1>5, <3>1 DEF TotpTypes
    <3>3. marker' \in [Secrets -> 0..ReplayTtl]
      BY <3>1, <3>2
    <3>4. TotpTypes'
      BY <1>5, <3>1, <3>3 DEF TotpTypes
    <3>5. ASSUME NEW q \in Requests, Uses(q, "totp")
          PROVE  /\ step[q] = "matched" => body[q].value <= clock' + 1
                 /\ step[q] \in Done => clock' + marker'[body[q].value] >= body[q].value + 2
      <4> DEFINE k == body[q].value
      <4>1. k \in Nat /\ clock \in Nat /\ (step[q] \in Done => k \in Secrets)
        BY <1>5, Bodies DEF TotpTypes, MfaInv, StepsSound
      <4>2. /\ step[q] = "matched" => k <= clock + 1
            /\ step[q] \in Done => clock + marker[k] >= k + 2
        BY <3>5 DEF MfaInv, TotpSound
      <4>3. step[q] \in Done => marker[k] \in Nat /\ marker'[k] \in Nat
        BY <1>5, <3>2, <4>1 DEF TotpTypes
      <4> QED
        BY <3>1, <3>2, <4>1, <4>2, <4>3
    <3>6. TotpSound'
      BY <1>1, <3>5 DEF TotpSound, Uses
    <3> QED
      BY <3>4, <3>6
  <2> QED
    BY <2>1, <2>2
<1> QED
  BY <1>1, <1>2, <1>3, <1>4, <1>6, ProvideStep

LEMMA SmsStep ==
  ASSUME MfaInv, UNCHANGED cardVars,
         SendSms \/ SendsExpire \/ SmsExpires \/ \E k \in Secrets : SendText(k) \/ TextFails(k)
  PROVE  MfaInv'
<1>1. UNCHANGED <<step, body, seen, clock, totpVars, backupVars, webauthnVars, limitVars,
                  session>>
  BY DEF SendSms, SendsExpire, SmsExpires, SendText, TextFails
<1>2. UNCHANGED <<given, enrolled, countVars>>
  BY <1>1 DEF webauthnVars
<1>3. /\ TotpTypes' /\ TotpSound' /\ BackupTypes' /\ BackupSound' /\ WebauthnTypes'
      /\ ChallengeSound' /\ LimitTypes' /\ StreakSound'
  BY <1>1, <1>2, NobodyMoves, TotpKept, BackupKept, WebauthnKept, LimitsKept
<1>4. /\ SmsTypes /\ given \in Nat /\ MaxSends \in Nat /\ MaxTries \in Nat
      /\ Secrets \subseteq Nat \ {0}
  BY Types, MfaAssumption DEF MfaTypes, WebauthnTypes
<1>5. CASE SendSms
  <2>1. /\ sends < MaxSends /\ sent + 1 \in Secrets /\ sends' = sends + 1
        /\ sent' = sent + 1 /\ otp' = sent + 1 /\ received' = received
        /\ texts' = [texts EXCEPT ![sent + 1] = MaxTries]
    BY <1>5 DEF SendSms, MaySend
  <2>2. sent \in Nat /\ MaxTries \in 0..MaxTries
    BY <1>4 DEF SmsTypes
  <2>3. SmsTypes'
    BY <1>4, <2>1, <2>2 DEF SmsTypes
  <2>4. ASSUME NEW k \in Secrets, texts'[k] > 0 \/ k \in received'
        PROVE  k <= sent'
    <3>1. CASE k = sent + 1
      BY <2>1, <2>2, <3>1
    <3>2. CASE k # sent + 1
      <4>1. texts'[k] = texts[k] /\ k \in Nat
        BY <1>4, <2>1, <3>2 DEF SmsTypes
      <4>2. k <= sent
        BY <2>1, <2>4, <4>1 DEF MfaInv, SmsSound
      <4> QED
        BY <2>1, <2>2, <4>1, <4>2
    <3> QED
      BY <3>1, <3>2
  <2>5. ASSUME NEW q \in Requests, Uses(q, "sms"), step[q] \in Done
        PROVE  otp' # body[q].value
    <3>1. body[q].value \in Nat /\ body[q].value <= sent
      BY <2>5, Bodies DEF MfaInv, StepsSound, Presented, Done
    <3> QED
      BY <2>1, <2>2, <3>1
  <2>6. SmsSound'
    BY <1>1, <2>1, <2>2, <2>4, <2>5 DEF SmsSound, Uses
  <2> QED
    BY <1>1, <1>2, <1>3, <1>4, <2>1, <2>2, <2>3, <2>6, ProvideStep
<1>6. CASE SendsExpire \/ SmsExpires
  <2>1. UNCHANGED <<sent, texts, received>> /\ otp' \in {otp, 0} /\ sends' \in {sends, 0}
    BY <1>6 DEF SendsExpire, SmsExpires
  <2>2. SmsTypes'
    BY <1>4, <2>1 DEF SmsTypes
  <2>3. \A q \in Requests : step[q] \in Done => body[q].value # 0
    BY Bodies DEF MfaInv, StepsSound
  <2>4. SmsSound'
    BY <1>1, <1>4, <2>1, <2>3 DEF MfaInv, SmsSound, SmsTypes, Uses
  <2>5. sent \in Nat
    BY <1>4 DEF SmsTypes
  <2> QED
    BY <1>1, <1>2, <1>3, <1>4, <2>1, <2>2, <2>4, <2>5, ProvideStep
<1>7. ASSUME NEW k \in Secrets, SendText(k) \/ TextFails(k) PROVE MfaInv'
  <2>1. /\ UNCHANGED <<otp, sent, sends>> /\ texts[k] > 0
        /\ \E n \in {0, texts[k] - 1} : texts' = [texts EXCEPT ![k] = n]
        /\ received' \in {received, received \cup {k}}
    BY <1>7 DEF SendText, TextFails, Awaited
  <2>2. PICK n \in {0, texts[k] - 1} : texts' = [texts EXCEPT ![k] = n]
    BY <2>1
  <2>3. n \in 0..MaxTries /\ sent \in Nat /\ k <= sent
    BY <1>4, <2>1 DEF SmsTypes, MfaInv, SmsSound
  <2>4. SmsTypes'
    BY <1>4, <2>1, <2>2, <2>3 DEF SmsTypes
  <2>5. ASSUME NEW j \in Secrets, texts'[j] > 0 \/ j \in received' PROVE j <= sent
    BY <1>4, <2>1, <2>2, <2>3, <2>5 DEF MfaInv, SmsSound, SmsTypes
  <2>6. SmsSound'
    BY <1>1, <2>1, <2>5 DEF MfaInv, SmsSound, Uses
  <2> QED
    BY <1>1, <1>2, <1>3, <1>4, <2>1, <2>3, <2>4, <2>6, ProvideStep
<1> QED
  BY <1>5, <1>6, <1>7

\* A generation that is deleted, or stored.
LEMMA RegenerateStep ==
  ASSUME MfaInv, NEW g \in Gens, DropBackup(g) \/ StoreBackup(g), UNCHANGED cardVars
  PROVE  MfaInv'
<1>1. UNCHANGED <<step, body, seen, clock, totpVars, smsVars, webauthnVars, limitVars, session>>
  BY DEF DropBackup, StoreBackup
<1>2. UNCHANGED <<sent, given, enrolled, countVars>>
  BY <1>1 DEF smsVars, webauthnVars
<1>3. /\ TotpTypes' /\ TotpSound' /\ SmsTypes' /\ SmsSound' /\ WebauthnTypes'
      /\ ChallengeSound' /\ LimitTypes' /\ StreakSound'
  BY <1>1, <1>2, NobodyMoves, TotpKept, SmsKept, WebauthnKept, LimitsKept
<1>4. BackupTypes /\ sent \in Nat /\ given \in Nat
  BY Types DEF MfaTypes, SmsTypes, WebauthnTypes
<1>5. /\ regen[g] # "stored"
      /\ \A h \in Gens \ {g} : regen'[h] = regen[h]
      /\ \A h \in Gens : regen[h] = "stored" => regen'[h] = "stored"
  BY <1>4 DEF DropBackup, StoreBackup, BackupTypes
<1>6. \A h \in Gens :
        \/ ~backup'[h].live /\ backup'[h].last = 0
        \/ h = g /\ regen'[g] = "stored" /\ backup'[h].last = 0
        \/ h # g /\ backup'[h] = backup[h]
  BY <1>4 DEF DropBackup, StoreBackup, BackupTypes, NoRow
<1>7. BackupTypes'
  <2>1. NoRow \in BackupRow /\ [used |-> {}, last |-> 0, live |-> TRUE] \in BackupRow
    BY DEF NoRow, BackupRow
  <2> QED
    BY <1>4, <2>1 DEF DropBackup, StoreBackup, BackupTypes
<1>8. RowsSound'
  <2>1. \A h \in Gens : Stamped(backup[h].last)'
    BY <1>1, <1>6 DEF MfaInv, BackupSound, RowsSound, Stamped
  <2>2. \A h \in Gens : backup'[h].live => regen'[h] = "stored"
    BY <1>5, <1>6 DEF MfaInv, BackupSound, RowsSound
  <2>3. \A q \in Requests : HoldsRow(q)' =>
          /\ seen'[q].gen \in Gens /\ regen'[seen'[q].gen] = "stored"
          /\ GenOf[body'[q].value] = seen'[q].gen
          /\ Stamped(seen[q].row.last)'
    BY <1>1, <1>5 DEF MfaInv, BackupSound, RowsSound, HoldsRow, Uses, Stamped
  <2> QED
    BY <2>1, <2>2, <2>3 DEF RowsSound
<1>9. \A q \in Requests : HoldsRow(q) => seen[q].gen \in Gens \ {g}
  BY <1>5 DEF MfaInv, BackupSound, RowsSound
<1>10. StampsDiffer => ReadsSound'
  <2>1. \A q \in Requests : HoldsRow(q)' => HoldsRow(q) /\ seen'[q] = seen[q]
    BY <1>1 DEF HoldsRow, Uses
  <2>2. \A h \in Gens \ {g} : backup'[h].live => backup'[h] = backup[h]
    BY <1>6
  <2> QED
    BY <1>9, <2>1, <2>2 DEF MfaInv, BackupSound, ReadsSound
<1>11. StampsDiffer => CodesMarked'
  <2>1. ASSUME StampsDiffer, NEW q \in Requests, Uses(q, "backup"), step[q] \in Done
        PROVE  LET h == GenOf[body[q].value] IN
               /\ h \in Gens /\ regen'[h] = "stored"
               /\ backup'[h].live => body[q].value \in backup'[h].used
    <3> DEFINE h == GenOf[body[q].value]
    <3>1. /\ h \in Gens /\ regen[h] = "stored"
          /\ backup[h].live => body[q].value \in backup[h].used
      BY <2>1 DEF MfaInv, BackupSound, CodesMarked
    <3>2. h # g
      BY <1>5, <3>1
    <3> QED
      BY <1>5, <1>6, <3>1, <3>2
  <2> QED
    BY <1>1, <2>1 DEF CodesMarked, Uses
<1>12. BackupSound'
  BY <1>8, <1>10, <1>11 DEF BackupSound, StampsDiffer
<1> QED
  BY <1>1, <1>2, <1>3, <1>4, <1>7, <1>12, ProvideStep

LEMMA WebauthnStep ==
  ASSUME MfaInv, UNCHANGED cardVars,
         \/ OfferRegistration \/ OpenRegistration \/ InsertCredential \/ RegistrationEnds
         \/ GiveChallenge \/ ChallengeExpires
  PROVE  MfaInv'
<1>1. UNCHANGED <<step, body, seen, clock, totpVars, smsVars, backupVars, countVars, limitVars,
                  session>>
  BY DEF OfferRegistration, OpenRegistration, InsertCredential, RegistrationEnds, Enrol,
         GiveChallenge, ChallengeExpires
<1>2. UNCHANGED sent
  BY <1>1 DEF smsVars
<1>3. /\ TotpTypes' /\ TotpSound' /\ SmsTypes' /\ SmsSound' /\ BackupTypes' /\ BackupSound'
      /\ LimitTypes' /\ StreakSound'
  BY <1>1, NobodyMoves, TotpKept, SmsKept, BackupKept, LimitsKept
<1>4. WebauthnTypes /\ sent \in Nat
  BY Types DEF MfaTypes, SmsTypes
<1>5. CASE OfferRegistration \/ OpenRegistration \/ InsertCredential \/ RegistrationEnds
  <2>1. /\ UNCHANGED <<challenge, given>> /\ enrolled # "yes"
        /\ enrolled' \in {"none", "offered", "opened", "yes"}
    BY <1>5 DEF OfferRegistration, OpenRegistration, InsertCredential, RegistrationEnds, Enrol
  <2>2. WebauthnTypes' /\ ChallengeSound'
    BY <1>1, <1>4, <2>1, NobodyMoves, ChallengeKept DEF WebauthnTypes, countVars
  <2> QED
    BY <1>1, <1>2, <1>3, <1>4, <2>1, <2>2, ProvideStep DEF WebauthnTypes
<1>6. CASE GiveChallenge
  <2>1. /\ UNCHANGED enrolled /\ given + 1 \in Secrets /\ given' = given + 1
        /\ challenge' = given + 1
    BY <1>6 DEF GiveChallenge
  <2>2. given \in Nat
    BY <1>4 DEF WebauthnTypes
  <2>3. WebauthnTypes'
    BY <1>1, <1>4, <2>1, <2>2 DEF WebauthnTypes, countVars
  <2>4. ASSUME NEW q \in Requests, Uses(q, "webauthn"),
               \/ step[q] \in {"matched"} \cup Done
               \/ step[q] = "deleted" /\ body[q].value # 0
        PROVE  challenge' # body[q].value
    <3>1. body[q].value \in Nat /\ body[q].value # 0 /\ step[q] # "new"
      BY <2>4, Bodies DEF MfaInv, StepsSound, Done
    <3>2. body[q].value <= given
      BY <2>4, <3>1 DEF MfaInv, Presented
    <3> QED
      BY <2>1, <2>2, <3>1, <3>2
  <2>5. ChallengeSound'
    BY <1>1, <2>1, <2>2, <2>4 DEF ChallengeSound, Uses
  <2> QED
    BY <1>1, <1>2, <1>3, <1>4, <2>1, <2>2, <2>3, <2>5, ProvideStep
<1>7. CASE ChallengeExpires
  <2>1. UNCHANGED <<enrolled, given>> /\ challenge' = 0
    BY <1>7 DEF ChallengeExpires
  <2>2. given \in Nat
    BY <1>4 DEF WebauthnTypes
  <2>3. WebauthnTypes'
    BY <1>1, <1>4, <2>1 DEF WebauthnTypes, countVars
  <2>4. \A q \in Requests : step[q] \in {"matched"} \cup Done => body[q].value # 0
    BY Bodies DEF MfaInv, StepsSound
  <2>5. ChallengeSound'
    BY <1>1, <2>1, <2>2, <2>4 DEF ChallengeSound, Uses
  <2> QED
    BY <1>1, <1>2, <1>3, <1>4, <2>1, <2>2, <2>3, <2>5, ProvideStep
<1> QED
  BY <1>5, <1>6, <1>7

LEMMA CountExpiresStep ==
  ASSUME MfaInv, CountExpires, UNCHANGED cardVars
  PROVE  MfaInv'
<1>1. /\ UNCHANGED <<step, body, seen, clock, factorVars, locked, raced, session>>
      /\ attempts' = 0 /\ streak' = {}
  BY DEF CountExpires
<1>2. UNCHANGED <<totpVars, smsVars, backupVars, webauthnVars, sent, given, enrolled, countVars>>
  BY <1>1 DEF factorVars, smsVars, webauthnVars
<1>3. /\ TotpTypes' /\ TotpSound' /\ SmsTypes' /\ SmsSound' /\ BackupTypes' /\ BackupSound'
      /\ WebauthnTypes' /\ ChallengeSound'
  BY <1>1, <1>2, NobodyMoves, TotpKept, SmsKept, BackupKept, WebauthnKept
<1>4. LimitTypes' /\ StreakSound'
  BY <1>1, StreakGone
<1>5. sent \in Nat /\ given \in Nat
  BY Types DEF MfaTypes, SmsTypes, WebauthnTypes
<1> QED
  BY <1>1, <1>2, <1>3, <1>4, <1>5, ProvideStep

\* The branch of requireAAL2 for a remembered device is never taken.
LEMMA RequireAal2Step ==
  ASSUME MfaInv, RequireAal2, UNCHANGED cardVars
  PROVE  MfaInv'
<1>1. UNCHANGED <<step, body, seen, clock, factorVars, limitVars>>
  BY DEF RequireAal2
<1>2. session' = session
  BY DEF RequireAal2, MfaInv, SessionSound
<1>3. UNCHANGED <<totpVars, smsVars, backupVars, webauthnVars, sent, given, enrolled,
                  countVars>>
  BY <1>1 DEF factorVars, smsVars, webauthnVars
<1>4. /\ TotpTypes' /\ TotpSound' /\ SmsTypes' /\ SmsSound' /\ BackupTypes' /\ BackupSound'
      /\ WebauthnTypes' /\ ChallengeSound' /\ LimitTypes' /\ StreakSound'
  BY <1>1, <1>3, NobodyMoves, TotpKept, SmsKept, BackupKept, WebauthnKept, LimitsKept
<1>5. sent \in Nat /\ given \in Nat
  BY Types DEF MfaTypes, SmsTypes, WebauthnTypes
<1> QED
  BY <1>1, <1>2, <1>3, <1>4, <1>5, ProvideStep

\* A step of the account or of a card leaves the factors sound.
LEMMA UnchangedStep ==
  ASSUME MfaInv, UNCHANGED vars,
         card' \in Issuers \cup {"none"}, shown' \subseteq Issuers, CardSound'
  PROVE  MfaInv'
<1>1. /\ UNCHANGED <<step, body, seen, clock, totpRows, settingUp, marker, otp, sent, sends>>
      /\ UNCHANGED <<texts, received, backup, regen, enrolled, challenge, given, countVars>>
      /\ UNCHANGED <<attempts, locked, session, streak, raced>>
  BY DEF vars, countVars
<1>2. /\ UNCHANGED <<totpVars, smsVars, backupVars, webauthnVars, limitVars>>
  BY <1>1 DEF totpVars, smsVars, backupVars, webauthnVars, limitVars
<1>3. AllOnward /\ \A m : Still(m)
  BY <1>1 DEF AllOnward, Onward, Still, Settles
<1>4. /\ TotpTypes' /\ TotpSound' /\ SmsTypes' /\ SmsSound' /\ BackupTypes' /\ BackupSound'
      /\ WebauthnTypes' /\ ChallengeSound' /\ AssertionsSound' /\ LimitTypes' /\ StreakSound'
  BY <1>1, <1>2, <1>3, TotpKept, SmsKept, BackupKept, WebauthnKept, LimitsKept
<1>5. RequestTypes' /\ OtherTypes'
  BY <1>1, Types DEF MfaTypes, RequestTypes, OtherTypes
<1>6. sent \in Nat /\ given \in Nat
  BY Types DEF MfaTypes, SmsTypes, WebauthnTypes
<1>7. \A q \in Requests : Settles(q)
  BY <1>1 DEF Settles
<1>8. Presented' /\ StepsSound' /\ SessionSound'
  BY <1>1, <1>3, <1>6, <1>7, PresentedKept, StepsKept, SessionKept
<1> QED
  BY <1>4, <1>5, <1>8, TypesByPartNext DEF MfaTypes, MfaInv

LEMMA NextStep ==
  ASSUME MfaInv, Next, UNCHANGED cardVars
  PROVE  MfaInv'
<1>1. CASE Provide
  BY <1>1, TotpStep, SmsStep, RegenerateStep, WebauthnStep, CountExpiresStep DEF Provide
<1> QED
  BY <1>1, AdvanceStep, AbortStep, RequireAal2Step DEF Next

LEMMA CardsStep ==
  ASSUME MfaInv, Cards, UNCHANGED vars
  PROVE  MfaInv'
<1>1. PICK i \in Issuers : card' = i /\ shown' = shown \cup {i}
  BY DEF Cards, PresentCard
<1>2. shown \subseteq Issuers
  BY Types DEF MfaTypes, OtherTypes
<1>3. CardSound'
  BY <1>1 DEF CardSound
<1> QED
  BY <1>1, <1>2, <1>3, UnchangedStep

LEMMA MfaNextInv ==
  ASSUME MfaInv, [MfaNext]_<<vars, cardVars>>
  PROVE  MfaInv'
<1>1. CASE UNCHANGED <<vars, cardVars>>
  <2>1. UNCHANGED <<card, shown>>
    BY <1>1 DEF cardVars
  <2>2. card \in Issuers \cup {"none"} /\ shown \subseteq Issuers
    BY Types DEF MfaTypes, OtherTypes
  <2> QED
    BY <1>1, <2>1, <2>2, CardKept, UnchangedStep
<1> QED
  BY <1>1, NextStep, CardsStep DEF MfaNext
-----------------------------------------------------------------------------
(***************************************************************************)
(* What MFA promises.                                                      *)
(***************************************************************************)

\* The invariant holds in every state of the factors and cards of a user, with
\* any requests, codes, challenges and limits (Mfa).
THEOREM MfaInvariance ==
  Spec => []MfaInv
<1>1. Init => MfaInv
  BY MfaInitInv DEF Init
<1>2. MfaInv /\ [MfaNext]_<<vars, cardVars>> => MfaInv'
  BY MfaNextInv
<1> QED
  BY <1>1, <1>2, PTL DEF Spec

\* Every session a gate of aal-evaluator.ts lets through had a factor verified to the end,
\* one requirePhishingResistant lets through WebAuthn; a remembered device or
\* a card stands in for no factor.
THEOREM GatesAreSound ==
  Spec => []GatesSound
<1>1. MfaInv => GatesSound
  <2> SUFFICES ASSUME MfaInv PROVE GatesSound
    OBVIOUS
  <2>1. SessionSound /\ CardSound
    BY DEF MfaInv
  <2>2. \A phishing \in BOOLEAN :
          PassesAal2(phishing) => \E r \in Requests : step[r] = "verified"
    BY <2>1 DEF SessionSound, PassesAal2
  <2>3. ASSUME PassesPhishingResistant
        PROVE  /\ \E r \in Requests : step[r] = "verified" /\ Uses(r, "webauthn")
               /\ session.method \in Offered("phishing_resistant")
    <3>1. PICK r \in Requests : step[r] = "verified" /\ body[r].method = session.method
      BY <2>1, <2>3 DEF SessionSound, PassesPhishingResistant
    <3>2. session.method = "webauthn"
      BY <2>3, <3>1, Bodies DEF PassesPhishingResistant, Methods
    <3>3. enrolled = "yes"
      <4>1. body[r].value \in Secrets
        BY <3>1 DEF MfaInv, StepsSound, Done
      <4>2. body[r].value # 0 /\ step[r] # "new" /\ Uses(r, "webauthn")
        BY <3>1, <3>2, <4>1, Bodies DEF Uses
      <4> QED
        BY <4>2 DEF MfaInv, Presented
    <3>4. session.method \in Offered("phishing_resistant")
      BY <3>2, <3>3 DEF Offered, Configured, Methods
    <3> QED
      BY <3>1, <3>2, <3>4 DEF Uses
  <2> QED
    BY <2>1, <2>2, <2>3 DEF GatesSound, SessionSound, CardSound, PassesHspd12
<1> QED
  BY <1>1, MfaInvariance, PTL

\* The failure counter (recordFailedAttempt) says how many requests failed
\* since it was last gone, up to its limit, unless two counted at a time: the
\* lock falls at the limit, for any limit.
THEOREM FailuresAreCounted ==
  Spec => []FailuresCount
<1>1. MfaInv => FailuresCount
  BY DEF MfaInv, StreakSound, FailuresCount
<1> QED
  BY <1>1, MfaInvariance, PTL

\* One request moves at a time, and each stage is entered by one action.
LEMMA AdvanceMoves ==
  ASSUME MfaInv, NEW r \in Requests, Advance(r) \/ Abort(r)
  PROVE  /\ UNCHANGED body
         /\ \A q \in Requests \ {r} : step'[q] = step[q] /\ seen'[q] = seen[q]
         /\ step'[r] \in Done => step[r] \in {"matched"} \cup Done
         /\ step'[r] = "matched" =>
              LookTotp(r) \/ LookSms(r) \/ LookBackup(r) \/ CheckAssertion(r)
         /\ step'[r] = "fetched" => FetchChallenge(r)
         /\ step'[r] = "deleted" => DeleteChallenge(r)
<1>1. RequestTypes
  BY Types DEF MfaTypes
<1>2. CASE CheckLock(r) \/ CheckCount(r) \/ Lock(r) \/ Abort(r)
  BY <1>1, <1>2 DEF CheckLock, CheckCount, Lock, Abort, GoTo, RequestTypes, Done
<1>3. CASE ReadCount(r) \/ Record(r)
  BY <1>1, <1>3 DEF ReadCount, Record, GoTo, Holding, RequestTypes, Done
<1>4. CASE ClearCount(r) \/ \E remember \in BOOLEAN : MarkSession(r, remember)
  BY <1>1, <1>4 DEF ClearCount, MarkSession, GoTo, RequestTypes, Done
<1>5. CASE LookTotp(r) \/ LookSms(r) \/ CheckAssertion(r)
  BY <1>1, <1>5 DEF LookTotp, LookSms, CheckAssertion, GoTo, Holding, RequestTypes, Done
<1>6. CASE LookBackup(r)
  BY <1>1, <1>6 DEF LookBackup, GoTo, Holding, RequestTypes, Done
<1>7. CASE MarkTotp(r) \/ DeleteSms(r) \/ StoreSignCount(r)
  BY <1>1, <1>7 DEF MarkTotp, DeleteSms, StoreSignCount, GoTo, RequestTypes, Done
<1>8. CASE UpdateBackup(r)
  BY <1>1, <1>8 DEF UpdateBackup, GoTo, RequestTypes, Done
<1>9. CASE FetchChallenge(r)
  BY <1>1, <1>9 DEF FetchChallenge, GoTo, Holding, RequestTypes, Done
<1>10. CASE DeleteChallenge(r)
  BY <1>1, <1>10 DEF DeleteChallenge, GoTo, RequestTypes, Done
<1> QED
  BY <1>2, <1>3, <1>4, <1>5, <1>6, <1>7, <1>8, <1>9, <1>10 DEF Advance

\* A request passes the limiter, to compare its secret next.
Admitted(r) == step[r] # "checked" /\ step'[r] = "checked"

\* A request passes only while the limiter has not counted to its limit.
LEMMA PassesTheLimit ==
  ASSUME MfaInv, [MfaNext]_<<vars, cardVars>>, NEW r \in Requests, Admitted(r)
  PROVE  attempts < MaxFailed
<1>1. RequestTypes /\ attempts \in Nat /\ MaxFailed \in Nat
  BY Types, MfaAssumption DEF MfaTypes, LimitTypes
<1>2. \E q \in Requests : Advance(q) \/ Abort(q)
  <2>1. ~UNCHANGED step
    BY DEF Admitted
  <2>2. ~Provide
    BY <2>1 DEF Provide, LookForTotp, InsertTotp, Tick, SendSms, SendsExpire, SmsExpires,
                SendText, TextFails, DropBackup, StoreBackup, OfferRegistration,
                OpenRegistration, InsertCredential, RegistrationEnds, Enrol, GiveChallenge,
                ChallengeExpires, CountExpires
  <2>3. ~RequireAal2 /\ ~UNCHANGED vars
    BY <2>1 DEF RequireAal2, vars
  <2> QED
    BY <2>2, <2>3 DEF MfaNext, Next, cardVars, vars
<1>3. PICK q \in Requests : Advance(q) \/ Abort(q)
  BY <1>2
<1>4. q = r
  BY <1>3, AdvanceMoves DEF Admitted
<1>5. CheckCount(r)
  <2>1. ~CheckLock(r) /\ ~Lock(r) /\ ~Abort(r) /\ ~ReadCount(r) /\ ~Record(r)
    BY <1>1 DEF Admitted, CheckLock, Lock, Abort, ReadCount, Record, GoTo, RequestTypes
  <2>2. ~ClearCount(r) /\ ~\E remember \in BOOLEAN : MarkSession(r, remember)
    BY <1>1 DEF Admitted, ClearCount, MarkSession, GoTo, RequestTypes
  <2>3. ~LookTotp(r) /\ ~LookSms(r) /\ ~LookBackup(r) /\ ~FetchChallenge(r)
    BY <1>1 DEF Admitted, LookTotp, LookSms, LookBackup, FetchChallenge, GoTo, RequestTypes
  <2>4. ~MarkTotp(r) /\ ~DeleteSms(r) /\ ~UpdateBackup(r)
    BY <1>1 DEF Admitted, MarkTotp, DeleteSms, UpdateBackup, GoTo, RequestTypes
  <2>5. ~DeleteChallenge(r) /\ ~CheckAssertion(r) /\ ~StoreSignCount(r)
    BY <1>1 DEF Admitted, DeleteChallenge, CheckAssertion, StoreSignCount, GoTo, RequestTypes
  <2> QED
    BY <1>3, <1>4, <2>1, <2>2, <2>3, <2>4, <2>5 DEF Advance
<1> QED
  BY <1>1, <1>5 DEF CheckCount, GoTo, Admitted, RequestTypes

\* Unless two requests counted at a time, the limiter lets no request pass once
\* as many requests as the limit allows have failed since the last success or
\* expiry, whatever factors they tried (checkMfaRateLimit, recordFailedAttempt).
\* A request that had passed before may still compare its secret then.
THEOREM AdmissionIsBounded ==
  Spec => [][\A r \in Requests :
               ~raced /\ Admitted(r) => Cardinality(streak) < MaxFailed]_vars
<1>1. ASSUME MfaInv, [MfaNext]_<<vars, cardVars>>, NEW r \in Requests, ~raced, Admitted(r)
      PROVE  Cardinality(streak) < MaxFailed
  <2>1. attempts < MaxFailed
    BY <1>1, PassesTheLimit
  <2>2. attempts = AtMost(Cardinality(streak), MaxFailed) /\ IsFiniteSet(streak)
    BY <1>1 DEF MfaInv, StreakSound
  <2>3. Cardinality(streak) \in Nat /\ MaxFailed \in Nat
    BY <2>2, FS_CardinalityType, MfaAssumption
  <2> QED
    BY <2>1, <2>2, <2>3 DEF AtMost
<1>2. MfaInv /\ [MfaNext]_<<vars, cardVars>> =>
        [\A r \in Requests :
           ~raced /\ Admitted(r) => Cardinality(streak) < MaxFailed]_vars
  BY <1>1
<1> QED
  BY <1>2, MfaInvariance, PTL DEF Spec

\* Nobody finds a secret good that was consumed, or reads its challenge.
LEMMA SpentStaysSpent ==
  ASSUME MfaInv, NEW r \in Requests, NEW m \in Methods, NEW v \in Secrets,
         Winners(m, v) # {}, m = "backup" => StampsDiffer, Presents(r, m, v),
         LookTotp(r) \/ LookSms(r) \/ LookBackup(r) \/ FetchChallenge(r)
  PROVE  /\ step'[r] # "matched"
         /\ step'[r] = "fetched" => seen'[r].n # v
<1>1. PICK w \in Requests : Uses(w, m) /\ body[w].value = v /\ step[w] \in Done
  BY DEF Winners, Presents, Done
<1>2. RequestTypes /\ v \in Nat /\ v # 0 /\ Uses(r, m) /\ body[r].value = v
  BY Types, Bodies DEF MfaTypes, Presents
<1>3. CASE LookTotp(r)
  <2>1. m = "totp" /\ clock + marker[v] >= v + 2
    BY <1>1, <1>2, <1>3 DEF LookTotp, Uses, MfaInv, TotpSound
  <2>2. clock \in Nat
    BY Types, MfaAssumption DEF MfaTypes, TotpTypes
  <2>3. ~(InWindow(v) /\ marker[v] = 0)
    BY <1>2, <2>1, <2>2 DEF InWindow
  <2>4. step'[r] \in {"refused", "wrong"}
    BY <1>2, <1>3, <2>3 DEF LookTotp, GoTo, RequestTypes
  <2> QED
    BY <2>4
<1>4. CASE LookSms(r)
  <2>1. otp # v
    BY <1>1, <1>2, <1>4 DEF LookSms, Uses, MfaInv, SmsSound
  <2>2. step'[r] \in {"refused", "wrong"}
    BY <1>2, <1>4, <2>1 DEF LookSms, GoTo, RequestTypes
  <2> QED
    BY <2>2
<1>5. CASE LookBackup(r)
  <2>1. Uses(w, "backup") /\ StampsDiffer
    BY <1>1, <1>2, <1>5 DEF LookBackup, Uses
  <2>2. backup[GenOf[v]].live => v \in backup[GenOf[v]].used
    BY <1>1, <2>1 DEF MfaInv, BackupSound, CodesMarked
  <2>3. step'[r] \in {"refused", "wrong"}
    BY <1>2, <1>5, <2>2 DEF LookBackup, GoTo, RequestTypes
  <2> QED
    BY <2>3
<1>6. CASE FetchChallenge(r)
  <2>1. challenge # v
    BY <1>1, <1>2, <1>6 DEF FetchChallenge, Uses, MfaInv, ChallengeSound
  <2>2. seen'[r].n = challenge /\ step'[r] \in {"refused", "fetched"}
    BY <1>2, <1>6 DEF FetchChallenge, GoTo, Holding, RequestTypes
  <2> QED
    BY <2>1, <2>2
<1> QED
  BY <1>3, <1>4, <1>5, <1>6

LEMMA SpentStep ==
  ASSUME MfaInv, [MfaNext]_<<vars, cardVars>>, NEW m \in Methods, NEW v \in Secrets,
         Spent(m, v), m = "backup" => StampsDiffer
  PROVE  Holders(m, v)' = {} /\ Winners(m, v)' \subseteq Winners(m, v)
<1>1. Winners(m, v) # {} /\ Holders(m, v) = {}
  BY DEF Spent
<1>2. CASE UNCHANGED <<step, body, seen>>
  BY <1>1, <1>2 DEF Winners, Holders, Presents, Uses
<1>3. ASSUME NEW r \in Requests, Advance(r) \/ Abort(r)
      PROVE  Holders(m, v)' = {} /\ Winners(m, v)' \subseteq Winners(m, v)
  <2>1. /\ UNCHANGED body
        /\ \A q \in Requests \ {r} : step'[q] = step[q] /\ seen'[q] = seen[q]
        /\ step'[r] \in Done => step[r] \in {"matched"} \cup Done
        /\ step'[r] = "matched" =>
             LookTotp(r) \/ LookSms(r) \/ LookBackup(r) \/ CheckAssertion(r)
        /\ step'[r] = "fetched" => FetchChallenge(r)
        /\ step'[r] = "deleted" => DeleteChallenge(r)
    BY <1>3, AdvanceMoves
  <2>2. \A q \in Requests \ {r} :
          /\ q \in Holders(m, v)' => q \in Holders(m, v)
          /\ q \in Winners(m, v)' => q \in Winners(m, v)
    BY <2>1 DEF Holders, Winners, Presents, Uses
  <2>3. r \in Winners(m, v)' => r \in Winners(m, v) \cup Holders(m, v)
    BY <2>1 DEF Holders, Winners, Presents, Uses, Done
  <2>4. r \notin Holders(m, v)'
    <3> SUFFICES ASSUME r \in Holders(m, v)' PROVE FALSE
      OBVIOUS
    <3>1. /\ Presents(r, m, v)
          /\ \/ step'[r] = "matched"
             \/ step'[r] \in {"fetched", "deleted"} /\ seen'[r].n = v
      BY <2>1 DEF Holders, Presents, Uses
    <3>2. ~(LookTotp(r) \/ LookSms(r) \/ LookBackup(r) \/ FetchChallenge(r))
      <4> SUFFICES ASSUME LookTotp(r) \/ LookSms(r) \/ LookBackup(r) \/ FetchChallenge(r)
                   PROVE  FALSE
        OBVIOUS
      <4>1. step[r] = "checked"
        BY DEF LookTotp, LookSms, LookBackup, FetchChallenge
      <4>2. step'[r] # "deleted"
        BY <2>1, <4>1 DEF DeleteChallenge
      <4>3. /\ step'[r] # "matched"
            /\ step'[r] = "fetched" => seen'[r].n # v
        BY <1>1, <3>1, SpentStaysSpent
      <4> QED
        BY <3>1, <4>2, <4>3
    <3>3. CASE CheckAssertion(r)
      <4>1. step[r] = "deleted" /\ seen[r].n = v
        <5>1. step'[r] = "matched"
          BY <2>1, <3>1, <3>2, <3>3 DEF CheckAssertion, DeleteChallenge
        <5> QED
          BY <3>1, <3>3, <5>1, Types
             DEF CheckAssertion, GoTo, MfaTypes, RequestTypes, Presents
      <4>2. r \in Holders(m, v)
        BY <3>1, <4>1 DEF Holders
      <4> QED
        BY <1>1, <4>2
    <3>4. CASE DeleteChallenge(r)
      <4>1. step[r] = "fetched" /\ step'[r] = "deleted" /\ seen' = seen
        BY <3>4, Types DEF DeleteChallenge, GoTo, MfaTypes, RequestTypes
      <4>2. r \in Holders(m, v)
        BY <3>1, <4>1 DEF Holders
      <4> QED
        BY <1>1, <4>2
    <3> QED
      BY <2>1, <3>1, <3>2, <3>3, <3>4
  <2>5. Holders(m, v)' \subseteq Requests /\ Winners(m, v)' \subseteq Requests
    BY DEF Holders, Winners
  <2> QED
    BY <1>1, <2>2, <2>3, <2>4, <2>5
<1>4. CASE Provide
  <2>1. UNCHANGED <<step, body, seen>>
    BY <1>4 DEF Provide, LookForTotp, InsertTotp, Tick, SendSms, SendsExpire, SmsExpires,
                SendText, TextFails, DropBackup, StoreBackup, OfferRegistration,
                OpenRegistration, InsertCredential, RegistrationEnds, Enrol, GiveChallenge,
                ChallengeExpires, CountExpires
  <2> QED
    BY <1>2, <2>1
<1>5. CASE RequireAal2 \/ UNCHANGED vars
  BY <1>2, <1>5 DEF RequireAal2, vars
<1> QED
  BY <1>3, <1>4, <1>5 DEF MfaNext, Next

\* No code, backup code or challenge is good twice, for any number of requests
\* and whatever is sent again, expires or is regenerated: once a request has
\* consumed it and no other holds it, none consumes it.  It needs a replay
\* marker of three periods (totp.ts), and of the updates of backup codes
\* times that differ (backup-codes.ts).
THEOREM FactorsAreSpent ==
  Spec => FactorsSpent
<1>1. MfaInv /\ [MfaNext]_<<vars, cardVars>> =>
        \A m \in Methods, v \in Secrets :
          Spent(m, v) /\ (m = "backup" => StampsDiffer) =>
            Holders(m, v)' = {} /\ Winners(m, v)' \subseteq Winners(m, v)
  BY SpentStep
<1>2. MfaInv /\ [MfaNext]_<<vars, cardVars>> =>
        [\A m \in Methods, v \in Secrets :
           Spent(m, v) /\ (m = "backup" => StampsDiffer) =>
             Holders(m, v)' = {} /\ Winners(m, v)' \subseteq Winners(m, v)]_vars
  BY <1>1
<1> QED
  BY <1>2, MfaInvariance, PTL DEF Spec, FactorsSpent

LEMMA SignCountStep ==
  ASSUME MfaInv, [MfaNext]_<<vars, cardVars>>
  PROVE  signCount' >= signCount \/ signCount' = 0 \/ crossed
<1>1. signCount \in Nat /\ RequestTypes
  BY Types DEF MfaTypes, WebauthnTypes
<1>2. CASE UNCHANGED countVars
  BY <1>1, <1>2 DEF countVars
<1>3. ASSUME NEW r \in Requests, Advance(r) \/ Abort(r)
      PROVE  signCount' >= signCount \/ signCount' = 0 \/ crossed
  <2>1. CASE StoreSignCount(r)
    <3>1. crossed \/ seen[r].n = 0 \/ seen[r].n > signCount
      BY <2>1 DEF StoreSignCount, MfaInv, AssertionsSound
    <3>2. seen[r].n \in Nat /\ signCount' = seen[r].n
      BY <1>1, <2>1 DEF StoreSignCount, RequestTypes, Seen
    <3> QED
      BY <1>1, <3>1, <3>2
  <2>2. CASE ~StoreSignCount(r)
    <3>1. UNCHANGED countVars
      BY <1>3, <2>2
         DEF Advance, Abort, CheckLock, CheckCount, LookTotp, MarkTotp, LookSms, DeleteSms,
             LookBackup, UpdateBackup, FetchChallenge, DeleteChallenge, CheckAssertion,
             ReadCount, Record, Lock, ClearCount, MarkSession, factorVars, webauthnVars
    <3> QED
      BY <1>2, <3>1
  <2> QED
    BY <2>1, <2>2
<1>4. CASE Provide
  <2>1. UNCHANGED countVars
    BY <1>4 DEF Provide, LookForTotp, InsertTotp, Tick, SendSms, SendsExpire, SmsExpires,
                SendText, TextFails, DropBackup, StoreBackup, OfferRegistration,
                OpenRegistration, InsertCredential, RegistrationEnds, Enrol, GiveChallenge,
                ChallengeExpires, CountExpires, factorVars, webauthnVars
  <2> QED
    BY <1>2, <2>1
<1>5. CASE RequireAal2 \/ UNCHANGED vars
  BY <1>2, <1>5 DEF RequireAal2, vars, countVars, factorVars, webauthnVars
<1> QED
  BY <1>3, <1>4, <1>5 DEF MfaNext, Next

\* No two assertions are accepted with one sign count, and the count of a
\* credential goes back to zero only: unless an authenticator without a count
\* set it back, or two assertions were good at a time (webauthn.ts lets a count
\* of zero pass, and checks and stores the count in different calls).
THEOREM SignCountsAreKept ==
  Spec => SignCountKept
<1>1. MfaInv => \/ crossed \/ \E r \in counted : seen[r].n = 0
                \/ \A q, r \in counted : seen[q].n = seen[r].n => q = r
  BY DEF MfaInv, AssertionsSound
<1>2. MfaInv /\ [MfaNext]_<<vars, cardVars>> =>
        [signCount' >= signCount \/ signCount' = 0 \/ crossed]_vars
  BY SignCountStep
<1> QED
  BY <1>1, <1>2, MfaInvariance, PTL DEF Spec, SignCountKept
-----------------------------------------------------------------------------
(***************************************************************************)
(* The inductive invariant of the account.                                 *)
(***************************************************************************)

AboutRow ==
  {"free", "deletable", "eligible", "unset", "set", "read", "verified", "primary"}

\* Requests about an address know its row.
TargetsSound == \A j \in Jobs : job[j] \in AboutRow => target[j] \in Rows

\* A row that is there was mailed a token for its address, but for the first;
\* only such a row is primary.
MailedSound ==
  \A r \in Rows :
    /\ emails[r].here =>
         \/ r = First /\ emails[r].address = FirstAddress
         \/ \E t \in mailed : t[1] = r /\ t[2] = emails[r].address
    /\ emails[r].primary => emails[r].here

\* Requests that make an address the primary one.
Choosing == {"eligible", "unset", "set", "read"}

\* The address of the users row is proven, and so is the one to come.
ProvenSound ==
  /\ Reads(email) \in Proven
  /\ \A j \in Jobs : job[j] \in Choosing => brings[j] \in Proven

\* Row r is verified and the only primary one.
OnlyPrimary(r) ==
  r \in Rows /\ emails[r].primary /\ emails[r].verified
  /\ \A s \in Rows : emails[s].primary => s = r

\* ... and its address the one in the users row.
PrimaryIs(r) == OnlyPrimary(r) /\ emails[r].address = Reads(email)

\* The row can become the primary one.
TargetGood(j) ==
  emails[target[j]].here /\ emails[target[j]].verified
  /\ emails[target[j]].address = brings[j]

\* How far the change of a request has come.
ChangeSound(j) ==
  /\ job[j] = "deletable" => ~emails[target[j]].primary
  /\ job[j] = "eligible" => TargetGood(j)
  /\ job[j] = "unset" => (\A r \in Rows : ~emails[r].primary) /\ TargetGood(j)
  /\ job[j] \in {"set", "read"} => OnlyPrimary(target[j]) /\ TargetGood(j)

\* Request j is the only one that changes an address.
OnlyOne(j) == \A i \in Jobs : Changing(i) => i = j

\* Changes that overlapped are in progress.
OverlapSound == overlapped \subseteq {j \in Jobs : Changing(j)}

\* A change that is alone goes as far as it says, and what a settled account
\* has is the work of such changes.
PrimarySound ==
  exists =>
    /\ \A j \in Jobs : Changing(j) /\ j \notin overlapped => OnlyOne(j) /\ ChangeSound(j)
    /\ settled => /\ \A j \in Jobs : Changing(j) => j \notin overlapped
                  /\ (\A j \in Jobs : ~HalfWay(j)) => \E r \in Rows : PrimaryIs(r)

\* A mark lasts as long as its link.
LinksSound ==
  /\ \A j \in Jobs : job[j] \in {"unused", "found", "written"} => link[j] \in sentLinks
  /\ spent \subseteq sentLinks
  /\ \A l \in spent : age[l] + usedMark[l] >= LinkLife

AccountInv ==
  /\ AccountTypeOK /\ TargetsSound /\ MailedSound /\ TokenProvesItsRow
  /\ ProvenSound /\ OverlapSound /\ PrimarySound /\ LinksSound

LEMMA AccountInitInv ==
  AccountInit => AccountInv
<1> SUFFICES ASSUME AccountInit PROVE AccountInv
  OBVIOUS
<1> USE AccountAssumption
<1>1. /\ emails \in [Rows -> EmailRow] /\ email \in Stored /\ confirmed \in BOOLEAN
      /\ Reads(email) = FirstAddress
      /\ \A r \in Rows : emails[r].here => r = First /\ emails[r].address = FirstAddress
      /\ \A r \in Rows : emails[r].primary => emails[r].here
  <2>1. NoEmail \in EmailRow /\ ~NoEmail.here /\ ~NoEmail.primary
    BY DEF NoEmail, EmailRow
  <2>2. /\ Sealed(FirstAddress) \in Stored /\ Reads(Sealed(FirstAddress)) = FirstAddress
        /\ Plain(FirstAddress) \in Stored /\ Reads(Plain(FirstAddress)) = FirstAddress
    BY DEF Sealed, Plain, Stored, Reads
  <2>3. CASE Native
    BY <2>1, <2>2, <2>3 DEF Native
  <2>4. CASE \E primary, verified \in BOOLEAN : Migrated(primary, verified)
    <3>1. PICK primary, verified \in BOOLEAN : Migrated(primary, verified)
      BY <2>4
    <3> DEFINE row == [here |-> TRUE, address |-> FirstAddress, primary |-> primary,
                       verified |-> verified]
    <3>2. row \in EmailRow /\ row.here /\ row.address = FirstAddress
      BY DEF EmailRow
    <3> QED
      BY <2>1, <2>2, <3>1, <3>2 DEF Migrated
  <2> QED
    BY <2>3, <2>4 DEF AccountInit
<1>2. AccountTypeOK
  <2>1. /\ job \in [Jobs -> {"idle"}]
        /\ target \in [Jobs -> Rows \cup {NoTarget}]
        /\ brings \in [Jobs -> Addresses] /\ link \in [Jobs -> Links \cup {NoLink}]
        /\ cred \in [Jobs -> SUBSET Passwords]
    BY DEF AccountInit
  <2>2. age \in [Links -> 0..LinkLife] /\ usedMark \in [Links -> 0..LinkLife]
    BY DEF AccountInit
  <2>3. job \in [Jobs -> {"idle", "free", "deletable", "eligible", "unset", "set", "read",
                          "verified", "primary", "none", "known", "unused", "found",
                          "written"}]
    BY DEF AccountInit
  <2>4. /\ exists \in BOOLEAN /\ settled \in BOOLEAN /\ overlapped \subseteq Jobs
        /\ mailed \subseteq Rows \X Addresses /\ clicked \subseteq Rows
        /\ password \subseteq Passwords /\ sentLinks \subseteq Links /\ spent \subseteq Links
    BY DEF AccountInit
  <2> QED
    BY <1>1, <2>1, <2>2, <2>3, <2>4 DEF AccountTypeOK
<1>3. TargetsSound /\ LinksSound
  BY DEF AccountInit, TargetsSound, LinksSound, AboutRow
<1>4. MailedSound
  BY <1>1 DEF MailedSound
<1>5. TokenProvesItsRow
  BY DEF AccountInit, TokenProvesItsRow
<1>6. ProvenSound
  BY <1>1 DEF AccountInit, ProvenSound, Choosing, Proven
<1>7. PrimarySound /\ OverlapSound
  BY DEF AccountInit, PrimarySound, OverlapSound, Changing
<1> QED
  BY <1>2, <1>3, <1>4, <1>5, <1>6, <1>7 DEF AccountInv
-----------------------------------------------------------------------------
(***************************************************************************)
(* What most steps leave alone.                                            *)
(***************************************************************************)

\* The targets and links of the requests that go on are the ones they had.
LEMMA JobsKept ==
  ASSUME AccountInv, UNCHANGED <<age, sentLinks, usedMark, spent>>,
         \A i \in Jobs : job'[i] \in AboutRow =>
           target'[i] \in Rows \/ (job[i] \in AboutRow /\ target'[i] = target[i]),
         \A i \in Jobs : job'[i] \in {"unused", "found", "written"} =>
           job[i] \in {"unused", "found", "written"} /\ link'[i] = link[i]
  PROVE  TargetsSound' /\ LinksSound'
BY DEF AccountInv, TargetsSound, LinksSound

\* Mailed tokens stay theirs while addresses, mail and clicks do not change.
LEMMA RowsKept ==
  ASSUME AccountInv, UNCHANGED <<emails, mailed, clicked>>
  PROVE  MailedSound' /\ TokenProvesItsRow'
BY DEF AccountInv, MailedSound, TokenProvesItsRow

\* Changes that overlapped are in progress.
LEMMA OverlapKept ==
  ASSUME AccountInv, UNCHANGED overlapped, \A i \in Jobs : Changing(i) => Changing(i)'
  PROVE  OverlapSound'
BY DEF AccountInv, OverlapSound

\* What was proven stays proven.
LEMMA ProvenKept ==
  ASSUME AccountInv, mailed \subseteq mailed', clicked \subseteq clicked',
         Reads(email') = Reads(email) \/ Reads(email') \in Proven,
         \A i \in Jobs : job'[i] \in Choosing =>
           brings'[i] \in Proven \/ (job[i] \in Choosing /\ brings'[i] = brings[i])
  PROVE  ProvenSound'
<1>1. Proven \subseteq Proven'
  BY DEF Proven
<1>2. Reads(email') \in Proven
  BY DEF AccountInv, ProvenSound
<1>3. \A i \in Jobs : job'[i] \in Choosing => brings'[i] \in Proven
  BY DEF AccountInv, ProvenSound
<1> QED
  BY <1>1, <1>2, <1>3 DEF ProvenSound, Reads

\* The primary address and whatever changes it stay what they are.
LEMMA PrimaryKeptSound ==
  ASSUME AccountInv, UNCHANGED <<email, exists, overlapped>>, settled' => settled,
         \A r \in Rows :
           /\ emails'[r].primary <=> emails[r].primary
           /\ emails[r].here => /\ emails'[r].here /\ emails'[r].address = emails[r].address
                                /\ emails[r].verified => emails'[r].verified,
         \A i \in Jobs : Changing(i)' => Changing(i),
         \A i \in Jobs : Changing(i) =>
           job'[i] = job[i] /\ target'[i] = target[i] /\ brings'[i] = brings[i]
  PROVE  PrimarySound'
<1> SUFFICES ASSUME exists'
             PROVE  /\ \A j \in Jobs : Changing(j)' /\ j \notin overlapped' =>
                         OnlyOne(j)' /\ ChangeSound(j)'
                    /\ settled' =>
                         /\ \A j \in Jobs : Changing(j)' => j \notin overlapped'
                         /\ (\A j \in Jobs : ~HalfWay(j)') => \E r \in Rows : PrimaryIs(r)'
  BY DEF PrimarySound
<1>1. /\ \A j \in Jobs : Changing(j) /\ j \notin overlapped => OnlyOne(j) /\ ChangeSound(j)
      /\ settled => /\ \A j \in Jobs : Changing(j) => j \notin overlapped
                    /\ (\A j \in Jobs : ~HalfWay(j)) => \E r \in Rows : PrimaryIs(r)
  BY DEF AccountInv, PrimarySound
<1>2. \A r : OnlyPrimary(r) => OnlyPrimary(r)'
  BY DEF OnlyPrimary, AccountInv, MailedSound
<1>3. \A r : PrimaryIs(r) => PrimaryIs(r)'
  BY <1>2 DEF PrimaryIs, OnlyPrimary, AccountInv, MailedSound
<1>4. ASSUME NEW j \in Jobs, Changing(j) PROVE TargetGood(j) => TargetGood(j)'
  BY <1>4 DEF TargetGood, AccountInv, TargetsSound, AboutRow, Changing
<1>5. ASSUME NEW j \in Jobs, Changing(j)', j \notin overlapped'
      PROVE  OnlyOne(j)' /\ ChangeSound(j)'
  <2>1. Changing(j) /\ OnlyOne(j) /\ ChangeSound(j)
    BY <1>1, <1>5
  <2>2. target[j] \in Rows
    BY <2>1 DEF AccountInv, TargetsSound, AboutRow, Changing
  <2>3. OnlyOne(j)'
    BY <2>1 DEF OnlyOne
  <2>4. ChangeSound(j)'
    BY <1>2, <1>4, <2>1, <2>2 DEF ChangeSound
  <2> QED
    BY <2>3, <2>4
<1>6. (\A j \in Jobs : ~HalfWay(j)') => \A j \in Jobs : ~HalfWay(j)
  BY DEF HalfWay, Changing
<1>7. settled' /\ (\A j \in Jobs : ~HalfWay(j)') => \E r \in Rows : PrimaryIs(r)'
  BY <1>1, <1>3, <1>6
<1> QED
  BY <1>1, <1>5, <1>7
-----------------------------------------------------------------------------
(***************************************************************************)
(* Requests begin, go on and end.                                          *)
(***************************************************************************)

JobSteps ==
  {"idle", "free", "deletable", "eligible", "unset", "set", "read", "verified", "primary",
   "none", "known", "unused", "found", "written"}

JobsTypeOK ==
  /\ job \in [Jobs -> JobSteps]
  /\ target \in [Jobs -> Rows \cup {NoTarget}]
  /\ brings \in [Jobs -> Addresses]
  /\ link \in [Jobs -> Links \cup {NoLink}]
  /\ cred \in [Jobs -> SUBSET Passwords]
  /\ overlapped \subseteq Jobs

DataTypeOK ==
  /\ emails \in [Rows -> EmailRow]
  /\ email \in Stored
  /\ exists \in BOOLEAN /\ confirmed \in BOOLEAN /\ settled \in BOOLEAN
  /\ mailed \subseteq Rows \X Addresses /\ clicked \subseteq Rows
  /\ password \subseteq Passwords
  /\ age \in [Links -> 0..LinkLife] /\ usedMark \in [Links -> 0..LinkLife]
  /\ sentLinks \subseteq Links /\ spent \subseteq Links

\* The type invariant of the account in its two parts.
LEMMA AccountTypes ==
  AccountTypeOK <=> JobsTypeOK /\ DataTypeOK
BY DEF AccountTypeOK, JobsTypeOK, JobSteps, DataTypeOK

\* The same in the next state.
LEMMA AccountTypesNext ==
  AccountTypeOK' <=> JobsTypeOK' /\ DataTypeOK'
BY DEF AccountTypeOK, JobsTypeOK, JobSteps, DataTypeOK

\* Only request j moves, to step s.
Moves(j, s) ==
  /\ job'[j] = s
  /\ \A i \in Jobs \ {j} :
       job'[i] = job[i] /\ target'[i] = target[i] /\ brings'[i] = brings[i]
       /\ link'[i] = link[i]

\* A request begins where none was, about its row and with its address.
LEMMA EnterMoves ==
  ASSUME AccountInv, NEW j \in Jobs, NEW s \in JobSteps, NEW row \in Rows \cup {NoTarget},
         NEW address \in Addresses, Enter(j, s, row, address), overlapped' \subseteq Jobs
  PROVE  /\ JobsTypeOK' /\ Moves(j, s) /\ job[j] = "idle"
         /\ target'[j] = row /\ brings'[j] = address
<1>1. JobsTypeOK
  BY AccountTypes DEF AccountInv
<1> QED
  BY <1>1 DEF JobsTypeOK, Enter, Moves

LEMMA BeginMoves ==
  ASSUME AccountInv, NEW j \in Jobs, NEW s \in JobSteps, NEW row \in Rows \cup {NoTarget},
         NEW address \in Addresses, Begin(j, s, row, address)
  PROVE  /\ JobsTypeOK' /\ Moves(j, s) /\ overlapped' = overlapped /\ job[j] = "idle"
         /\ target'[j] = row /\ brings'[j] = address
<1>1. Enter(j, s, row, address) /\ overlapped' = overlapped
  BY DEF Begin
<1>2. overlapped \subseteq Jobs
  BY DEF AccountInv, AccountTypeOK
<1> QED
  BY <1>1, <1>2, EnterMoves

LEMMA GoMoves ==
  ASSUME AccountInv, NEW j \in Jobs, NEW from, NEW to \in JobSteps, Go(j, from, to)
  PROVE  /\ JobsTypeOK' /\ Moves(j, to) /\ overlapped' = overlapped /\ job[j] = from
         /\ target'[j] = target[j] /\ brings'[j] = brings[j] /\ link'[j] = link[j]
<1>1. JobsTypeOK
  BY AccountTypes DEF AccountInv
<1> QED
  BY <1>1 DEF JobsTypeOK, Go, Moves

LEMMA EndMoves ==
  ASSUME AccountInv, NEW j \in Jobs, NEW from, End(j, from)
  PROVE  /\ JobsTypeOK' /\ Moves(j, "idle") /\ job[j] = from
         /\ overlapped' = overlapped \ {j}
         /\ ~Changing(j) => overlapped' = overlapped
<1>1. JobsTypeOK
  BY AccountTypes DEF AccountInv
<1>2. "idle" \in JobSteps
  BY DEF JobSteps
<1> QED
  BY <1>1, <1>2, AccountAssumption DEF JobsTypeOK, End, Moves, AccountInv, OverlapSound

\* A request that changes no address moves among such steps.
LEMMA QuietJobStep ==
  ASSUME AccountInv, JobsTypeOK', DataTypeOK', NEW j \in Jobs, NEW s, Moves(j, s),
         ~Changing(j), s \notin {"deletable", "eligible", "unset", "set", "read"},
         s \in AboutRow => target'[j] \in Rows,
         s \notin {"unused", "found", "written"},
         UNCHANGED <<email, exists, overlapped, passwordVars>>, settled' => settled,
         MailedSound', TokenProvesItsRow', mailed \subseteq mailed', clicked \subseteq clicked',
         \A r \in Rows :
           /\ emails'[r].primary <=> emails[r].primary
           /\ emails[r].here => /\ emails'[r].here /\ emails'[r].address = emails[r].address
                                /\ emails[r].verified => emails'[r].verified
  PROVE  AccountInv'
<1>1. TargetsSound' /\ LinksSound'
  <2>1. UNCHANGED <<age, sentLinks, usedMark, spent>>
    BY DEF passwordVars
  <2>2. \A i \in Jobs : job'[i] \in AboutRow =>
          target'[i] \in Rows \/ (job[i] \in AboutRow /\ target'[i] = target[i])
    <3>1. \A i \in Jobs \ {j} : job'[i] = job[i] /\ target'[i] = target[i]
      BY DEF Moves
    <3>2. job'[j] = s
      BY DEF Moves
    <3> QED
      BY <3>1, <3>2
  <2>3. \A i \in Jobs : job'[i] \in {"unused", "found", "written"} =>
          job[i] \in {"unused", "found", "written"} /\ link'[i] = link[i]
    BY DEF Moves
  <2> QED
    BY <2>1, <2>2, <2>3, JobsKept
<1>2. \A i \in Jobs : Changing(i)' => Changing(i)
  BY DEF Moves, Changing
<1>3. \A i \in Jobs : Changing(i) =>
        job'[i] = job[i] /\ target'[i] = target[i] /\ brings'[i] = brings[i]
  BY DEF Moves
<1>4. PrimarySound'
  BY <1>2, <1>3, PrimaryKeptSound
<1>5. ProvenSound'
  <2>1. \A i \in Jobs : job'[i] \in Choosing => Changing(i)'
    BY DEF Choosing, Changing
  <2>2. \A i \in Jobs : job'[i] \in Choosing => job[i] \in Choosing /\ brings'[i] = brings[i]
    BY <1>2, <1>3, <2>1
  <2> QED
    BY <2>2, ProvenKept
<1>6. OverlapSound'
  BY <1>3, OverlapKept DEF Changing
<1> QED
  BY <1>1, <1>4, <1>5, <1>6, AccountTypesNext DEF AccountInv
-----------------------------------------------------------------------------
(***************************************************************************)
(* Steps that leave the primary address alone.                             *)
(***************************************************************************)

LEMMA LookAddressStep ==
  ASSUME AccountInv, NEW j \in Jobs, NEW row \in Rows, NEW address \in Addresses,
         LookAddress(j, row, address)
  PROVE  AccountInv'
<1>1. Begin(j, "free", row, address) /\ UNCHANGED <<emailVars, passwordVars>>
  BY DEF LookAddress
<1>2. "free" \in JobSteps
  BY DEF JobSteps
<1>3. /\ JobsTypeOK' /\ Moves(j, "free") /\ overlapped' = overlapped /\ job[j] = "idle"
      /\ target'[j] = row
  BY <1>1, <1>2, BeginMoves
<1>4. DataTypeOK'
  BY <1>1, AccountTypes DEF AccountInv, DataTypeOK, emailVars, passwordVars
<1>5. MailedSound' /\ TokenProvesItsRow'
  BY <1>1, RowsKept DEF emailVars
<1> QED
  BY <1>1, <1>3, <1>4, <1>5, QuietJobStep DEF Changing, emailVars

LEMMA InsertEmailStep ==
  ASSUME AccountInv, NEW j \in Jobs, InsertEmail(j)
  PROVE  AccountInv'
<1> DEFINE row == target[j]
<1>1. End(j, "free") /\ UNCHANGED <<email, exists, confirmed, clicked, settled, passwordVars>>
  BY DEF InsertEmail
<1>2. JobsTypeOK' /\ Moves(j, "idle") /\ overlapped' = overlapped /\ job[j] = "free"
  BY <1>1, EndMoves DEF Changing
<1>3. row \in Rows /\ brings[j] \in Addresses /\ DataTypeOK /\ New(row)
  BY <1>2, AccountTypes DEF AccountInv, TargetsSound, AboutRow, JobsTypeOK, InsertEmail
<1>4. ~emails[row].here /\ ~emails[row].primary
  BY <1>3 DEF New, AccountInv, MailedSound
<1>5. /\ emails' = [emails EXCEPT ![row] =
           [here |-> TRUE, address |-> brings[j], primary |-> FALSE, verified |-> FALSE]]
      /\ mailed' = mailed \cup {<<row, brings[j]>>}
  BY DEF InsertEmail, Token
<1>6. \A r \in Rows :
        /\ r # row => emails'[r] = emails[r]
        /\ emails'[row].here /\ ~emails'[row].primary /\ ~emails'[row].verified
        /\ emails'[row].address = brings[j]
  BY <1>3, <1>5 DEF DataTypeOK
<1>7. [here |-> TRUE, address |-> brings[j], primary |-> FALSE, verified |-> FALSE]
        \in EmailRow
  BY <1>3 DEF EmailRow
<1>8. DataTypeOK'
  BY <1>1, <1>3, <1>5, <1>7 DEF DataTypeOK, passwordVars
<1>9. MailedSound'
  <2>1. \E t \in mailed' : t[1] = row /\ t[2] = emails'[row].address
    <3>1. <<row, brings[j]>> \in mailed'
      BY <1>5
    <3>2. <<row, brings[j]>>[1] = row /\ <<row, brings[j]>>[2] = emails'[row].address
      BY <1>3, <1>6
    <3> QED
      BY <3>1, <3>2
  <2>2. mailed \subseteq mailed'
    BY <1>5
  <2>3. ASSUME NEW r \in Rows, emails'[r].here
        PROVE  \/ r = First /\ emails'[r].address = FirstAddress
               \/ \E t \in mailed' : t[1] = r /\ t[2] = emails'[r].address
    <3>1. CASE r = row
      BY <2>1, <3>1
    <3>2. CASE r # row
      BY <1>6, <2>2, <2>3, <3>2 DEF AccountInv, MailedSound
    <3> QED
      BY <3>1, <3>2
  <2>4. \A r \in Rows : emails'[r].primary => emails'[r].here
    BY <1>3, <1>6 DEF AccountInv, MailedSound
  <2> QED
    BY <2>3, <2>4 DEF MailedSound
<1>10. TokenProvesItsRow'
  BY <1>1, <1>6 DEF AccountInv, TokenProvesItsRow
<1>11. \A r \in Rows :
           /\ emails'[r].primary <=> emails[r].primary
           /\ emails[r].here => /\ emails'[r].here /\ emails'[r].address = emails[r].address
                                /\ emails[r].verified => emails'[r].verified
  BY <1>4, <1>6
<1> QED
  BY <1>1, <1>2, <1>5, <1>8, <1>9, <1>10, <1>11, QuietJobStep DEF Changing, AboutRow

LEMMA VerifyEmailStep ==
  ASSUME AccountInv, NEW j \in Jobs, NEW t \in Rows \X Addresses, VerifyEmail(j, t)
  PROVE  AccountInv'
<1>1. /\ Begin(j, "verified", t[1], t[2])
      /\ UNCHANGED <<email, exists, confirmed, mailed, settled, passwordVars>>
      /\ clicked' = clicked \cup {t[1]}
  BY DEF VerifyEmail
<1>2. t[1] \in Rows /\ t[2] \in Addresses /\ "verified" \in JobSteps
  BY DEF JobSteps
<1>3. /\ JobsTypeOK' /\ Moves(j, "verified") /\ overlapped' = overlapped /\ job[j] = "idle"
      /\ target'[j] = t[1]
  BY <1>1, <1>2, BeginMoves
<1>4. DataTypeOK
  BY AccountTypes DEF AccountInv
<1>5. \A r \in Rows :
        /\ emails'[r] \in EmailRow
        /\ emails'[r].primary <=> emails[r].primary
        /\ emails'[r].here <=> emails[r].here
        /\ emails'[r].address = emails[r].address
        /\ emails[r].verified => emails'[r].verified
        /\ emails'[r].verified => emails[r].verified \/ r = t[1]
  <2> SUFFICES ASSUME NEW r \in Rows
               PROVE  /\ emails'[r] \in EmailRow
                      /\ emails'[r].primary <=> emails[r].primary
                      /\ emails'[r].here <=> emails[r].here
                      /\ emails'[r].address = emails[r].address
                      /\ emails[r].verified => emails'[r].verified
                      /\ emails'[r].verified => emails[r].verified \/ r = t[1]
    OBVIOUS
  <2>1. emails[r] \in EmailRow
    BY <1>4 DEF DataTypeOK
  <2>2. CASE r \in EmailIdClause(t)
    <3>1. emails'[r] = [here |-> TRUE, address |-> emails[r].address,
                        primary |-> emails[r].primary, verified |-> TRUE]
      BY <2>2 DEF VerifyEmail
    <3>2. r = t[1] /\ emails[r].here
      BY <2>2 DEF EmailIdClause
    <3> QED
      BY <2>1, <3>1, <3>2 DEF EmailRow
  <2>3. CASE r \notin EmailIdClause(t)
    BY <2>1, <2>3 DEF VerifyEmail
  <2> QED
    BY <2>2, <2>3
<1>6. emails' \in [Rows -> EmailRow]
  <2>1. emails' = [r \in Rows |-> emails'[r]]
    BY DEF VerifyEmail
  <2> QED
    BY <1>5, <2>1
<1>7. DataTypeOK'
  BY <1>1, <1>2, <1>4, <1>6 DEF DataTypeOK, passwordVars
<1>8. MailedSound' /\ TokenProvesItsRow'
  BY <1>1, <1>2, <1>5 DEF AccountInv, MailedSound, TokenProvesItsRow
<1>9. ~Changing(j)
  BY <1>3 DEF Changing
<1> QED
  BY <1>1, <1>2, <1>3, <1>5, <1>7, <1>8, <1>9, QuietJobStep

LEMMA ResendTokenStep ==
  ASSUME AccountInv, NEW row \in Rows, ResendToken(row)
  PROVE  AccountInv'
<1>1. /\ mailed' = mailed \cup {<<row, emails[row].address>>}
      /\ UNCHANGED <<job, target, brings, link, cred, overlapped, emails, email, exists,
                     confirmed, clicked, settled, password, age, sentLinks, usedMark, spent>>
  BY DEF ResendToken, Token, jobVars, passwordVars
<1>2. DataTypeOK /\ JobsTypeOK
  BY AccountTypes DEF AccountInv
<1>3. emails[row].address \in Addresses
  BY <1>2 DEF DataTypeOK, EmailRow
<1>4. DataTypeOK' /\ JobsTypeOK'
  BY <1>1, <1>2, <1>3 DEF DataTypeOK, JobsTypeOK
<1>5. MailedSound' /\ TokenProvesItsRow'
  BY <1>1 DEF AccountInv, MailedSound, TokenProvesItsRow
<1>6. TargetsSound' /\ LinksSound'
  BY <1>1 DEF AccountInv, TargetsSound, LinksSound
<1>7. PrimarySound'
  BY <1>1, PrimaryKeptSound DEF Changing
<1>8. ProvenSound' /\ OverlapSound'
  BY <1>1, ProvenKept, OverlapKept DEF Choosing, Changing
<1> QED
  BY <1>4, <1>5, <1>6, <1>7, <1>8, AccountTypesNext DEF AccountInv

LEMMA LookPrimaryStep ==
  ASSUME AccountInv, NEW j \in Jobs, LookPrimary(j)
  PROVE  AccountInv'
<1>1. /\ job[j] = "verified" /\ UNCHANGED <<emailVars, passwordVars>>
      /\ Go(j, "verified", "primary") \/ End(j, "verified")
  BY DEF LookPrimary
<1>2. "primary" \in JobSteps /\ target[j] \in Rows
  BY <1>1 DEF JobSteps, AccountInv, TargetsSound, AboutRow
<1>3. DataTypeOK'
  BY <1>1, AccountTypes DEF AccountInv, DataTypeOK, emailVars, passwordVars
<1>4. MailedSound' /\ TokenProvesItsRow'
  BY <1>1, RowsKept DEF emailVars
<1>5. ~Changing(j)
  BY <1>1 DEF Changing
<1>6. CASE Go(j, "verified", "primary")
  <2>1. JobsTypeOK' /\ Moves(j, "primary") /\ overlapped' = overlapped /\ target'[j] \in Rows
    BY <1>2, <1>6, GoMoves
  <2> QED
    BY <1>1, <1>3, <1>4, <1>5, <2>1, QuietJobStep DEF emailVars
<1>7. CASE End(j, "verified")
  <2>1. JobsTypeOK' /\ Moves(j, "idle") /\ overlapped' = overlapped
    BY <1>5, <1>7, EndMoves
  <2> QED
    BY <1>1, <1>3, <1>4, <1>5, <2>1, QuietJobStep DEF emailVars, AboutRow
<1> QED
  BY <1>1, <1>6, <1>7

LEMMA ConfirmUserStep ==
  ASSUME AccountInv, NEW j \in Jobs, ConfirmUser(j)
  PROVE  AccountInv'
<1>1. /\ End(j, "primary") /\ confirmed' = exists
      /\ UNCHANGED <<emails, email, exists, mailed, clicked, settled, passwordVars>>
  BY DEF ConfirmUser
<1>2. JobsTypeOK' /\ Moves(j, "idle") /\ overlapped' = overlapped /\ job[j] = "primary"
  BY <1>1, EndMoves DEF Changing
<1>3. DataTypeOK'
  BY <1>1, AccountTypes DEF AccountInv, DataTypeOK, passwordVars
<1>4. MailedSound' /\ TokenProvesItsRow'
  BY <1>1, RowsKept
<1>5. ~Changing(j)
  BY <1>2 DEF Changing
<1> QED
  BY <1>1, <1>2, <1>3, <1>4, <1>5, QuietJobStep DEF AboutRow
-----------------------------------------------------------------------------
(***************************************************************************)
(* Steps of the password: no address is changed.                           *)
(***************************************************************************)

\* No request about an address moves.
LEMMA PasswordStep ==
  ASSUME AccountInv, JobsTypeOK', DataTypeOK', LinksSound', UNCHANGED <<emailVars, overlapped>>,
         \A i \in Jobs : job[i] \in AboutRow \/ job'[i] \in AboutRow =>
           job'[i] = job[i] /\ target'[i] = target[i] /\ brings'[i] = brings[i]
  PROVE  AccountInv'
<1>1. UNCHANGED <<emails, email, exists, confirmed, mailed, clicked, settled>>
  BY DEF emailVars
<1>2. \A i \in Jobs : Changing(i) => job[i] \in AboutRow
  BY DEF Changing, AboutRow
<1>3. \A i \in Jobs : Changing(i)' => job'[i] \in AboutRow
  BY DEF Changing, AboutRow
<1>4. \A i \in Jobs : Changing(i)' => Changing(i)
  BY <1>3 DEF Changing
<1>5. PrimarySound'
  BY <1>1, <1>2, <1>4, PrimaryKeptSound
<1>6. TargetsSound'
  BY DEF AccountInv, TargetsSound
<1>7. MailedSound' /\ TokenProvesItsRow'
  BY <1>1, RowsKept
<1>8. ProvenSound' /\ OverlapSound'
  BY <1>1, <1>2, ProvenKept, OverlapKept DEF Choosing, AboutRow, Changing
<1> QED
  BY <1>5, <1>6, <1>7, <1>8, AccountTypesNext DEF AccountInv

LEMMA NoPasswordStep ==
  ASSUME AccountInv, NEW j \in Jobs,
         LookNoPassword(j) \/ \E c \in Passwords : InsertPassword(j, c)
  PROVE  AccountInv'
<1>1. DataTypeOK
  BY AccountTypes DEF AccountInv
<1>2. UNCHANGED <<emailVars, age, sentLinks, usedMark, spent>>
  BY DEF LookNoPassword, InsertPassword, passwordVars
<1>3. password' \subseteq Passwords
  BY <1>1 DEF LookNoPassword, InsertPassword, DataTypeOK, passwordVars
<1>4. DataTypeOK'
  BY <1>1, <1>2, <1>3 DEF DataTypeOK, emailVars
<1>5. /\ JobsTypeOK' /\ overlapped' = overlapped
      /\ \E s \in {"none", "idle"} : Moves(j, s) /\ job[j] \in {"none", "idle"}
  <2>1. CASE LookNoPassword(j)
    <3>1. Begin(j, "none", NoTarget, FirstAddress)
      BY <2>1 DEF LookNoPassword
    <3>2. "none" \in JobSteps /\ NoTarget \in Rows \cup {NoTarget}
      BY DEF JobSteps
    <3> QED
      BY <3>1, <3>2, BeginMoves, AccountAssumption
  <2>2. CASE \E c \in Passwords : InsertPassword(j, c)
    <3>1. End(j, "none")
      BY <2>2 DEF InsertPassword
    <3> QED
      BY <3>1, EndMoves DEF Changing
  <2> QED
    BY <2>1, <2>2
<1>6. PICK s \in {"none", "idle"} : Moves(j, s) /\ job[j] \in {"none", "idle"}
  BY <1>5
<1>7. TargetsSound' /\ LinksSound'
  BY <1>2, <1>6, JobsKept DEF Moves, AboutRow
<1>8. \A i \in Jobs : job[i] \in AboutRow \/ job'[i] \in AboutRow =>
           job'[i] = job[i] /\ target'[i] = target[i] /\ brings'[i] = brings[i]
  BY <1>6 DEF Moves, AboutRow
<1> QED
  BY <1>2, <1>4, <1>5, <1>7, <1>8, PasswordStep

LEMMA ForgotStep ==
  ASSUME AccountInv, NEW l \in Links, Forgot(l)
  PROVE  AccountInv'
<1>1. /\ UNCHANGED <<job, target, brings, link, cred, overlapped, emailVars, password, age,
                     usedMark, spent>>
      /\ sentLinks' = sentLinks \cup {l}
  BY DEF Forgot, jobVars
<1>2. JobsTypeOK /\ DataTypeOK
  BY AccountTypes DEF AccountInv
<1>3. JobsTypeOK' /\ DataTypeOK'
  BY <1>1, <1>2 DEF JobsTypeOK, DataTypeOK, emailVars
<1>4. LinksSound'
  BY <1>1 DEF AccountInv, LinksSound
<1> QED
  BY <1>1, <1>3, <1>4, PasswordStep

\* A reset is taken a step further.
LEMMA ResetStep ==
  ASSUME AccountInv, NEW j \in Jobs,
         (\E l \in Links : LookLink(j, l)) \/ LookPassword(j) \/ WritePassword(j)
  PROVE  AccountInv'
<1>1. JobsTypeOK /\ DataTypeOK
  BY AccountTypes DEF AccountInv
<1>2. UNCHANGED <<emailVars, age, sentLinks, usedMark, spent>>
  BY DEF LookLink, LookPassword, WritePassword, passwordVars
<1>3. password' \subseteq Passwords
  BY <1>1 DEF LookLink, LookPassword, WritePassword, passwordVars, DataTypeOK
<1>4. DataTypeOK'
  BY <1>1, <1>2, <1>3 DEF DataTypeOK, emailVars
<1>5. /\ JobsTypeOK' /\ job[j] \in {"idle", "unused", "found"}
      /\ job'[j] \in {"unused", "found", "written"}
      /\ \A i \in Jobs \ {j} : job'[i] = job[i] /\ link'[i] = link[i]
      /\ UNCHANGED <<target, brings, overlapped>>
      /\ link'[j] \in sentLinks
  <2>1. CASE \E l \in Links : LookLink(j, l)
    BY <1>1, <2>1 DEF LookLink, Valid, JobsTypeOK, JobSteps
  <2>2. CASE LookPassword(j)
    <3>1. PICK c \in SUBSET password : cred' = [cred EXCEPT ![j] = c]
      BY <2>2 DEF LookPassword
    <3>2. cred' \in [Jobs -> SUBSET Passwords]
      BY <1>1, <3>1 DEF JobsTypeOK, DataTypeOK
    <3> QED
      BY <1>1, <2>2, <3>2 DEF LookPassword, JobsTypeOK, JobSteps, AccountInv, LinksSound
  <2>3. CASE WritePassword(j)
    BY <1>1, <2>3 DEF WritePassword, Go, JobsTypeOK, JobSteps, AccountInv, LinksSound
  <2> QED
    BY <2>1, <2>2, <2>3
<1>6. LinksSound'
  BY <1>2, <1>5 DEF AccountInv, LinksSound
<1>7. \A i \in Jobs : job[i] \in AboutRow \/ job'[i] \in AboutRow =>
           job'[i] = job[i] /\ target'[i] = target[i] /\ brings'[i] = brings[i]
  BY <1>5 DEF AboutRow
<1> QED
  BY <1>2, <1>4, <1>5, <1>6, <1>7, PasswordStep

LEMMA MarkUsedStep ==
  ASSUME AccountInv, NEW j \in Jobs, MarkUsed(j)
  PROVE  AccountInv'
<1> DEFINE l == link[j]
<1>1. /\ End(j, "written") /\ UNCHANGED <<emailVars, password, age, sentLinks>>
      /\ usedMark' = [usedMark EXCEPT ![l] = LinkLife] /\ spent' = spent \cup {l}
  BY DEF MarkUsed, UsedMarkTtl
<1>2. JobsTypeOK' /\ Moves(j, "idle") /\ overlapped' = overlapped /\ job[j] = "written"
  BY <1>1, EndMoves DEF Changing
<1>3. DataTypeOK /\ l \in sentLinks /\ l \in Links /\ LinkLife \in Nat
  BY <1>2, AccountTypes, AccountAssumption DEF AccountInv, LinksSound, DataTypeOK
<1>4. DataTypeOK'
  <2>1. LinkLife \in 0..LinkLife
    BY <1>3
  <2> QED
    BY <1>1, <1>3, <2>1 DEF DataTypeOK, emailVars
<1>5. LinksSound'
  <2>1. \A i \in Jobs : job'[i] \in {"unused", "found", "written"} => link'[i] \in sentLinks'
    BY <1>1, <1>2 DEF AccountInv, LinksSound, Moves
  <2>2. \A k \in spent' : age'[k] + usedMark'[k] >= LinkLife
    BY <1>1, <1>3 DEF AccountInv, LinksSound, DataTypeOK
  <2> QED
    BY <1>1, <1>3, <2>1, <2>2 DEF AccountInv, LinksSound
<1>6. \A i \in Jobs : job[i] \in AboutRow \/ job'[i] \in AboutRow =>
           job'[i] = job[i] /\ target'[i] = target[i] /\ brings'[i] = brings[i]
  BY <1>2 DEF Moves, AboutRow
<1> QED
  BY <1>1, <1>2, <1>4, <1>5, <1>6, PasswordStep

LEMMA HourStep ==
  ASSUME AccountInv, Hour
  PROVE  AccountInv'
<1>1. /\ UNCHANGED <<job, target, brings, link, cred, overlapped, emailVars, password,
                     sentLinks, spent>>
      /\ age' = [l \in Links |-> IF l \in sentLinks /\ age[l] < LinkLife THEN age[l] + 1
                                 ELSE age[l]]
      /\ usedMark' = [l \in Links |-> IF usedMark[l] = 0 THEN 0 ELSE usedMark[l] - 1]
  BY DEF Hour, jobVars
<1>2. JobsTypeOK /\ DataTypeOK /\ LinkLife \in Nat
  BY AccountTypes, AccountAssumption DEF AccountInv
<1>3. \A l \in Links : /\ age'[l] \in 0..LinkLife /\ usedMark'[l] \in 0..LinkLife
                       /\ l \in sentLinks /\ age[l] + usedMark[l] >= LinkLife =>
                            age'[l] + usedMark'[l] >= LinkLife
  BY <1>1, <1>2 DEF DataTypeOK
<1>4. JobsTypeOK' /\ DataTypeOK'
  BY <1>1, <1>2, <1>3 DEF JobsTypeOK, DataTypeOK, emailVars
<1>5. LinksSound'
  BY <1>1, <1>2, <1>3 DEF AccountInv, LinksSound, DataTypeOK
<1> QED
  BY <1>1, <1>4, <1>5, PasswordStep
-----------------------------------------------------------------------------
(***************************************************************************)
(* Steps that change, or look at, the primary address.                     *)
(***************************************************************************)

\* A change that is beside no other is the only one, and does what it says.
LEMMA OneChange ==
  ASSUME AccountInv, exists, NEW j \in Jobs, Changing(j), j \notin overlapped
  PROVE  /\ OnlyOne(j) /\ ChangeSound(j)
         /\ settled /\ ~HalfWay(j) => \E r \in Rows : PrimaryIs(r)
<1>1. OnlyOne(j) /\ ChangeSound(j)
  BY DEF AccountInv, PrimarySound
<1>2. ~HalfWay(j) => \A i \in Jobs : ~HalfWay(i)
  BY <1>1 DEF OnlyOne, HalfWay, Changing
<1> QED
  BY <1>1, <1>2 DEF AccountInv, PrimarySound

\* The targets and links of a change that moves and of the other requests.
LEMMA ChangeJobs ==
  ASSUME AccountInv, UNCHANGED passwordVars, NEW j \in Jobs, NEW s, Moves(j, s),
         s \notin {"unused", "found", "written"}, s \in AboutRow => target'[j] \in Rows
  PROVE  TargetsSound' /\ LinksSound'
<1>1. UNCHANGED <<age, sentLinks, usedMark, spent>>
  BY DEF passwordVars
<1>2. \A i \in Jobs : job'[i] \in AboutRow =>
        target'[i] \in Rows \/ (job[i] \in AboutRow /\ target'[i] = target[i])
  BY DEF Moves
<1>3. \A i \in Jobs : job'[i] \in {"unused", "found", "written"} =>
        job[i] \in {"unused", "found", "written"} /\ link'[i] = link[i]
  BY DEF Moves
<1> QED
  BY <1>1, <1>2, <1>3, JobsKept

\* A change goes on or ends: when it is beside no other it has to keep to what
\* it says, when it is beside others nothing is settled.
LEMMA ChangeNext ==
  ASSUME AccountInv, JobsTypeOK', DataTypeOK', MailedSound', TokenProvesItsRow', ProvenSound',
         UNCHANGED <<exists, passwordVars>>, NEW j \in Jobs, NEW s, Moves(j, s),
         Changing(j), overlapped' \subseteq overlapped, overlapped \ {j} \subseteq overlapped',
         Changing(j)' \/ j \notin overlapped', s \notin {"unused", "found", "written"},
         s \in AboutRow => target'[j] \in Rows,
         Changing(j)' => (j \in overlapped' <=> j \in overlapped),
         j \in overlapped => (settled' => settled),
         exists /\ j \notin overlapped =>
           /\ Changing(j)' => ChangeSound(j)'
           /\ settled' /\ ~HalfWay(j)' => \E r \in Rows : PrimaryIs(r)'
  PROVE  AccountInv'
<1>1. TargetsSound' /\ LinksSound'
  BY ChangeJobs
<1>2. \A i \in Jobs \ {j} :
        /\ Changing(i)' <=> Changing(i)
        /\ i \in overlapped' <=> i \in overlapped
  BY DEF Moves, Changing
<1>3. PrimarySound'
  <2> SUFFICES ASSUME exists'
               PROVE  /\ \A i \in Jobs : Changing(i)' /\ i \notin overlapped' =>
                           OnlyOne(i)' /\ ChangeSound(i)'
                      /\ settled' =>
                           /\ \A i \in Jobs : Changing(i)' => i \notin overlapped'
                           /\ (\A i \in Jobs : ~HalfWay(i)') => \E r \in Rows : PrimaryIs(r)'
    BY DEF PrimarySound
  <2>1. CASE j \notin overlapped
    <3>1. \A i \in Jobs : Changing(i)' => i = j /\ j \notin overlapped'
      BY <1>2, <2>1, OneChange DEF OnlyOne
    <3>2. Changing(j)' => OnlyOne(j)' /\ ChangeSound(j)'
      BY <2>1, <3>1 DEF OnlyOne
    <3> QED
      BY <2>1, <3>1, <3>2
  <2>2. CASE j \in overlapped
    <3>1. \A i \in Jobs : Changing(i) => i \in overlapped
      BY <2>2 DEF AccountInv, PrimarySound, OnlyOne
    <3>2. \A i \in Jobs : Changing(i)' => i \in overlapped'
      BY <1>2, <2>2, <3>1
    <3>3. ~settled'
      BY <2>2 DEF AccountInv, PrimarySound
    <3> QED
      BY <3>2, <3>3
  <2> QED
    BY <2>1, <2>2
<1>4. OverlapSound'
  BY <1>2 DEF AccountInv, OverlapSound
<1> QED
  BY <1>1, <1>3, <1>4, AccountTypesNext DEF AccountInv

\* The look before a change.
LEMMA LookStep ==
  ASSUME AccountInv, NEW j \in Jobs, NEW row \in Rows,
         LookDeletable(j, row) \/ LookVerified(j, row)
  PROVE  AccountInv'
<1> DEFINE others == {i \in Jobs : Changing(i)}
<1>1. PICK s \in {"deletable", "eligible"} :
        /\ BeginChange(j, s, row)
        /\ s = "deletable" => ~emails[row].primary
        /\ s = "eligible" => emails[row].here /\ emails[row].verified
  BY DEF LookDeletable, LookVerified
<1>2. /\ UNCHANGED <<emails, email, exists, confirmed, mailed, clicked, passwordVars>>
      /\ Enter(j, s, row, emails[row].address)
      /\ overlapped' = IF others = {} THEN overlapped ELSE overlapped \cup others \cup {j}
      /\ settled' = (settled /\ others = {})
  BY <1>1 DEF LookDeletable, LookVerified, BeginChange
<1>3. DataTypeOK /\ overlapped \subseteq Jobs
  BY AccountTypes DEF AccountInv, JobsTypeOK
<1>4. emails[row].address \in Addresses /\ s \in JobSteps /\ overlapped' \subseteq Jobs
  BY <1>2, <1>3 DEF DataTypeOK, EmailRow, JobSteps
<1>5. /\ JobsTypeOK' /\ Moves(j, s) /\ job[j] = "idle"
      /\ target'[j] = row /\ brings'[j] = emails[row].address
  BY <1>2, <1>4, EnterMoves
<1>6. DataTypeOK'
  BY <1>2, <1>3 DEF DataTypeOK, passwordVars
<1>7. MailedSound' /\ TokenProvesItsRow'
  BY <1>2, RowsKept
<1>8. TargetsSound' /\ LinksSound'
  BY <1>2, <1>5, ChangeJobs
<1>9. ProvenSound'
  <2>1. emails[row].here /\ emails[row].verified => emails[row].address \in Proven
    BY DEF AccountInv, MailedSound, TokenProvesItsRow, Proven
  <2>2. \A i \in Jobs : job'[i] \in Choosing =>
          brings'[i] \in Proven \/ (job[i] \in Choosing /\ brings'[i] = brings[i])
    BY <1>1, <1>5, <2>1 DEF Moves, Choosing
  <2> QED
    BY <1>2, <2>2, ProvenKept
<1>10. PrimarySound'
  <2> SUFFICES ASSUME exists'
               PROVE  /\ \A i \in Jobs : Changing(i)' /\ i \notin overlapped' =>
                           OnlyOne(i)' /\ ChangeSound(i)'
                      /\ settled' =>
                           /\ \A i \in Jobs : Changing(i)' => i \notin overlapped'
                           /\ (\A i \in Jobs : ~HalfWay(i)') => \E r \in Rows : PrimaryIs(r)'
    BY DEF PrimarySound
  <2>1. \A i \in Jobs \ {j} : Changing(i)' <=> Changing(i)
    BY <1>5 DEF Moves, Changing
  <2>2. CASE others = {}
    <3>1. overlapped' = overlapped /\ (settled' => settled) /\ \A i \in Jobs : ~Changing(i)
      BY <1>2, <2>2
    <3>2. \A i \in Jobs : Changing(i)' => i = j
      BY <2>1, <3>1
    <3>3. job'[j] = s
      BY <1>5 DEF Moves
    <3>4. ChangeSound(j)'
      BY <1>1, <1>2, <1>5, <3>3 DEF ChangeSound, TargetGood
    <3>5. settled' => \E r \in Rows : PrimaryIs(r)'
      <4>1. settled => \E r \in Rows : PrimaryIs(r)
        BY <1>2, <3>1 DEF AccountInv, PrimarySound, HalfWay, Changing
      <4> QED
        BY <1>2, <3>1, <4>1 DEF PrimaryIs, OnlyPrimary
    <3>6. settled' => j \notin overlapped'
      BY <3>1 DEF AccountInv, OverlapSound
    <3> QED
      BY <3>2, <3>4, <3>5, <3>6 DEF OnlyOne
  <2>3. CASE others # {}
    <3>1. \A i \in Jobs : Changing(i)' => i \in overlapped'
      BY <1>2, <2>1, <2>3
    <3>2. ~settled'
      BY <1>2, <2>3
    <3> QED
      BY <3>1, <3>2
  <2> QED
    BY <2>2, <2>3
<1>11. OverlapSound'
  <2>1. Changing(j)' /\ \A i \in Jobs \ {j} : Changing(i)' <=> Changing(i)
    BY <1>5 DEF Moves, Changing
  <2> QED
    BY <1>2, <2>1 DEF AccountInv, OverlapSound
<1> QED
  BY <1>5, <1>6, <1>7, <1>8, <1>9, <1>10, <1>11, AccountTypesNext DEF AccountInv

\* The addresses the other requests bring when one ends.
LEMMA EndBrings ==
  ASSUME AccountInv, NEW j \in Jobs, Moves(j, "idle")
  PROVE  \A i \in Jobs : job'[i] \in Choosing =>
           job[i] \in Choosing /\ brings'[i] = brings[i]
BY DEF Moves, Choosing

LEMMA DeleteEmailStep ==
  ASSUME AccountInv, NEW j \in Jobs, DeleteEmail(j)
  PROVE  AccountInv'
<1> DEFINE row == target[j]
<1>1. /\ End(j, "deletable") /\ emails' = [emails EXCEPT ![row] = NoEmail]
      /\ UNCHANGED <<email, exists, confirmed, mailed, clicked, settled, passwordVars>>
  BY DEF DeleteEmail
<1>2. /\ JobsTypeOK' /\ Moves(j, "idle") /\ job[j] = "deletable"
      /\ overlapped' = overlapped \ {j}
  BY <1>1, EndMoves
<1>3. DataTypeOK /\ row \in Rows
  BY <1>2, AccountTypes DEF AccountInv, TargetsSound, AboutRow
<1>4. NoEmail \in EmailRow /\ ~NoEmail.here /\ ~NoEmail.primary /\ ~NoEmail.verified
  BY AccountAssumption DEF NoEmail, EmailRow
<1>5. DataTypeOK'
  BY <1>1, <1>3, <1>4 DEF DataTypeOK, passwordVars
<1>6. emails'[row] = NoEmail /\ \A r \in Rows \ {row} : emails'[r] = emails[r]
  BY <1>1, <1>3 DEF DataTypeOK
<1>7. MailedSound' /\ TokenProvesItsRow'
  BY <1>1, <1>3, <1>4, <1>6 DEF AccountInv, MailedSound, TokenProvesItsRow
<1>8. Changing(j) /\ ~HalfWay(j) /\ ~Changing(j)'
  BY <1>2 DEF Changing, HalfWay, Moves
<1>9. ASSUME exists, j \notin overlapped, settled' PROVE \E r \in Rows : PrimaryIs(r)'
  <2>1. ChangeSound(j) /\ \E r \in Rows : PrimaryIs(r)
    BY <1>1, <1>8, <1>9, OneChange
  <2>2. PICK r \in Rows : PrimaryIs(r) /\ ~emails[row].primary
    BY <1>2, <2>1 DEF ChangeSound
  <2>3. r # row
    BY <2>2 DEF PrimaryIs, OnlyPrimary
  <2>4. PrimaryIs(r)'
    BY <1>1, <1>4, <1>6, <2>2, <2>3 DEF PrimaryIs, OnlyPrimary
  <2> QED
    BY <2>4
<1>10. ProvenSound'
  BY <1>1, <1>2, EndBrings, ProvenKept
<1> QED
  BY <1>1, <1>2, <1>5, <1>7, <1>8, <1>9, <1>10, ChangeNext DEF AboutRow

\* WithPrimary changes the mark of a row and nothing else.
LEMMA WithPrimaryType ==
  ASSUME DataTypeOK, NEW r \in Rows, NEW p \in BOOLEAN
  PROVE  /\ WithPrimary(r, p) \in EmailRow
         /\ WithPrimary(r, p).here = emails[r].here
         /\ WithPrimary(r, p).address = emails[r].address
         /\ WithPrimary(r, p).primary = p
         /\ WithPrimary(r, p).verified = emails[r].verified
BY DEF DataTypeOK, EmailRow, WithPrimary

LEMMA UnsetPrimaryStep ==
  ASSUME AccountInv, NEW j \in Jobs, UnsetPrimary(j)
  PROVE  AccountInv'
<1>1. /\ Go(j, "eligible", "unset") /\ emails' = [r \in Rows |-> WithPrimary(r, FALSE)]
      /\ UNCHANGED <<email, exists, confirmed, mailed, clicked, settled, passwordVars>>
  BY DEF UnsetPrimary
<1>2. "unset" \in JobSteps
  BY DEF JobSteps
<1>3. /\ JobsTypeOK' /\ Moves(j, "unset") /\ overlapped' = overlapped /\ job[j] = "eligible"
      /\ target'[j] = target[j] /\ brings'[j] = brings[j]
  BY <1>1, <1>2, GoMoves
<1>4. DataTypeOK /\ target[j] \in Rows
  BY <1>3, AccountTypes DEF AccountInv, TargetsSound, AboutRow
<1>5. \A r \in Rows :
        /\ emails'[r] \in EmailRow /\ ~emails'[r].primary
        /\ emails'[r].here = emails[r].here /\ emails'[r].address = emails[r].address
        /\ emails'[r].verified = emails[r].verified
  BY <1>1, <1>4, WithPrimaryType
<1>6. DataTypeOK'
  <2>1. emails' \in [Rows -> EmailRow]
    BY <1>1, <1>4, WithPrimaryType
  <2> QED
    BY <1>1, <1>4, <2>1 DEF DataTypeOK, passwordVars
<1>7. MailedSound' /\ TokenProvesItsRow'
  <2>1. mailed' = mailed /\ clicked' = clicked
    BY <1>1
  <2>2. MailedSound'
    BY <1>5, <2>1 DEF AccountInv, MailedSound
  <2>3. TokenProvesItsRow'
    BY <1>5, <2>1 DEF AccountInv, TokenProvesItsRow
  <2> QED
    BY <2>2, <2>3
<1>8. Changing(j) /\ Changing(j)' /\ HalfWay(j)'
  BY <1>3 DEF Changing, HalfWay, Moves
<1>9. ASSUME exists, j \notin overlapped PROVE ChangeSound(j)'
  <2>1. ChangeSound(j)
    BY <1>8, <1>9, OneChange
  <2>2. TargetGood(j)'
    BY <1>3, <1>4, <1>5, <2>1 DEF ChangeSound, TargetGood
  <2>3. job'[j] = "unset"
    BY <1>3 DEF Moves
  <2> QED
    BY <1>5, <2>2, <2>3 DEF ChangeSound
<1>10. ProvenSound'
  BY <1>1, <1>3, ProvenKept DEF Choosing, Moves
<1> QED
  BY <1>1, <1>3, <1>4, <1>6, <1>7, <1>8, <1>9, <1>10, ChangeNext

LEMMA SetPrimaryStep ==
  ASSUME AccountInv, NEW j \in Jobs, SetPrimary(j)
  PROVE  AccountInv'
<1> DEFINE row == target[j]
<1>1. /\ Go(j, "unset", "set")
      /\ emails' = [emails EXCEPT ![row] = WithPrimary(row, emails[row].here)]
      /\ UNCHANGED <<email, exists, confirmed, mailed, clicked, settled, passwordVars>>
  BY DEF SetPrimary
<1>2. "set" \in JobSteps
  BY DEF JobSteps
<1>3. /\ JobsTypeOK' /\ Moves(j, "set") /\ overlapped' = overlapped /\ job[j] = "unset"
      /\ target'[j] = row /\ brings'[j] = brings[j]
  BY <1>1, <1>2, GoMoves
<1>4. DataTypeOK /\ row \in Rows
  BY <1>3, AccountTypes DEF AccountInv, TargetsSound, AboutRow
<1>5. emails[row].here \in BOOLEAN
  BY <1>4 DEF DataTypeOK, EmailRow
<1>6. /\ emails'[row] = WithPrimary(row, emails[row].here)
      /\ \A r \in Rows \ {row} : emails'[r] = emails[r]
  BY <1>1, <1>4 DEF DataTypeOK
<1>7. /\ emails'[row] \in EmailRow /\ emails'[row].primary = emails[row].here
      /\ emails'[row].here = emails[row].here
      /\ emails'[row].address = emails[row].address
      /\ emails'[row].verified = emails[row].verified
  BY <1>4, <1>5, <1>6, WithPrimaryType
<1>8. DataTypeOK'
  <2>1. emails' \in [Rows -> EmailRow]
    BY <1>1, <1>4, <1>6, <1>7 DEF DataTypeOK
  <2> QED
    BY <1>1, <1>4, <2>1 DEF DataTypeOK, passwordVars
<1>9. MailedSound' /\ TokenProvesItsRow'
  BY <1>1, <1>6, <1>7 DEF AccountInv, MailedSound, TokenProvesItsRow
<1>10. Changing(j) /\ Changing(j)' /\ HalfWay(j)'
  BY <1>3 DEF Changing, HalfWay, Moves
<1>11. ASSUME exists, j \notin overlapped PROVE ChangeSound(j)'
  <2>1. TargetGood(j) /\ \A r \in Rows : ~emails[r].primary
    BY <1>3, <1>10, <1>11, OneChange DEF ChangeSound
  <2>2. TargetGood(j)'
    BY <1>3, <1>4, <1>7, <2>1 DEF TargetGood
  <2>3. OnlyPrimary(row)'
    BY <1>3, <1>4, <1>6, <1>7, <2>1 DEF OnlyPrimary, TargetGood
  <2>4. job'[j] = "set"
    BY <1>3 DEF Moves
  <2> QED
    BY <1>3, <2>2, <2>3, <2>4 DEF ChangeSound
<1>12. ProvenSound'
  BY <1>1, <1>3, ProvenKept DEF Choosing, Moves
<1> QED
  BY <1>1, <1>3, <1>4, <1>8, <1>9, <1>10, <1>11, <1>12, ChangeNext

LEMMA ReadPrimaryStep ==
  ASSUME AccountInv, NEW j \in Jobs, ReadPrimary(j)
  PROVE  AccountInv'
<1>1. /\ job[j] = "set" /\ UNCHANGED <<emailVars, passwordVars>>
      /\ emails[target[j]].here => Go(j, "set", "read")
      /\ ~emails[target[j]].here => End(j, "set")
  BY DEF ReadPrimary
<1>2. "read" \in JobSteps /\ target[j] \in Rows
  BY <1>1 DEF JobSteps, AccountInv, TargetsSound, AboutRow
<1>3. UNCHANGED <<emails, email, exists, confirmed, mailed, clicked, settled>>
  BY <1>1 DEF emailVars
<1>4. DataTypeOK'
  BY <1>1, <1>3, AccountTypes DEF AccountInv, DataTypeOK, passwordVars
<1>5. MailedSound' /\ TokenProvesItsRow'
  BY <1>3, RowsKept
<1>6. Changing(j) /\ (exists /\ j \notin overlapped => OnlyPrimary(target[j]) /\ TargetGood(j))
  BY <1>1, OneChange DEF ChangeSound, Changing
<1>7. CASE emails[target[j]].here
  <2>1. /\ JobsTypeOK' /\ Moves(j, "read") /\ overlapped' = overlapped
        /\ target'[j] = target[j] /\ brings'[j] = brings[j]
    BY <1>1, <1>2, <1>7, GoMoves
  <2>2. exists /\ j \notin overlapped => ChangeSound(j)'
    BY <1>3, <1>6, <2>1 DEF ChangeSound, Moves, OnlyPrimary, TargetGood
  <2>3. Changing(j)' /\ HalfWay(j)'
    BY <2>1 DEF Changing, HalfWay, Moves
  <2>4. ProvenSound'
    BY <1>1, <1>3, <2>1, ProvenKept DEF Choosing, Moves
  <2> QED
    BY <1>1, <1>2, <1>3, <1>4, <1>5, <1>6, <2>1, <2>2, <2>3, <2>4, ChangeNext
<1>8. CASE ~emails[target[j]].here
  <2>1. JobsTypeOK' /\ Moves(j, "idle") /\ overlapped' = overlapped \ {j}
    BY <1>1, <1>8, EndMoves
  <2>2. ~(exists /\ j \notin overlapped) /\ ~Changing(j)'
    BY <1>6, <1>8, <2>1 DEF TargetGood, Changing, Moves
  <2>3. ProvenSound'
    BY <1>3, <2>1, EndBrings, ProvenKept
  <2> QED
    BY <1>1, <1>3, <1>4, <1>5, <1>6, <2>1, <2>2, <2>3, ChangeNext DEF AboutRow
<1> QED
  BY <1>7, <1>8

LEMMA WriteUserStep ==
  ASSUME AccountInv, NEW j \in Jobs, WriteUser(j)
  PROVE  AccountInv'
<1>1. /\ End(j, "read") /\ email' = IF exists THEN Plain(brings[j]) ELSE email
      /\ settled' = (j \notin overlapped)
      /\ UNCHANGED <<emails, exists, confirmed, mailed, clicked, passwordVars>>
  BY DEF WriteUser
<1>2. /\ JobsTypeOK' /\ Moves(j, "idle") /\ job[j] = "read"
      /\ overlapped' = overlapped \ {j}
  BY <1>1, EndMoves
<1>3. JobsTypeOK /\ DataTypeOK /\ target[j] \in Rows
  BY <1>2, AccountTypes DEF AccountInv, TargetsSound, AboutRow
<1>4. Plain(brings[j]) \in Stored /\ Reads(Plain(brings[j])) = brings[j]
  BY <1>3 DEF JobsTypeOK, Plain, Stored, Reads
<1>5. DataTypeOK'
  BY <1>1, <1>3, <1>4 DEF DataTypeOK, passwordVars
<1>6. MailedSound' /\ TokenProvesItsRow'
  BY <1>1, RowsKept
<1>7. ProvenSound'
  <2>1. brings[j] \in Proven
    BY <1>2 DEF AccountInv, ProvenSound, Choosing
  <2>2. Reads(email') = Reads(email) \/ Reads(email') \in Proven
    BY <1>1, <1>4, <2>1
  <2> QED
    BY <1>1, <1>2, <2>2, EndBrings, ProvenKept
<1>8. Changing(j) /\ ~Changing(j)'
  BY <1>2 DEF Changing, Moves
<1>9. ASSUME exists, j \notin overlapped PROVE \E r \in Rows : PrimaryIs(r)'
  <2>1. OnlyPrimary(target[j]) /\ TargetGood(j)
    BY <1>2, <1>8, <1>9, OneChange DEF ChangeSound
  <2>2. Reads(email)' = brings[j]
    <3>1. email' = Plain(brings[j])
      BY <1>1, <1>9
    <3> QED
      BY <1>4, <3>1 DEF Reads
  <2>3. PICK r \in Rows : r = target[j]
    BY <1>3
  <2>4. OnlyPrimary(r) /\ emails[r].address = brings[j]
    BY <2>1, <2>3 DEF TargetGood
  <2>5. OnlyPrimary(r)'
    BY <1>1, <2>4 DEF OnlyPrimary
  <2> QED
    BY <1>1, <2>2, <2>4, <2>5 DEF PrimaryIs
<1> QED
  BY <1>1, <1>2, <1>5, <1>6, <1>7, <1>8, <1>9, ChangeNext DEF AboutRow
-----------------------------------------------------------------------------
LEMMA FailStep ==
  ASSUME AccountInv, NEW j \in Jobs, Fail(j)
  PROVE  AccountInv'
<1>1. /\ End(j, job[j]) /\ settled' = (settled /\ ~HalfWay(j))
      /\ UNCHANGED <<emails, email, exists, confirmed, mailed, clicked, passwordVars>>
  BY DEF Fail
<1>2. /\ JobsTypeOK' /\ Moves(j, "idle") /\ overlapped' = overlapped \ {j}
      /\ ~Changing(j) => overlapped' = overlapped
  BY <1>1, EndMoves
<1>3. DataTypeOK'
  BY <1>1, AccountTypes DEF AccountInv, DataTypeOK, passwordVars, HalfWay
<1>4. MailedSound' /\ TokenProvesItsRow'
  BY <1>1, RowsKept
<1>5. CASE Changing(j)
  <2>1. ProvenSound'
    BY <1>1, <1>2, EndBrings, ProvenKept
  <2>2. ~Changing(j)'
    BY <1>2 DEF Changing, Moves
  <2>3. ASSUME exists, j \notin overlapped, settled' PROVE \E r \in Rows : PrimaryIs(r)'
    <3>1. \E r \in Rows : PrimaryIs(r)
      BY <1>1, <1>5, <2>3, OneChange
    <3> QED
      BY <1>1, <3>1 DEF PrimaryIs, OnlyPrimary
  <2> QED
    BY <1>1, <1>2, <1>3, <1>4, <1>5, <2>1, <2>2, <2>3, ChangeNext DEF AboutRow
<1>6. CASE ~Changing(j)
  BY <1>1, <1>2, <1>3, <1>4, <1>6, QuietJobStep DEF AboutRow
<1> QED
  BY <1>5, <1>6

LEMMA DeleteAccountStep ==
  ASSUME AccountInv, DeleteAccount
  PROVE  AccountInv'
<1>1. /\ ~exists' /\ ~confirmed' /\ emails' = [r \in Rows |-> NoEmail] /\ password' = {}
      /\ UNCHANGED <<job, target, brings, link, cred, overlapped, email, mailed, clicked,
                     settled, age, sentLinks, usedMark, spent>>
  BY DEF DeleteAccount, jobVars
<1>2. NoEmail \in EmailRow /\ ~NoEmail.here /\ ~NoEmail.primary /\ ~NoEmail.verified
  BY AccountAssumption DEF NoEmail, EmailRow
<1>3. JobsTypeOK /\ DataTypeOK
  BY AccountTypes DEF AccountInv
<1>4. exists' \in BOOLEAN /\ confirmed' \in BOOLEAN
  BY DEF DeleteAccount
<1>5. JobsTypeOK' /\ DataTypeOK'
  BY <1>1, <1>2, <1>3, <1>4 DEF JobsTypeOK, DataTypeOK
<1>6. MailedSound' /\ TokenProvesItsRow'
  BY <1>1, <1>2 DEF MailedSound, TokenProvesItsRow
<1>7. TargetsSound' /\ LinksSound'
  BY <1>1 DEF AccountInv, TargetsSound, LinksSound
<1>8. PrimarySound'
  BY <1>1 DEF PrimarySound
<1>9. ProvenSound' /\ OverlapSound'
  BY <1>1, ProvenKept, OverlapKept DEF Choosing, Changing
<1> QED
  BY <1>5, <1>6, <1>7, <1>8, <1>9, AccountTypesNext DEF AccountInv

LEMMA AccountNextInv ==
  ASSUME AccountInv, [AccountNext]_accountVars
  PROVE  AccountInv'
<1>1. CASE EmailNext
  BY <1>1, LookAddressStep, LookStep, VerifyEmailStep, InsertEmailStep, DeleteEmailStep,
     UnsetPrimaryStep, SetPrimaryStep, ReadPrimaryStep, WriteUserStep, LookPrimaryStep,
     ConfirmUserStep, ResendTokenStep DEF EmailNext
<1>2. CASE PasswordNext
  BY <1>2, NoPasswordStep, ResetStep, MarkUsedStep, ForgotStep, HourStep DEF PasswordNext
<1>3. CASE \E j \in Jobs : Fail(j)
  BY <1>3, FailStep
<1>4. CASE DeleteAccount
  BY <1>4, DeleteAccountStep
<1>5. CASE UNCHANGED accountVars
  <2>1. /\ UNCHANGED <<job, target, brings, link, cred, overlapped, emails, email, exists>>
        /\ UNCHANGED <<confirmed, mailed, clicked, settled, password, age, sentLinks, usedMark, spent>>
    BY <1>5 DEF accountVars, jobVars, emailVars, passwordVars
  <2>2. JobsTypeOK' /\ DataTypeOK'
    BY <2>1, AccountTypes DEF AccountInv, JobsTypeOK, DataTypeOK
  <2>3. TargetsSound' /\ LinksSound'
    BY <2>1 DEF AccountInv, TargetsSound, LinksSound
  <2>4. MailedSound' /\ TokenProvesItsRow'
    BY <2>1, RowsKept
  <2>5. PrimarySound'
    BY <2>1, PrimaryKeptSound DEF Changing
  <2>6. ProvenSound' /\ OverlapSound'
    BY <2>1, ProvenKept, OverlapKept DEF Choosing, Changing
  <2> QED
    BY <2>2, <2>3, <2>4, <2>5, <2>6, AccountTypesNext DEF AccountInv
<1> QED
  BY <1>1, <1>2, <1>3, <1>4, <1>5 DEF AccountNext
-----------------------------------------------------------------------------
(***************************************************************************)
(* What is promised about an account.                                      *)
(***************************************************************************)

\* The invariant holds in every state an account can be in (Account).
THEOREM AccountInvariance ==
  AccountSpec => []AccountInv
<1>1. AccountInit => AccountInv
  BY AccountInitInv
<1>2. AccountInv /\ [AccountNext]_accountVars => AccountInv'
  BY AccountNextInv
<1> QED
  BY <1>1, <1>2, PTL DEF AccountSpec

\* The users row has a proven address, whatever requests overlap or fail, and
\* once a change of the primary address ran to its end alone the account has
\* one primary address, verified and the one in the users row, until a change
\* overlaps with another or fails half-way (routes/email.ts): for any number
\* of requests, rows and addresses, registered natively or migrated.
THEOREM PrimaryAlwaysKept ==
  AccountSpec => []PrimaryKept
<1>1. AccountInv => PrimaryKept
  <2> SUFFICES ASSUME AccountInv
               PROVE  PrimaryKept
    OBVIOUS
  <2>1. Reads(email) \in Proven
    BY DEF AccountInv, ProvenSound
  <2>2. ASSUME exists, settled, \A j \in Jobs : ~HalfWay(j)
        PROVE  \E r \in Rows :
                 Primaries = {r} /\ emails[r].verified /\ emails[r].address = Reads(email)
    <3>1. PICK r \in Rows : PrimaryIs(r)
      BY <2>2 DEF AccountInv, PrimarySound
    <3>2. Primaries = {r}
      BY <3>1 DEF Primaries, PrimaryIs, OnlyPrimary, AccountInv, MailedSound
    <3> QED
      BY <3>1, <3>2 DEF PrimaryIs, OnlyPrimary
  <2> QED
    BY <2>1, <2>2 DEF PrimaryKept
<1> QED
  BY <1>1, AccountInvariance, PTL

\* A verified address is of a row whose own token came back (emailIdClause in
\* routes/email.ts), whatever is deleted and added again.
THEOREM TokensProveTheirRows ==
  AccountSpec => []TokenProvesItsRow
<1>1. AccountInv => TokenProvesItsRow
  BY DEF AccountInv
<1> QED
  BY <1>1, AccountInvariance, PTL

\* No request takes up a link that is spent and that nobody is using.
LEMMA ResetsAgain ==
  ASSUME AccountInv, [AccountNext]_accountVars, NEW l \in spent, Resetting(l) = {},
         NEW j \in Resetting(l)'
  PROVE  FALSE
<1>1. j \in Jobs /\ link'[j] = l /\ job'[j] \in {"unused", "found", "written"}
  BY DEF Resetting
<1>2. ~(link[j] = l /\ job[j] \in {"unused", "found", "written"})
  BY <1>1 DEF Resetting
<1>3. JobsTypeOK /\ DataTypeOK /\ l \in Links
  BY AccountTypes DEF AccountInv, DataTypeOK
<1>4. CASE UNCHANGED jobVars
  BY <1>1, <1>2, <1>4 DEF jobVars
<1>5. CASE \E i \in Jobs, k \in Links : LookLink(i, k)
  <2>1. PICK i \in Jobs, k \in Links : LookLink(i, k)
    BY <1>5
  <2>2. i = j /\ k = l
    BY <1>1, <1>2, <1>3, <2>1 DEF LookLink, JobsTypeOK
  <2>3. age[l] < LinkLife /\ usedMark[l] = 0
    BY <2>1, <2>2 DEF LookLink, Valid
  <2>4. age[l] + usedMark[l] >= LinkLife
    BY DEF AccountInv, LinksSound
  <2> QED
    BY <1>3, <2>3, <2>4, AccountAssumption DEF DataTypeOK
<1>6. CASE \E i \in Jobs : LookPassword(i) \/ WritePassword(i)
  BY <1>1, <1>2, <1>3, <1>6 DEF LookPassword, WritePassword, Go, JobsTypeOK
<1>7. CASE \E i \in Jobs, from \in JobSteps : End(i, from)
  <2>1. PICK i \in Jobs : Moves(i, "idle")
    BY <1>7, EndMoves
  <2> QED
    BY <1>1, <1>2, <2>1 DEF Moves
<1>8. CASE \E i \in Jobs, s \in JobSteps \ {"unused", "found", "written"},
                 row \in Rows \cup {NoTarget}, address \in Addresses :
             Enter(i, s, row, address)
  <2>1. PICK i \in Jobs, s \in JobSteps \ {"unused", "found", "written"} : Moves(i, s)
    BY <1>3, <1>8 DEF Enter, Moves, JobsTypeOK
  <2> QED
    BY <1>1, <1>2, <2>1 DEF Moves
<1>9. CASE \E i \in Jobs, from \in JobSteps,
                 to \in JobSteps \ {"unused", "found", "written"} : Go(i, from, to)
  <2>1. PICK i \in Jobs, s \in JobSteps \ {"unused", "found", "written"} : Moves(i, s)
    BY <1>9, GoMoves
  <2> QED
    BY <1>1, <1>2, <2>1 DEF Moves
<1>10. CASE EmailNext
  <2>1. {"free", "deletable", "eligible", "unset", "set", "read", "verified", "primary"}
          \subseteq JobSteps \ {"unused", "found", "written"}
    BY DEF JobSteps
  <2>2. \A row \in Rows : emails[row].address \in Addresses
    BY <1>3 DEF DataTypeOK, EmailRow
  <2>3. CASE \E i \in Jobs, row \in Rows :
               \/ \E address \in Addresses : LookAddress(i, row, address)
               \/ LookDeletable(i, row) \/ LookVerified(i, row)
    BY <1>8, <2>1, <2>2, <2>3 DEF LookAddress, LookDeletable, LookVerified, Begin,
                                  BeginChange
  <2>4. CASE \E i \in Jobs, t \in Rows \X Addresses : VerifyEmail(i, t)
    BY <1>8, <2>1, <2>4 DEF VerifyEmail, Begin
  <2>5. CASE \E i \in Jobs : \/ InsertEmail(i) \/ DeleteEmail(i) \/ WriteUser(i)
                             \/ ConfirmUser(i)
    BY <1>7, <2>1, <2>5 DEF InsertEmail, DeleteEmail, WriteUser, ConfirmUser
  <2>6. CASE \E i \in Jobs : \/ UnsetPrimary(i) \/ SetPrimary(i) \/ ReadPrimary(i)
                             \/ LookPrimary(i)
    BY <1>7, <1>9, <2>1, <2>6 DEF UnsetPrimary, SetPrimary, ReadPrimary, LookPrimary
  <2>7. CASE \E row \in Rows : ResendToken(row)
    BY <1>4, <2>7 DEF ResendToken
  <2> QED
    BY <1>10, <2>3, <2>4, <2>5, <2>6, <2>7 DEF EmailNext
<1>11. CASE PasswordNext
  <2>1. {"none", "written"} \subseteq JobSteps /\ "none" \notin {"unused", "found", "written"}
    BY DEF JobSteps
  <2>2. CASE \E i \in Jobs : LookNoPassword(i)
    BY <1>8, <2>1, <2>2, AccountAssumption DEF LookNoPassword, Begin
  <2>3. CASE \E i \in Jobs : MarkUsed(i) \/ \E c \in Passwords : InsertPassword(i, c)
    BY <1>7, <2>1, <2>3 DEF MarkUsed, InsertPassword
  <2>4. CASE Hour \/ \E k \in Links : Forgot(k)
    BY <1>4, <2>4 DEF Hour, Forgot
  <2> QED
    BY <1>5, <1>6, <1>11, <2>2, <2>3, <2>4 DEF PasswordNext
<1>12. CASE \E i \in Jobs : Fail(i)
  BY <1>3, <1>7, <1>12 DEF Fail, JobsTypeOK
<1>13. CASE DeleteAccount \/ UNCHANGED accountVars
  BY <1>4, <1>13 DEF DeleteAccount, accountVars
<1> QED
  BY <1>10, <1>11, <1>12, <1>13 DEF AccountNext

\* A link resets a password once (password.ts puts the mark last): no reset
\* begins with a link after one with it was finished and none is in progress.
\* The mark lasts as long as the link, whatever the life of a link is.
THEOREM LinksResetOnce ==
  AccountSpec => LinkResetsOnce
<1>1. AccountInv /\ [AccountNext]_accountVars =>
        \A l \in Links : l \in spent /\ Resetting(l) = {} => Resetting(l)' = {}
  BY ResetsAgain
<1>2. AccountSpec => [][AccountInv /\ [AccountNext]_accountVars]_accountVars
  BY AccountInvariance, PTL DEF AccountSpec
<1> QED
  BY <1>1, <1>2, PTL DEF LinkResetsOnce
-----------------------------------------------------------------------------
(***************************************************************************)
(* Both together.                                                          *)
(***************************************************************************)

LEMMA FactorsStep ==
  ASSUME FactorsNext \/ UNCHANGED <<vars, cardVars, accountVars, part>>
  PROVE  [MfaNext]_<<vars, cardVars>> /\ [AccountNext]_accountVars
<1>1. CASE UNCHANGED <<vars, cardVars, accountVars, part>>
  BY <1>1
<1>2. CASE part = "factors" /\ Next /\ UNCHANGED <<cardVars, accountVars>>
  BY <1>2 DEF MfaNext
<1>3. CASE part = "cards" /\ Cards /\ UNCHANGED <<vars, accountVars>>
  BY <1>3 DEF MfaNext
<1>4. CASE (Advance(q1) \/ Provide \/ RequireAal2) /\ UNCHANGED <<cardVars, accountVars>>
  <2>1. Next
    BY <1>4, FactorsAssumption DEF Next
  <2> QED
    BY <1>4, <2>1 DEF MfaNext
<1>5. CASE EmailNext /\ UNCHANGED <<vars, cardVars>>
  BY <1>5 DEF AccountNext
<1>6. CASE PasswordNext /\ UNCHANGED <<vars, cardVars>>
  BY <1>6 DEF AccountNext
<1>7. CASE (DeleteAccount \/ \E j \in Jobs : Fail(j)) /\ UNCHANGED <<vars, cardVars>>
  BY <1>7 DEF AccountNext
<1> QED
  BY <1>1, <1>2, <1>3, <1>4, <1>5, <1>6, <1>7 DEF FactorsNext

\* The specification the run checks is a behaviour of Mfa and one of Account at
\* once, so that what is proved of the two holds of it.
THEOREM FactorsRefineParts ==
  FactorsSpec => Spec /\ AccountSpec
<1>1. FactorsInit => Init /\ AccountInit
  BY DEF FactorsInit
<1>2. [FactorsNext]_<<vars, cardVars, accountVars, part>> =>
        [MfaNext]_<<vars, cardVars>> /\ [AccountNext]_accountVars
  BY FactorsStep
<1> QED
  BY <1>1, <1>2, PTL DEF FactorsSpec, Spec, AccountSpec

\* Counters stay within their limits, whatever the routes of packages/mfa and
\* packages/account do: attempts, sends, tries of a text, the life of a marker.
THEOREM FactorsTypesHold ==
  FactorsSpec => []FactorsTypeOK
<1>1. MfaInv => MfaTypeOK
  BY DEF MfaInv
<1>2. AccountInv => AccountTypeOK
  BY DEF AccountInv
<1>3. MfaTypeOK /\ AccountTypeOK => FactorsTypeOK
  BY DEF FactorsTypeOK
<1> QED
  BY <1>1, <1>2, <1>3, FactorsRefineParts, MfaInvariance, AccountInvariance, PTL
=============================================================================
