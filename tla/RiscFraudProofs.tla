---------------------------- MODULE RiscFraudProofs ----------------------------
(***************************************************************************)
(* Theorems about RiscFraud, for any number of tokens, posts and proofings *)
(* and any limit: what an accepted token guarantees, that a replay has no  *)
(* effect, that data of an unverified user is never shown, and that the    *)
(* fraud queue keeps to its bounds.                                        *)
(***************************************************************************)
EXTENDS RiscFraud, TLAPS

(***************************************************************************)
(* The inductive invariant.                                                *)
(***************************************************************************)

\* How far a post came, what it stored and what it sent belong together.
PostSound(p) ==
  /\ post[p] # "new" => carried[p] \in Tokens
  /\ post[p] \in {"new", "looked", "recorded"} => stored[p] = 0
  /\ post[p] \in {"duplicate", "rejected"} => stored[p] = 0
  /\ post[p] = "stored" => stored[p] = 1 /\ Current(p) \in FraudEvents
  /\ post[p] = "accepted" =>
       /\ Single(p) /\ stored[p] = 1
       /\ Current(p) \in FraudEvents => fraud[p] # "unsent"
  /\ fraud[p] # "unsent" => post[p] \in {"accepted", "failed"} /\ action[p] = Current(p)

\* A message is handled only while it is pending, and each step of the
\* handler leaves its mark.
FraudSound(p) ==
  /\ fraud[p] = "unsent" => fraudTries[p] = 0
  /\ handler[p] # "idle" => fraud[p] = "pending" /\ fraudTries[p] > 0
  /\ fraud[p] = "pending" /\ handler[p] = "idle" => fraudTries[p] < Deliveries
  /\ handler[p] = "applied" => user.locked /\ action[p] = "identity"
  /\ handler[p] = "finished" \/ fraud[p] = "done" =>
       user.locked /\ (action[p] = "identity" => sets[p] # "unsent")

\* Data outlives the level only under the lock...
RowSound == user.pii /\ user.ial = 1 => user.locked

\* ... for which a reproofing in flight is the reason.
ProofingSound(f) ==
  Reproofs(f) /\ proofing[f] \in {"eligible", "facing", "completed"} =>
    user.ial = 2 \/ user.locked

IInv ==
  /\ RiscTypeOK
  /\ \A p \in Posts : PostSound(p)
  /\ \A p \in Posts : FraudSound(p)
  /\ RowSound
  /\ \A f \in Proofings : ProofingSound(f)

LEMMA InitIInv ==
  RiscInit => IInv
<1> SUFFICES ASSUME RiscInit PROVE IInv
  OBVIOUS
<1>0. 0 \in 0..Deliveries /\ user \in UserRow
  <2>1. 0 \in 0..Deliveries
    BY RiscAssumption DEF Deliveries
  <2>2. \/ user = [ial |-> 1, pii |-> FALSE, locked |-> FALSE]
        \/ user = [ial |-> 2, pii |-> TRUE, locked |-> FALSE]
    BY DEF RiscInit
  <2>3. user \in UserRow
    <3>1. CASE user = [ial |-> 1, pii |-> FALSE, locked |-> FALSE]
      BY <3>1 DEF UserRow
    <3>2. CASE user = [ial |-> 2, pii |-> TRUE, locked |-> FALSE]
      BY <3>2 DEF UserRow
    <3> QED
      BY <2>2, <3>1, <3>2
  <2> QED
    BY <2>1, <2>3
<1>1. RiscTypeOK
  BY <1>0 DEF RiscInit, RiscTypeOK, Outcomes
<1>2. ASSUME NEW p \in Posts PROVE PostSound(p) /\ FraudSound(p)
  BY <1>2 DEF RiscInit, PostSound, FraudSound
<1>3. RowSound /\ \A f \in Proofings : ProofingSound(f)
  BY DEF RiscInit, RowSound, ProofingSound
<1> QED
  BY <1>1, <1>2, <1>3 DEF IInv
-----------------------------------------------------------------------------
(***************************************************************************)
(* The steps of a post.                                                    *)
(***************************************************************************)

\* Nothing but posts changes.
LEMMA PostFrame ==
  ASSUME IInv, RiscTypeOK', UNCHANGED <<fraudVars, sets, user, proofVars>>,
         \A p \in Posts : PostSound(p)'
  PROVE  IInv'
<1>1. \A p \in Posts : FraudSound(p)'
  BY DEF IInv, FraudSound, fraudVars
<1>2. RowSound' /\ \A f \in Proofings : ProofingSound(f)'
  BY DEF IInv, RowSound, ProofingSound, Reproofs, proofVars
<1> QED
  BY <1>1, <1>2 DEF IInv

LEMMA LookStep ==
  ASSUME IInv, NEW p \in Posts, NEW t \in Tokens, LookJti(p, t)
  PROVE  IInv'
<1>1. RiscTypeOK'
  BY DEF IInv, RiscTypeOK, LookJti, Answer, fraudVars, proofVars
<1>2. ASSUME NEW q \in Posts PROVE PostSound(q)'
  BY DEF IInv, RiscTypeOK, PostSound, LookJti, Answer, Current, Single, fraudVars
<1> QED
  BY <1>1, <1>2, PostFrame DEF LookJti

LEMMA PutStep ==
  ASSUME IInv, NEW p \in Posts, PutJti(p)
  PROVE  IInv'
<1>0. carried[p] \in Tokens
  BY DEF IInv, PostSound, PutJti
<1>1. RiscTypeOK'
  BY <1>0 DEF IInv, RiscTypeOK, PutJti, Answer, fraudVars, proofVars
<1>2. ASSUME NEW q \in Posts PROVE PostSound(q)'
  BY <1>0 DEF IInv, RiscTypeOK, PostSound, PutJti, Answer, Current, Single, fraudVars
<1> QED
  BY <1>1, <1>2, PostFrame DEF PutJti

LEMMA InsertStep ==
  ASSUME IInv, NEW p \in Posts, InsertEvent(p)
  PROVE  IInv'
<1>1. RiscTypeOK'
  BY DEF IInv, RiscTypeOK, InsertEvent, Answer, AfterEvent, fraudVars, proofVars
<1>2. ASSUME NEW q \in Posts PROVE PostSound(q)'
  BY DEF IInv, RiscTypeOK, PostSound, InsertEvent, Answer, AfterEvent, Current, Single,
         fraudVars
<1> QED
  BY <1>1, <1>2, PostFrame DEF InsertEvent

LEMMA PostFailsStep ==
  ASSUME IInv, NEW p \in Posts, PostFails(p)
  PROVE  IInv'
<1>1. RiscTypeOK'
  BY DEF IInv, RiscTypeOK, PostFails, Answer, fraudVars, proofVars
<1>2. ASSUME NEW q \in Posts PROVE PostSound(q)'
  BY DEF IInv, RiscTypeOK, PostSound, PostFails, Answer, Current, Single, fraudVars
<1> QED
  BY <1>1, <1>2, PostFrame DEF PostFails

LEMMA JtiExpiresStep ==
  ASSUME IInv, NEW t \in Tokens, JtiExpires(t)
  PROVE  IInv'
<1>1. RiscTypeOK'
  BY DEF IInv, RiscTypeOK, JtiExpires, fraudVars, proofVars
<1>2. ASSUME NEW q \in Posts PROVE PostSound(q)'
  BY DEF IInv, PostSound, JtiExpires, Current, Single, fraudVars
<1> QED
  BY <1>1, <1>2, PostFrame DEF JtiExpires

LEMMA SendFraudStep ==
  ASSUME IInv, NEW p \in Posts, SendFraud(p)
  PROVE  IInv'
<1>0. Current(p) \in FraudEvents /\ fraud[p] = "unsent" /\ handler[p] = "idle"
      /\ fraudTries[p] = 0 /\ 0 < Deliveries /\ carried[p] \in Tokens
  <2>1. PostSound(p) /\ FraudSound(p) /\ post[p] = "stored" /\ fraud[p] \in Outcomes
    BY DEF IInv, RiscTypeOK, SendFraud
  <2>2. Current(p) \in FraudEvents /\ fraud[p] = "unsent" /\ carried[p] \in Tokens
    BY <2>1 DEF PostSound
  <2>3. handler[p] = "idle" /\ fraudTries[p] = 0
    BY <2>1, <2>2 DEF FraudSound
  <2>4. 0 < Deliveries
    BY RiscAssumption DEF Deliveries
  <2> QED
    BY <2>2, <2>3, <2>4
<1>1. RiscTypeOK'
  BY <1>0 DEF IInv, RiscTypeOK, SendFraud, Answer, AfterEvent, Outcomes, proofVars
<1>2. ASSUME NEW q \in Posts PROVE PostSound(q)'
  <2>1. Current(q)' = Current(q) /\ Single(q)' = Single(q)
    BY DEF SendFraud, Current, Single
  <2>2. CASE q = p
    <3>1. post'[p] = AfterEvent(p) /\ fraud'[p] = "pending" /\ action'[p] = Current(p)
      BY DEF IInv, RiscTypeOK, SendFraud, Answer
    <3>2. stored'[p] = 1 /\ carried'[p] = carried[p]
      BY DEF IInv, PostSound, SendFraud
    <3> QED
      BY <1>0, <2>1, <2>2, <3>1, <3>2 DEF PostSound, AfterEvent
  <2>3. CASE q # p
    BY <2>1, <2>3 DEF IInv, RiscTypeOK, PostSound, SendFraud, Answer
  <2> QED
    BY <2>2, <2>3
<1>3. ASSUME NEW q \in Posts PROVE FraudSound(q)'
  BY <1>0 DEF IInv, RiscTypeOK, FraudSound, SendFraud
<1>4. RowSound' /\ \A f \in Proofings : ProofingSound(f)'
  BY DEF IInv, SendFraud, RowSound, ProofingSound, Reproofs, proofVars
<1> QED
  BY <1>1, <1>2, <1>3, <1>4 DEF IInv
-----------------------------------------------------------------------------
(***************************************************************************)
(* The steps of the fraud queue and its handler.                           *)
(***************************************************************************)

LEMMA TakeStep ==
  ASSUME IInv, NEW p \in Posts, TakeFraud(p)
  PROVE  IInv'
<1>0. fraudTries[p] \in Nat /\ fraudTries[p] < Deliveries /\ Deliveries \in Nat
  BY RiscAssumption DEF IInv, RiscTypeOK, FraudSound, TakeFraud, Deliveries
<1>1. RiscTypeOK'
  BY <1>0 DEF IInv, RiscTypeOK, TakeFraud, Work, postVars, proofVars
<1>2. ASSUME NEW q \in Posts PROVE PostSound(q)'
  BY DEF IInv, PostSound, TakeFraud, Current, Single, postVars
<1>3. ASSUME NEW q \in Posts PROVE FraudSound(q)'
  BY <1>0 DEF IInv, RiscTypeOK, FraudSound, TakeFraud, Work
<1>4. RowSound' /\ \A f \in Proofings : ProofingSound(f)'
  BY DEF IInv, TakeFraud, RowSound, ProofingSound, Reproofs, proofVars
<1> QED
  BY <1>1, <1>2, <1>3, <1>4 DEF IInv

LEMMA ApplyStep ==
  ASSUME IInv, NEW p \in Posts, ApplyFraud(p)
  PROVE  IInv'
<1>0. user'.locked = TRUE /\ user' \in UserRow
  BY DEF IInv, RiscTypeOK, UserRow, ApplyFraud, FraudRow
<1>1. RiscTypeOK'
  BY <1>0 DEF IInv, RiscTypeOK, ApplyFraud, Work, postVars, proofVars
<1>2. ASSUME NEW q \in Posts PROVE PostSound(q)'
  BY DEF IInv, PostSound, ApplyFraud, Current, Single, postVars
<1>3. ASSUME NEW q \in Posts PROVE FraudSound(q)'
  BY <1>0 DEF IInv, RiscTypeOK, FraudSound, ApplyFraud, Work
<1>4. RowSound' /\ \A f \in Proofings : ProofingSound(f)'
  BY <1>0 DEF RowSound, ProofingSound
<1> QED
  BY <1>1, <1>2, <1>3, <1>4 DEF IInv

LEMMA EmitStep ==
  ASSUME IInv, NEW p \in Posts, EmitDisabled(p)
  PROVE  IInv'
<1>1. RiscTypeOK'
  BY DEF IInv, RiscTypeOK, EmitDisabled, Work, postVars, proofVars
<1>2. ASSUME NEW q \in Posts PROVE PostSound(q)'
  BY DEF IInv, PostSound, EmitDisabled, Current, Single, postVars
<1>3. ASSUME NEW q \in Posts PROVE FraudSound(q)'
  BY DEF IInv, RiscTypeOK, FraudSound, EmitDisabled, Work, Sets
<1>4. RowSound' /\ \A f \in Proofings : ProofingSound(f)'
  BY DEF IInv, EmitDisabled, RowSound, ProofingSound, Reproofs, proofVars
<1> QED
  BY <1>1, <1>2, <1>3, <1>4 DEF IInv

\* The message leaves its handler with an outcome its attempts allow.
LEMMA SettleStep ==
  ASSUME IInv, NEW p \in Posts, NEW o \in {"pending", "done", "given up"}, Settle(p, o),
         handler[p] # "idle",
         o = "pending" => fraudTries[p] < Deliveries,
         o = "done" => handler[p] = "finished",
         UNCHANGED <<postVars, fraudTries, action, sets, user, proofVars>>
  PROVE  IInv'
<1>1. RiscTypeOK'
  BY DEF IInv, RiscTypeOK, Settle, Work, Outcomes, postVars, proofVars
<1>2. ASSUME NEW q \in Posts PROVE PostSound(q)'
  BY DEF IInv, RiscTypeOK, PostSound, FraudSound, Settle, Current, Single, postVars
<1>3. ASSUME NEW q \in Posts PROVE FraudSound(q)'
  BY DEF IInv, RiscTypeOK, FraudSound, Settle, Work
<1>4. RowSound' /\ \A f \in Proofings : ProofingSound(f)'
  BY DEF IInv, RowSound, ProofingSound, Reproofs, proofVars
<1> QED
  BY <1>1, <1>2, <1>3, <1>4 DEF IInv

LEMMA SettlesStep ==
  ASSUME IInv, NEW p \in Posts, AckFraud(p) \/ FraudFails(p) \/ FraudCut(p)
  PROVE  IInv'
<1>1. CASE AckFraud(p)
  BY <1>1, SettleStep DEF AckFraud
<1>2. CASE FraudFails(p)
  <2>1. ~GivenUp(fraudTries[p]) => fraudTries[p] < Deliveries
    BY RiscAssumption DEF IInv, RiscTypeOK, GivenUp, Deliveries
  <2> QED
    BY <1>2, <2>1, SettleStep DEF FraudFails
<1>3. CASE FraudCut(p)
  BY <1>3, SettleStep DEF FraudCut, Redelivered
<1> QED
  BY <1>1, <1>2, <1>3

LEMMA EndSetStep ==
  ASSUME IInv, NEW s \in Sets, EndSet(s)
  PROVE  IInv'
<1>1. RiscTypeOK'
  BY DEF IInv, RiscTypeOK, EndSet, postVars, fraudVars, proofVars
<1>2. ASSUME NEW q \in Posts PROVE PostSound(q)'
  BY DEF IInv, PostSound, EndSet, Current, Single, postVars, fraudVars
<1>3. ASSUME NEW q \in Posts PROVE FraudSound(q)'
  BY DEF IInv, RiscTypeOK, FraudSound, EndSet, Sets, fraudVars
<1>4. RowSound' /\ \A f \in Proofings : ProofingSound(f)'
  BY DEF IInv, EndSet, RowSound, ProofingSound, Reproofs, proofVars
<1> QED
  BY <1>1, <1>2, <1>3, <1>4 DEF IInv

-----------------------------------------------------------------------------
(***************************************************************************)
(* The steps of a proofing.                                                *)
(***************************************************************************)

\* A proofing moves on; the row keeps its lock, and its level or more.
LEMMA ProofFrame ==
  ASSUME IInv, NEW f \in Proofings, user' \in UserRow,
         user.locked => user'.locked,
         user.ial = 2 => user'.ial = 2,
         user'.pii /\ user'.ial = 1 => user'.locked,
         proofing' \in [Proofings ->
           {"new", "started", "bound", "eligible", "facing", "completed", "written", "over"}],
         \A g \in Proofings \ {f} : proofing'[g] = proofing[g],
         ProofingSound(f)',
         sets' \in [Sets -> {"unsent", "pending", "settled"}],
         \A p \in Posts : sets[p] # "unsent" => sets'[p] # "unsent",
         UNCHANGED <<postVars, fraudVars, asks>>
  PROVE  IInv'
<1>1. RiscTypeOK'
  BY DEF IInv, RiscTypeOK, postVars, fraudVars
<1>2. ASSUME NEW q \in Posts PROVE PostSound(q)'
  BY DEF IInv, PostSound, Current, Single, postVars, fraudVars
<1>3. ASSUME NEW q \in Posts PROVE FraudSound(q)'
  BY DEF IInv, FraudSound, fraudVars
<1>4. RowSound'
  BY DEF RowSound
<1>5. ASSUME NEW g \in Proofings PROVE ProofingSound(g)'
  BY DEF IInv, ProofingSound, Reproofs
<1> QED
  BY <1>1, <1>2, <1>3, <1>4, <1>5 DEF IInv

\* Up to the write the row is left alone.
LEMMA ReachStep ==
  ASSUME IInv, NEW f \in Proofings,
         NEW s \in {"started", "bound", "eligible", "facing", "completed", "written", "over"},
         Reach(f, s), UNCHANGED <<postVars, fraudVars, sets, user, asks>>,
         Reproofs(f) /\ s \in {"eligible", "facing", "completed"} =>
           user.ial = 2 \/ user.locked
  PROVE  IInv'
<1>1. /\ proofing' \in [Proofings ->
           {"new", "started", "bound", "eligible", "facing", "completed", "written", "over"}]
      /\ proofing'[f] = s
      /\ \A g \in Proofings \ {f} : proofing'[g] = proofing[g]
  BY DEF IInv, RiscTypeOK, Reach
<1>2. ProofingSound(f)'
  BY <1>1 DEF ProofingSound, Reproofs
<1>3. /\ user \in UserRow /\ RowSound
      /\ sets \in [Sets -> {"unsent", "pending", "settled"}]
  BY DEF IInv, RiscTypeOK
<1> QED
  BY <1>1, <1>2, <1>3, ProofFrame DEF RowSound

LEMMA AsksStep ==
  ASSUME IInv, NEW f \in Proofings,
         \/ StartInquiry(f) \/ CheckLevel(f)
         \/ \E b \in BOOLEAN : CheckBinding(f, b)
         \/ \E a \in InquiryAnswers : AskDocument(f, a)
         \/ \E a \in FaceAnswers : AskFace(f, a) \/ AskSelfie(f, a)
  PROVE  IInv'
<1>1. CASE StartInquiry(f)
  BY <1>1, ReachStep DEF StartInquiry
<1>2. CASE CheckLevel(f)
  BY <1>2, ReachStep DEF CheckLevel
<1>3. ASSUME NEW b \in BOOLEAN, CheckBinding(f, b) PROVE IInv'
  BY <1>3, ReachStep DEF CheckBinding
<1>4. ASSUME NEW a \in InquiryAnswers, AskDocument(f, a) PROVE IInv'
  BY <1>4, ReachStep DEF AskDocument, IInv, ProofingSound
<1>5. ASSUME NEW a \in FaceAnswers, AskFace(f, a) \/ AskSelfie(f, a) PROVE IInv'
  BY <1>5, ReachStep DEF AskFace, AskSelfie, IInv, ProofingSound
<1> QED
  BY <1>1, <1>2, <1>3, <1>4, <1>5

LEMMA WriteVerifiedStep ==
  ASSUME IInv, NEW f \in Proofings, WriteVerified(f)
  PROVE  IInv'
<1>1. user' = [ial |-> 2, pii |-> TRUE, locked |-> user.locked] /\ user \in UserRow
  BY DEF IInv, RiscTypeOK, WriteVerified, VerifiedRow
<1>2. user' \in UserRow /\ user'.ial = 2 /\ user'.locked = user.locked
  BY <1>1 DEF UserRow
<1>3. /\ proofing' \in [Proofings ->
           {"new", "started", "bound", "eligible", "facing", "completed", "written", "over"}]
      /\ proofing'[f] = "over"
      /\ \A g \in Proofings \ {f} : proofing'[g] = proofing[g]
      /\ UNCHANGED <<postVars, fraudVars, sets, asks>>
  BY DEF IInv, RiscTypeOK, WriteVerified, Reach
<1>4. ProofingSound(f)'
  BY <1>3 DEF ProofingSound
<1>5. sets \in [Sets -> {"unsent", "pending", "settled"}]
  BY DEF IInv, RiscTypeOK
<1> QED
  BY <1>2, <1>3, <1>4, <1>5, ProofFrame

LEMMA WriteReproofedStep ==
  ASSUME IInv, NEW f \in Proofings, WriteReproofed(f)
  PROVE  IInv'
<1>1. user' = [ial |-> user.ial, pii |-> TRUE, locked |-> user.locked] /\ user \in UserRow
  BY DEF IInv, RiscTypeOK, WriteReproofed, ReproofedRow
<1>2. user' \in UserRow /\ user'.ial = user.ial /\ user'.locked = user.locked
  BY <1>1 DEF UserRow
<1>3. user.ial = 2 \/ user.locked
  BY DEF IInv, ProofingSound, WriteReproofed
<1>4. /\ proofing' \in [Proofings ->
           {"new", "started", "bound", "eligible", "facing", "completed", "written", "over"}]
      /\ proofing'[f] = "written"
      /\ \A g \in Proofings \ {f} : proofing'[g] = proofing[g]
      /\ UNCHANGED <<postVars, fraudVars, sets, asks>>
  BY DEF IInv, RiscTypeOK, WriteReproofed, Reach
<1>5. ProofingSound(f)'
  BY <1>4 DEF ProofingSound
<1>6. sets \in [Sets -> {"unsent", "pending", "settled"}]
  BY DEF IInv, RiscTypeOK
<1> QED
  BY <1>2, <1>3, <1>4, <1>5, <1>6, ProofFrame

LEMMA SendReproofStep ==
  ASSUME IInv, NEW f \in Proofings, SendReproof(f)
  PROVE  IInv'
<1>1. /\ proofing' \in [Proofings ->
           {"new", "started", "bound", "eligible", "facing", "completed", "written", "over"}]
      /\ proofing'[f] = "over"
      /\ \A g \in Proofings \ {f} : proofing'[g] = proofing[g]
      /\ UNCHANGED <<postVars, fraudVars, user, asks>>
  BY DEF IInv, RiscTypeOK, SendReproof, Reach
<1>2. ProofingSound(f)'
  BY <1>1 DEF ProofingSound
<1>3. /\ sets' \in [Sets -> {"unsent", "pending", "settled"}]
      /\ \A p \in Posts : sets[p] # "unsent" => sets'[p] # "unsent"
  BY DEF IInv, RiscTypeOK, SendReproof, Sets
<1>4. user \in UserRow /\ RowSound
  BY DEF IInv, RiscTypeOK
<1> QED
  BY <1>1, <1>2, <1>3, <1>4, ProofFrame DEF RowSound
-----------------------------------------------------------------------------
(***************************************************************************)
(* Every step.                                                             *)
(***************************************************************************)

LEMMA NextStep ==
  ASSUME IInv, [RiscNext]_riscVars
  PROVE  IInv'
<1>1. CASE UNCHANGED riscVars
  BY <1>1 DEF IInv, riscVars, RiscTypeOK, PostSound, FraudSound, RowSound, ProofingSound,
              Reproofs, Current, Single
<1>2. ASSUME NEW p \in Posts,
             \/ \E t \in Tokens : LookJti(p, t)
             \/ PutJti(p) \/ InsertEvent(p) \/ SendFraud(p) \/ PostFails(p)
             \/ TakeFraud(p) \/ ApplyFraud(p) \/ EmitDisabled(p) \/ AckFraud(p)
             \/ FraudFails(p) \/ FraudCut(p)
      PROVE  IInv'
  BY <1>2, LookStep, PutStep, InsertStep, SendFraudStep, PostFailsStep, TakeStep, ApplyStep,
     EmitStep, SettlesStep
<1>3. CASE \E t \in Tokens : JtiExpires(t)
  BY <1>3, JtiExpiresStep
<1>4. CASE \E s \in Sets : EndSet(s)
  BY <1>4, EndSetStep
<1>5. ASSUME NEW f \in Proofings,
             \/ StartInquiry(f) \/ CheckLevel(f)
             \/ \E b \in BOOLEAN : CheckBinding(f, b)
             \/ \E a \in InquiryAnswers : AskDocument(f, a)
             \/ \E a \in FaceAnswers : AskFace(f, a) \/ AskSelfie(f, a)
             \/ WriteVerified(f) \/ WriteReproofed(f) \/ SendReproof(f)
      PROVE  IInv'
  BY <1>5, AsksStep, WriteVerifiedStep, WriteReproofedStep, SendReproofStep
<1> QED
  BY <1>1, <1>2, <1>3, <1>4, <1>5 DEF RiscNext

\* RiscInit establishes the invariant and every step keeps it.
THEOREM Invariance ==
  RiscSpec => []IInv
<1>1. RiscInit => IInv
  BY InitIInv
<1>2. IInv /\ [RiscNext]_riscVars => IInv'
  BY NextStep
<1> QED
  BY <1>1, <1>2, PTL DEF RiscSpec

\* Posts, messages, handlers, the row and the proofings keep their types; the
\* attempts at a message never exceed the deliveries the queue makes.
THEOREM TypesHold ==
  RiscSpec => []RiscTypeOK
<1>1. IInv => RiscTypeOK
  BY DEF IInv
<1> QED
  BY <1>1, Invariance, PTL

\* A token answered with 202 is stored, sent on and, when its message is
\* done, acted on, whatever failed or was cut off on the way.
THEOREM AcceptedIsActedOn ==
  RiscSpec => []EventsActedOn
<1>1. IInv => EventsActedOn
  BY DEF IInv, PostSound, FraudSound, EventsActedOn
<1> QED
  BY <1>1, Invariance, PTL

\* No interleaving of fraud reports with proofings shows data of a user whose
\* level was taken.
THEOREM PiiStaysWithTheLevel ==
  RiscSpec => []PiiOfVerifiedOnly
<1>1. IInv => PiiOfVerifiedOnly
  <2> SUFFICES ASSUME IInv, user.ial # 2, NEW scopes \in SUBSET Attributes
               PROVE  UserinfoShows(scopes) \cup SsnShows \subseteq {"email"}
    BY DEF PiiOfVerifiedOnly
  <2>1. user.ial = 1 /\ user.pii \in BOOLEAN /\ user.locked \in BOOLEAN
    BY DEF IInv, RiscTypeOK, UserRow
  <2>2. SsnShows = {}
    BY <2>1 DEF SsnShows
  <2>3. user.locked \/ ~user.pii
    BY <2>1 DEF IInv, RowSound
  <2>4. UserinfoShows(scopes) \subseteq {"email"}
    BY <2>1, <2>3 DEF UserinfoShows, Claims
  <2> QED
    BY <2>2, <2>4
<1> QED
  BY <1>1, Invariance, PTL
-----------------------------------------------------------------------------
(***************************************************************************)
(* Replays.                                                                *)
(***************************************************************************)

\* What a step does to the posts of a recorded token that nobody is inside.
LEMMA ReplayStep ==
  ASSUME IInv, [RiscNext]_riscVars, NEW t \in Tokens, t \in jti, Inside(t) = {},
         NEW p \in Posts
  PROVE  /\ p \in Inside(t)' => p \in Inside(t)
         /\ p \in Effects(t)' <=> p \in Effects(t)
<1>1. IInv'
  BY NextStep
<1>2. PostSound(p) /\ PostSound(p)' /\ FraudSound(p) /\ p \notin Inside(t)
  BY <1>1 DEF IInv
<1>3. CASE UNCHANGED <<carried, post, stored, fraud>>
  BY <1>3 DEF Inside, Effects
<1>4. ASSUME NEW q \in Posts, NEW u \in Tokens, LookJti(q, u)
      PROVE  /\ p \in Inside(t)' => p \in Inside(t)
             /\ p \in Effects(t)' <=> p \in Effects(t)
  <2>1. CASE q = p
    <3>1. post[p] = "new" /\ stored[p] = 0 /\ fraud[p] = "unsent"
      BY <1>2, <1>4, <2>1 DEF PostSound, LookJti
    <3>2. stored'[p] = 0 /\ fraud'[p] = "unsent"
      BY <1>4, <3>1 DEF LookJti, fraudVars
    <3>3. p \notin Effects(t) /\ p \notin Effects(t)'
      BY <3>1, <3>2 DEF Effects
    <3>4. carried'[p] = u /\ (u = t => post'[p] = "duplicate")
      BY <1>4, <2>1 DEF LookJti, Answer, Seen, IInv, RiscTypeOK
    <3>5. p \notin Inside(t)'
      BY <3>4 DEF Inside
    <3> QED
      BY <3>3, <3>5
  <2>2. CASE q # p
    BY <1>4, <2>2 DEF LookJti, Answer, Inside, Effects, fraudVars, IInv, RiscTypeOK
  <2> QED
    BY <2>1, <2>2
<1>5. ASSUME NEW q \in Posts, PutJti(q) \/ InsertEvent(q) \/ SendFraud(q) \/ PostFails(q)
      PROVE  /\ p \in Inside(t)' => p \in Inside(t)
             /\ p \in Effects(t)' <=> p \in Effects(t)
  <2>1. /\ post[q] \in {"looked", "recorded", "stored"} /\ carried' = carried
        /\ \A r \in Posts \ {q} :
             post'[r] = post[r] /\ stored'[r] = stored[r] /\ fraud'[r] = fraud[r]
    BY <1>5 DEF PutJti, InsertEvent, SendFraud, PostFails, Answer, fraudVars, IInv, RiscTypeOK
  <2>2. CASE q = p
    <3>1. carried[p] # t
      BY <1>2, <2>1, <2>2 DEF Inside
    <3> QED
      BY <2>1, <3>1 DEF Inside, Effects
  <2>3. CASE q # p
    BY <2>1, <2>3 DEF Inside, Effects
  <2> QED
    BY <2>2, <2>3
<1>6. ASSUME NEW q \in Posts, AckFraud(q) \/ FraudFails(q) \/ FraudCut(q)
      PROVE  /\ p \in Inside(t)' => p \in Inside(t)
             /\ p \in Effects(t)' <=> p \in Effects(t)
  <2>1. handler[q] # "idle" /\ fraud[q] = "pending"
    BY <1>6 DEF IInv, FraudSound, AckFraud, FraudFails, FraudCut
  <2>2. \E o \in {"pending", "done", "given up"} : fraud' = [fraud EXCEPT ![q] = o]
    BY <1>6 DEF AckFraud, FraudFails, FraudCut, Settle
  <2>3. fraud'[p] # "unsent" <=> fraud[p] # "unsent"
    BY <2>1, <2>2 DEF IInv, RiscTypeOK
  <2>4. UNCHANGED <<carried, post, stored>>
    BY <1>6 DEF AckFraud, FraudFails, FraudCut, postVars
  <2> QED
    BY <2>3, <2>4 DEF Inside, Effects
<1>7. CASE UNCHANGED riscVars
  BY <1>7, <1>3 DEF riscVars
<1>8. ASSUME NEW q \in Posts, TakeFraud(q) \/ ApplyFraud(q) \/ EmitDisabled(q)
      PROVE  UNCHANGED <<carried, post, stored, fraud>>
  BY <1>8 DEF TakeFraud, ApplyFraud, EmitDisabled, postVars
<1>9. CASE (\E u \in Tokens : JtiExpires(u)) \/ (\E s \in Sets : EndSet(s))
  BY <1>9, <1>3 DEF JtiExpires, EndSet, postVars, fraudVars
<1>10. ASSUME NEW f \in Proofings,
             \/ StartInquiry(f) \/ CheckLevel(f)
             \/ \E b \in BOOLEAN : CheckBinding(f, b)
             \/ \E a \in InquiryAnswers : AskDocument(f, a)
             \/ \E a \in FaceAnswers : AskFace(f, a) \/ AskSelfie(f, a)
             \/ WriteVerified(f) \/ WriteReproofed(f) \/ SendReproof(f)
      PROVE  UNCHANGED <<carried, post, stored, fraud>>
  BY <1>10 DEF StartInquiry, CheckLevel, CheckBinding, AskDocument, AskFace, AskSelfie,
               WriteVerified, WriteReproofed, SendReproof, postVars, fraudVars
<1> QED
  BY <1>3, <1>4, <1>5, <1>6, <1>7, <1>8, <1>9, <1>10 DEF RiscNext

\* Looking up a jti and recording it are two calls; once both are over for
\* everyone who looked, the token has no further effect.
THEOREM ReplaysHaveNoEffect ==
  RiscSpec => ReplaysIgnored
<1>1. ASSUME IInv, [RiscNext]_riscVars, NEW t \in Tokens, t \in jti, Inside(t) = {}
      PROVE  Inside(t)' = {} /\ Effects(t)' = Effects(t)
  <2>1. \A p \in Posts : p \in Inside(t)' => p \in Inside(t)
    BY <1>1, ReplayStep
  <2>2. \A p \in Posts : p \in Effects(t)' <=> p \in Effects(t)
    BY <1>1, ReplayStep
  <2>3. Inside(t)' = {}
    BY <1>1, <2>1 DEF Inside
  <2>4. Effects(t)' = Effects(t)
    BY <2>2 DEF Effects
  <2> QED
    BY <2>3, <2>4
<1>2. IInv /\ [RiscNext]_riscVars =>
        [\A t \in Tokens : t \in jti /\ t \in jti' /\ Inside(t) = {} =>
           Inside(t)' = {} /\ Effects(t)' = Effects(t)]_riscVars
  BY <1>1
<1> QED
  BY <1>2, Invariance, PTL DEF RiscSpec, ReplaysIgnored

-----------------------------------------------------------------------------
(***************************************************************************)
(* The fraud queue keeps to its bounds.                                    *)
(***************************************************************************)

\* One message takes a step of the queue.
LEMMA BecomesStep ==
  ASSUME RiscTypeOK, NEW p \in Posts, NEW from, NEW to, fraud[p] = from,
         fraud' = [fraud EXCEPT ![p] = to], fraudTries' = fraudTries
  PROVE  FraudQueue!Become({p}, from, to)
BY DEF RiscTypeOK, FraudQueue!Become

LEMMA SettleRefines ==
  ASSUME IInv, NEW p \in Posts, AckFraud(p) \/ FraudFails(p) \/ FraudCut(p)
  PROVE  [FraudQueue!Next]_(FraudQueue!vars)
<1>1. fraud[p] = "pending" /\ fraudTries[p] > 0 /\ fraudTries' = fraudTries
  BY DEF IInv, FraudSound, AckFraud, FraudFails, FraudCut
<1>2. {p} \in SUBSET Posts /\ RiscTypeOK
  BY DEF IInv
<1>3. CASE fraud' = [fraud EXCEPT ![p] = "done"]
  <2>1. FraudQueue!Finish({p})
    BY <1>1, <1>2, <1>3, BecomesStep DEF FraudQueue!Finish
  <2> QED
    BY <1>2, <2>1 DEF FraudQueue!Next
<1>4. CASE fraud' = [fraud EXCEPT ![p] = "pending"]
  BY <1>1, <1>4 DEF IInv, RiscTypeOK, FraudQueue!vars
<1>5. CASE fraud' = [fraud EXCEPT ![p] = "given up"] /\ fraudTries[p] >= FraudLimit
  <2>1. FraudQueue!GiveUp({p})
    BY <1>1, <1>2, <1>5, BecomesStep DEF FraudQueue!GiveUp
  <2> QED
    BY <1>2, <2>1 DEF FraudQueue!Next
<1>6. CASE AckFraud(p)
  BY <1>3, <1>6 DEF AckFraud, Settle
<1>7. CASE FraudFails(p)
  BY <1>4, <1>5, <1>7 DEF FraudFails, Settle, GivenUp
<1>8. CASE FraudCut(p)
  <2>1. ~Redelivered(p) => fraudTries[p] >= FraudLimit
    BY RiscAssumption DEF Redelivered, Deliveries, IInv, RiscTypeOK
  <2> QED
    BY <1>4, <1>5, <1>8, <2>1 DEF FraudCut, Settle
<1> QED
  BY <1>6, <1>7, <1>8

LEMMA TakeRefines ==
  ASSUME IInv, NEW p \in Posts, TakeFraud(p)
  PROVE  FraudQueue!Next
<1>1. /\ fraud[p] = "pending" /\ fraud' = fraud
      /\ fraudTries' = [fraudTries EXCEPT ![p] = fraudTries[p] + 1]
      /\ fraudTries \in [Posts -> Nat]
  BY RiscAssumption DEF IInv, RiscTypeOK, TakeFraud, Deliveries
<1>2. fraudTries' = [m \in Posts |-> fraudTries[m] + IF m \in {p} THEN 1 ELSE 0]
  <2>1. ASSUME NEW m \in Posts
        PROVE  fraudTries'[m] = fraudTries[m] + IF m \in {p} THEN 1 ELSE 0
    <3>1. CASE m = p
      BY <1>1, <3>1
    <3>2. CASE m # p
      BY <1>1, <3>2
    <3> QED
      BY <3>1, <3>2
  <2> QED
    BY <1>1, <2>1
<1>3. FraudQueue!Try({p})
  BY <1>1, <1>2 DEF FraudQueue!Try
<1> QED
  BY <1>3 DEF FraudQueue!Next

LEMMA NextRefines ==
  ASSUME IInv, [RiscNext]_riscVars
  PROVE  [FraudQueue!Next]_(FraudQueue!vars)
<1>1. CASE UNCHANGED <<fraud, fraudTries>>
  BY <1>1 DEF FraudQueue!vars
<1>2. ASSUME NEW p \in Posts, SendFraud(p) PROVE FraudQueue!Next
  <2>1. fraud[p] = "unsent"
    BY <1>2 DEF IInv, PostSound, SendFraud
  <2>2. FraudQueue!Send(p)
    BY <1>2, <2>1, BecomesStep DEF SendFraud, IInv, FraudQueue!Send
  <2> QED
    BY <2>2 DEF FraudQueue!Next
<1>3. ASSUME NEW p \in Posts, TakeFraud(p) PROVE FraudQueue!Next
  BY <1>3, TakeRefines
<1>4. ASSUME NEW p \in Posts, AckFraud(p) \/ FraudFails(p) \/ FraudCut(p)
      PROVE  [FraudQueue!Next]_(FraudQueue!vars)
  BY <1>4, SettleRefines
<1>5. ASSUME NEW p \in Posts,
             \/ \E t \in Tokens : LookJti(p, t)
             \/ PutJti(p) \/ InsertEvent(p) \/ PostFails(p) \/ ApplyFraud(p) \/ EmitDisabled(p)
      PROVE  UNCHANGED <<fraud, fraudTries>>
  BY <1>5 DEF LookJti, PutJti, InsertEvent, PostFails, ApplyFraud, EmitDisabled, fraudVars
<1>6. CASE UNCHANGED riscVars \/ (\E u \in Tokens : JtiExpires(u)) \/ (\E s \in Sets : EndSet(s))
  BY <1>6, <1>1 DEF riscVars, JtiExpires, EndSet, fraudVars
<1>7. ASSUME NEW f \in Proofings,
             \/ StartInquiry(f) \/ CheckLevel(f)
             \/ \E b \in BOOLEAN : CheckBinding(f, b)
             \/ \E a \in InquiryAnswers : AskDocument(f, a)
             \/ \E a \in FaceAnswers : AskFace(f, a) \/ AskSelfie(f, a)
             \/ WriteVerified(f) \/ WriteReproofed(f) \/ SendReproof(f)
      PROVE  UNCHANGED <<fraud, fraudTries>>
  BY <1>7 DEF StartInquiry, CheckLevel, CheckBinding, AskDocument, AskFace, AskSelfie,
              WriteVerified, WriteReproofed, SendReproof, fraudVars
<1> QED
  BY <1>1, <1>2, <1>3, <1>4, <1>5, <1>6, <1>7 DEF RiscNext

\* A fraud message is tried before it is done, given up only after its
\* attempts, and never undone.
THEOREM QueueKeepsBounds ==
  RiscSpec => FraudQueue!Safety
<1>1. RiscInit => FraudQueue!Init
  BY DEF RiscInit, FraudQueue!Init
<1>2. RiscInit /\ [][RiscNext]_riscVars /\ []IInv =>
        FraudQueue!Init /\ [][FraudQueue!Next]_(FraudQueue!vars)
  BY <1>1, NextRefines, PTL
<1> QED
  BY <1>2, Invariance, PTL DEF RiscSpec, FraudQueue!Safety
=============================================================================
