------------------------------ MODULE RiscFraud ------------------------------
(***************************************************************************)
(* What happens to a proofed user when a provider reports fraud: the       *)
(* inbound security event tokens (routes/risc-inbound.ts of                *)
(* security-events), the fraud and SET queues (auth-core index.ts) with    *)
(* their handlers (consumers/fraud-handler.ts, set-outbound.ts), the       *)
(* proofing requests that run meanwhile (proofing.ts and persona.ts of     *)
(* identity-proofing) and the endpoints that show the data (userinfo.ts,   *)
(* ssn.ts).                                                                *)
(*                                                                         *)
(* One user: rows of different users do not interact.  A request is atomic *)
(* between two calls to KV, the database, a queue or another host.         *)
(***************************************************************************)
EXTENDS Naturals, Sequences, FiniteSets

CONSTANTS
  Tokens,       \* security event tokens about the user: their jti
  Contents,     \* what tokens may hold: the events in order
  Posts,        \* deliveries of tokens to POST /api/risc/security_events
  Proofings,    \* requests to /proofing
  FraudLimit,   \* attempts at a fraud message, 3
  NoToken

FraudEvents == {"authorization", "identity"}

ASSUME RiscAssumption ==
  /\ NoToken \notin Tokens
  /\ Contents \subseteq Seq(FraudEvents \cup {"other"})
  /\ FraudLimit \in Nat \ {0}
  /\ Posts \cap Proofings = {}

VARIABLES
  events,      \* per token: its events
  carried,     \* per post: its token
  post,        \* per post: the last step it completed, or its answer
  jti,         \* tokens whose jti is in KV
  stored,      \* per post: events it stored in identity_events
  fraud,       \* per post: the fraud message it sent: unsent, pending, done, given up
  fraudTries,  \* per post: attempts at it
  handler,     \* per post: the last step of the attempt in progress
  action,      \* per post: the event its fraud message is about
  sets,        \* per SET: unsent, pending (the last one sent), settled
  user,        \* the row: see UserRow
  proofing,    \* per proofing request: the last step it completed
  asks         \* per proofing request: see Asks

riscVars ==
  <<events, carried, post, jti, stored, fraud, fraudTries, handler, action, sets, user,
    proofing, asks>>

postVars  == <<events, carried, post, jti, stored>>
fraudVars == <<fraud, fraudTries, handler, action>>
proofVars == <<proofing, asks>>

UserRow == [ial : {1, 2}, pii : BOOLEAN, locked : BOOLEAN]

\* The queue makes one delivery more than the handler attempts (wrangler.toml).
Deliveries == FraudLimit + 1

\* SETs by what they are about: a fraud message, which sends the same one at
\* each of its attempts, or a reproofing.
Sets == Posts \cup Proofings

Asks == {"verify", "verify with face", "reproof", "reproof with face"}

Outcomes == {"unsent", "pending", "done", "given up"}

RiscTypeOK ==
  /\ events \in [Tokens -> Contents]
  /\ carried \in [Posts -> Tokens \cup {NoToken}]
  /\ post \in [Posts -> {"new", "looked", "recorded", "stored", "accepted",
                         "duplicate", "rejected", "failed"}]
  /\ jti \subseteq Tokens
  /\ stored \in [Posts -> 0..1]
  /\ fraud \in [Posts -> Outcomes]
  /\ fraudTries \in [Posts -> 0..Deliveries]
  /\ handler \in [Posts -> {"idle", "taken", "applied", "finished"}]
  /\ action \in [Posts -> FraudEvents \cup {"none"}]
  /\ sets \in [Sets -> {"unsent", "pending", "settled"}]
  /\ user \in UserRow
  /\ proofing \in [Proofings -> {"new", "started", "bound", "eligible", "facing", "completed",
                                 "written", "over"}]
  /\ asks \in [Proofings -> Asks]

RiscInit ==
  /\ events \in [Tokens -> Contents]
  /\ carried = [p \in Posts |-> NoToken]
  /\ post = [p \in Posts |-> "new"]
  /\ jti = {}
  /\ stored = [p \in Posts |-> 0]
  /\ fraud = [p \in Posts |-> "unsent"]
  /\ fraudTries = [p \in Posts |-> 0]
  /\ handler = [p \in Posts |-> "idle"]
  /\ action = [p \in Posts |-> "none"]
  /\ sets = [s \in Sets |-> "unsent"]
  /\ user \in {[ial |-> 1, pii |-> FALSE, locked |-> FALSE],
               [ial |-> 2, pii |-> TRUE, locked |-> FALSE]}
  /\ proofing = [f \in Proofings |-> "new"]
  /\ asks \in [Proofings -> Asks]
-----------------------------------------------------------------------------
(***************************************************************************)
(* POST /api/risc/security_events, from the check of the signature on.     *)
(***************************************************************************)
Answer(p, s) == post' = [post EXCEPT ![p] = s]

\* Variant: a jti is recorded and never looked up.
NeverSeen(t) == FALSE

Seen(t) == t \in jti

LookJti(p, t) ==
  /\ post[p] = "new"
  /\ carried' = [carried EXCEPT ![p] = t]
  /\ Answer(p, IF Seen(t) THEN "duplicate" ELSE "looked")
  /\ UNCHANGED <<events, jti, stored, fraudVars, sets, user, proofVars>>

\* The jti is recorded before anything is done about the events.
PutJti(p) ==
  /\ post[p] = "looked"
  /\ jti' = jti \cup {carried[p]}
  /\ Answer(p, IF events[carried[p]] = <<>> THEN "rejected" ELSE "recorded")
  /\ UNCHANGED <<events, carried, stored, fraudVars, sets, user, proofVars>>

JtiExpires(t) ==
  /\ t \in jti
  /\ jti' = jti \ {t}
  /\ UNCHANGED <<events, carried, post, stored, fraudVars, sets, user, proofVars>>

\* The event in hand, and whether another follows.
Current(p) == events[carried[p]][1]
Single(p) == Len(events[carried[p]]) = 1

\* All events of a token get the same id: the insert of the second hits the
\* primary key and the request ends with an error.
AfterEvent(p) == IF Single(p) THEN "accepted" ELSE "failed"

\* Variant: the answer is given when the event is stored.
AnswerWhenStored(p) ==
  /\ post[p] = "recorded"
  /\ stored' = [stored EXCEPT ![p] = 1]
  /\ Answer(p, "accepted")
  /\ UNCHANGED <<events, carried, jti, fraudVars, sets, user, proofVars>>

InsertEvent(p) ==
  /\ post[p] = "recorded"
  /\ stored' = [stored EXCEPT ![p] = 1]
  /\ Answer(p, IF Current(p) \in FraudEvents THEN "stored" ELSE AfterEvent(p))
  /\ UNCHANGED <<events, carried, jti, fraudVars, sets, user, proofVars>>

SendFraud(p) ==
  /\ post[p] = "stored"
  /\ fraud' = [fraud EXCEPT ![p] = "pending"]
  /\ action' = [action EXCEPT ![p] = Current(p)]
  /\ Answer(p, AfterEvent(p))
  /\ UNCHANGED <<events, carried, jti, stored, fraudTries, handler, sets, user, proofVars>>

\* A call to KV, the database or the queue fails.
PostFails(p) ==
  /\ post[p] \in {"looked", "recorded", "stored"}
  /\ Answer(p, "failed")
  /\ UNCHANGED <<events, carried, jti, stored, fraudVars, sets, user, proofVars>>
-----------------------------------------------------------------------------
(***************************************************************************)
(* The fraud queue and handleFraudAction.                                  *)
(***************************************************************************)
Work(p, s) == handler' = [handler EXCEPT ![p] = s]

TakeFraud(p) ==
  /\ fraud[p] = "pending" /\ handler[p] = "idle"
  /\ fraudTries' = [fraudTries EXCEPT ![p] = @ + 1]
  /\ Work(p, "taken")
  /\ UNCHANGED <<postVars, fraud, action, sets, user, proofVars>>

\* Variant: identity fraud takes the level and the data, and no more.
ResetRow(r) == [ial |-> 1, pii |-> FALSE, locked |-> r.locked]

\* What reset_ial writes.
FraudRow(r) == [ial |-> 1, pii |-> FALSE, locked |-> TRUE]

\* The row is updated.  Then the sessions in the list user:<id>:sessions are
\* destroyed: nothing writes that list, and the object named by the user
\* that stands in for it is none of a session.
ApplyFraud(p) ==
  /\ handler[p] = "taken"
  /\ user' = IF action[p] = "identity" THEN FraudRow(user)
             ELSE [ial |-> user.ial, pii |-> user.pii, locked |-> TRUE]
  /\ Work(p, IF action[p] = "identity" THEN "applied" ELSE "finished")
  /\ UNCHANGED <<postVars, fraud, fraudTries, action, sets, proofVars>>

\* account-disabled for the provider that reported.
EmitDisabled(p) ==
  /\ handler[p] = "applied"
  /\ sets' = [sets EXCEPT ![p] = "pending"]
  /\ Work(p, "finished")
  /\ UNCHANGED <<postVars, fraud, fraudTries, action, user, proofVars>>

Settle(p, o) == fraud' = [fraud EXCEPT ![p] = o] /\ Work(p, "idle")

AckFraud(p) ==
  /\ handler[p] = "finished"
  /\ Settle(p, "done")
  /\ UNCHANGED <<postVars, fraudTries, action, sets, user, proofVars>>

\* Variant: the last attempt is not made.
GivenUpEarly(tries) == tries + 1 >= FraudLimit

GivenUp(tries) == tries >= FraudLimit

\* The handler throws: the message is retried or, at the limit, acknowledged.
FraudFails(p) ==
  /\ handler[p] \in {"taken", "applied"}
  /\ Settle(p, IF GivenUp(fraudTries[p]) THEN "given up" ELSE "pending")
  /\ UNCHANGED <<postVars, fraudTries, action, sets, user, proofVars>>

\* Variant: a message whose consumer was cut off always comes back.
RedeliveredAlways(p) == TRUE

Redelivered(p) == fraudTries[p] < Deliveries

\* The consumer is cut off: the queue delivers again while it may.
FraudCut(p) ==
  /\ handler[p] # "idle"
  /\ Settle(p, IF Redelivered(p) THEN "pending" ELSE "given up")
  /\ UNCHANGED <<postVars, fraudTries, action, sets, user, proofVars>>
-----------------------------------------------------------------------------
(***************************************************************************)
(* The SET queue and handleSETOutbound.  The loop around it is that of the *)
(* fraud queue: of a SET, only that it is settled is kept.                 *)
(***************************************************************************)

\* The provider takes the SET, answers 400, or fails until it is given up.
\* One that names no provider, as reproof-completed, finds no address and
\* is skipped.
EndSet(s) ==
  /\ sets[s] = "pending"
  /\ sets' = [sets EXCEPT ![s] = "settled"]
  /\ UNCHANGED <<postVars, fraudVars, user, proofVars>>
-----------------------------------------------------------------------------
(***************************************************************************)
(* Proofing.                                                               *)
(***************************************************************************)
Reach(f, s) == proofing' = [proofing EXCEPT ![f] = s]

\* POST /proofing/start binds an inquiry to the user, in KV, for a day.
StartInquiry(f) ==
  /\ proofing[f] = "new"
  /\ Reach(f, "started")
  /\ UNCHANGED <<postVars, fraudVars, sets, user, asks>>

\* The other routes want the inquiry bound to their user.
CheckBinding(f, expired) ==
  /\ proofing[f] \in {"new", "started"}
  /\ Reach(f, IF proofing[f] = "new" \/ expired THEN "over" ELSE "bound")
  /\ UNCHANGED <<postVars, fraudVars, sets, user, asks>>

Reproofs(f) == asks[f] \in {"reproof", "reproof with face"}

Faces(f) == asks[f] \in {"verify with face", "reproof with face"}

\* reproof is for users at level 2.
CheckLevel(f) ==
  /\ proofing[f] = "bound"
  /\ Reach(f, IF Reproofs(f) /\ user.ial # 2 THEN "over" ELSE "eligible")
  /\ UNCHANGED <<postVars, fraudVars, sets, user, asks>>

\* What PersonaClient answers: about the inquiry, and about its selfie, which
\* the list of verifications may lack.
InquiryAnswers == {"error", "pending", "completed"}

FaceAnswers == {"error", "missing", "failed", "passed"}

\* Persona is asked for the documents: an error, or an inquiry that is not
\* completed, ends the request.
AskDocument(f, answer) ==
  /\ proofing[f] = "eligible"
  /\ Reach(f, IF answer # "completed" THEN "over" ELSE IF Faces(f) THEN "facing" ELSE "completed")
  /\ UNCHANGED <<postVars, fraudVars, sets, user, asks>>

\* Then for the selfie, which is to match...
AskFace(f, answer) ==
  /\ proofing[f] = "facing" /\ ~Reproofs(f)
  /\ Reach(f, IF answer = "passed" THEN "completed" ELSE "over")
  /\ UNCHANGED <<postVars, fraudVars, sets, user, asks>>

\* ... and which reproof does without if there is none.
AskSelfie(f, answer) ==
  /\ proofing[f] = "facing" /\ Reproofs(f)
  /\ Reach(f, IF answer \in {"passed", "missing"} THEN "completed" ELSE "over")
  /\ UNCHANGED <<postVars, fraudVars, sets, user, asks>>

VerifiedRow(r) == [ial |-> 2, pii |-> TRUE, locked |-> r.locked]

\* reproof leaves the level as it is, whatever it has become meanwhile.
ReproofedRow(r) == [ial |-> r.ial, pii |-> TRUE, locked |-> r.locked]

WriteVerified(f) ==
  /\ proofing[f] = "completed" /\ ~Reproofs(f)
  /\ user' = VerifiedRow(user)
  /\ Reach(f, "over")
  /\ UNCHANGED <<postVars, fraudVars, sets, asks>>

WriteReproofed(f) ==
  /\ proofing[f] = "completed" /\ Reproofs(f)
  /\ user' = ReproofedRow(user)
  /\ Reach(f, "written")
  /\ UNCHANGED <<postVars, fraudVars, sets, asks>>

\* reproof-completed, for no provider.
SendReproof(f) ==
  /\ proofing[f] = "written"
  /\ sets' = [sets EXCEPT ![f] = "pending"]
  /\ Reach(f, "over")
  /\ UNCHANGED <<postVars, fraudVars, user, asks>>
-----------------------------------------------------------------------------
(***************************************************************************)
(* What is shown: one read of the row decides.                             *)
(***************************************************************************)
Attributes == {"email", "address", "social_security_number"}

\* buildUserClaims: what the scopes allow and the row has; without data of
\* a proofing the row has an email.
Claims(scopes) == IF user.pii THEN scopes ELSE scopes \cap {"email"}

\* GET /api/openid_connect/userinfo refuses a locked account, whatever its
\* level...
UserinfoShows(scopes) == IF user.locked THEN {} ELSE Claims(scopes)

\* ... and GET /ssn/:userId a level below 2, locked or not.
SsnShows == IF user.ial = 2 THEN Claims({"social_security_number"}) ELSE {}
-----------------------------------------------------------------------------
RiscNext ==
  \/ \E p \in Posts :
       \/ \E t \in Tokens : LookJti(p, t)
       \/ PutJti(p) \/ InsertEvent(p) \/ SendFraud(p) \/ PostFails(p)
       \/ TakeFraud(p) \/ ApplyFraud(p) \/ EmitDisabled(p) \/ AckFraud(p)
       \/ FraudFails(p) \/ FraudCut(p)
  \/ \E t \in Tokens : JtiExpires(t)
  \/ \E s \in Sets : EndSet(s)
  \/ \E f \in Proofings :
       \/ StartInquiry(f) \/ CheckLevel(f)
       \/ \E b \in BOOLEAN : CheckBinding(f, b)
       \/ \E a \in InquiryAnswers : AskDocument(f, a)
       \/ \E a \in FaceAnswers : AskFace(f, a) \/ AskSelfie(f, a)
       \/ WriteVerified(f) \/ WriteReproofed(f) \/ SendReproof(f)

\* The queue delivers what is pending, and what it delivers is handled, or
\* its handler throws or is cut off.
RiscFairness ==
  \A p \in Posts :
    /\ WF_riscVars(TakeFraud(p))
    /\ WF_riscVars(ApplyFraud(p) \/ EmitDisabled(p) \/ AckFraud(p) \/ FraudFails(p)
                   \/ FraudCut(p))

RiscSpec == RiscInit /\ [][RiscNext]_riscVars /\ RiscFairness
-----------------------------------------------------------------------------
(***************************************************************************)
(* What is promised about fraud.                                           *)
(***************************************************************************)

\* Nothing falls between a token and its effects: one answered with 202, and
\* not as a duplicate, had one event, which is stored and, if it reports
\* fraud, was sent on (risc-inbound.ts, with one eventId for all events);
\* when its message is done the account is locked, and the provider that
\* reported identity fraud was sent account-disabled (fraud-handler.ts).
EventsActedOn ==
  \A p \in Posts :
    /\ post[p] = "accepted" =>
         /\ Single(p) /\ stored[p] = 1
         /\ Current(p) \in FraudEvents => fraud[p] # "unsent"
    /\ fraud[p] # "unsent" => action[p] = Current(p)
    /\ fraud[p] = "done" =>
         /\ user.locked
         /\ action[p] = "identity" => sets[p] # "unsent"

\* Posts of the token between the lookup of its jti and their answer.
Inside(t) ==
  {p \in Posts : carried[p] = t /\ post[p] \in {"looked", "recorded", "stored"}}

Effects(t) ==
  {p \in Posts : carried[p] = t /\ (stored[p] > 0 \/ fraud[p] # "unsent")}

\* A token whose jti is recorded has no further effect once the posts that
\* looked before are over, for as long as the jti is kept: a replay acts
\* only if it raced the first post (risc-inbound.ts looks and puts).
ReplaysIgnored ==
  [][\A t \in Tokens : t \in jti /\ t \in jti' /\ Inside(t) = {} =>
       Inside(t)' = {} /\ Effects(t)' = Effects(t)]_riscVars

\* Data of a user who is not at level 2 is never shown, though a reproofing
\* in flight may write it after fraud was reported: userinfo shows whatever
\* the row has, so this rests on reset_ial locking the account and on nobody
\* unlocking one (fraud-handler.ts, proofing.ts, userinfo.ts, ssn.ts).
PiiOfVerifiedOnly ==
  \A scopes \in SUBSET Attributes :
    UserinfoShows(scopes) \cup SsnShows \subseteq {"email"} \/ user.ial = 2

FraudQueue ==
  INSTANCE BoundedDelivery
    WITH Messages <- Posts, Limit <- FraudLimit, outcome <- fraud, tries <- fraudTries

\* The queue keeps to its bounds: a message is given up only after its
\* attempts, and none stays pending for ever (auth-core index.ts).
ImplementsDelivery == FraudQueue!Spec
=============================================================================
