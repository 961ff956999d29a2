------------------------------ MODULE SessionDO ------------------------------
(***************************************************************************)
(* One SessionDO instance: the Durable Object that holds the state of one  *)
(* sign-in flow (packages/session-do/src/index.ts).                        *)
(*                                                                         *)
(* The runtime delivers no event to the object while a storage operation   *)
(* is pending (input gates), so a handler is atomic between two awaits     *)
(* that are not storage operations.  The only such await with state read   *)
(* before it is request.json() in handleUpdate: PATCH is two actions,      *)
(* UpdateStart and UpdateFinish, and anything may run between them.        *)
(*                                                                         *)
(* Time is relative: expiresAt and the alarm are kept as the time left,    *)
(* counted down by Tick, so behaviours are infinite and the state finite.  *)
(***************************************************************************)
EXTENDS Integers

CONSTANTS
  Requests,             \* PATCH /update requests that may be in flight
  AllowedFields,        \* fields a PATCH may write (besides rememberedDevice)
  ProtectedFields,      \* OIDC flow state and timestamps: spId, redirectUri...
  DefaultTtl,           \* DEFAULT_TTL_MS, 15 minutes, in ticks
  RememberedTtl,        \* REMEMBERED_TTL_MS, 30 days, in ticks
  DeleteAllDropsAlarm,  \* does storage.deleteAll() also cancel the alarm?
  CanCrash,             \* may the object be reset in the middle of a handler?
  Never,                \* an expiresAt that is "" or missing; no alarm set
  NoSession             \* null

ASSUME SessionDOAssumption ==
  /\ DefaultTtl \in Nat \ {0}
  /\ RememberedTtl \in Nat
  /\ DefaultTtl <= RememberedTtl
  /\ DeleteAllDropsAlarm \in BOOLEAN
  /\ CanCrash \in BOOLEAN
  /\ AllowedFields \cap ProtectedFields = {}
  /\ Never \notin Int

VARIABLES
  session,  \* this.session, the copy in memory
  stored,   \* the "session" key of the object's storage
  alarm,    \* time left until the alarm, Never when none is set
  created,  \* POST /create has been received (its id is used once)
  patch,    \* per PATCH: idle, or the wasRemembered it read before its body
  acked,    \* history: fields answered ok since the session was last removed
  torn,     \* history: a reset cut the writes of a handler short
  remover   \* history: the handler that last cleaned up

vars == <<session, stored, alarm, created, patch, acked, torn, remover>>

\* Time left: down to -1, which stands for every instant past the deadline.
Ttl == -1..RememberedTtl

\* SessionState: does it hold the flow state POST /create was given, which
\* fields have been written by a PATCH, and when does it expire.
Session ==
  [flow : BOOLEAN,
   fields : SUBSET (AllowedFields \cup ProtectedFields),
   rememberedDevice : BOOLEAN,
   expiresIn : Ttl \cup {Never}]

ASSUME NoSessionAssumption == NoSession \notin Session

TypeOK ==
  /\ session \in Session \cup {NoSession}
  /\ stored \in Session \cup {NoSession}
  /\ alarm \in Ttl \cup {Never}
  /\ created \in BOOLEAN
  /\ patch \in [Requests -> {"idle", "fresh", "remembered"}]
  /\ acked \in SUBSET AllowedFields
  /\ torn \in BOOLEAN
  /\ remover \in {"nobody", "reader", "delete", "alarm"}

Init ==
  /\ session = NoSession
  /\ stored = NoSession
  /\ alarm = Never
  /\ created = FALSE
  /\ patch = [r \in Requests |-> "idle"]
  /\ acked = {}
  /\ torn = FALSE
  /\ remover = "nobody"
-----------------------------------------------------------------------------
(***************************************************************************)
(* Operators the handlers share.                                           *)
(***************************************************************************)

\* this.session, loaded from storage when it is not in memory.
Loaded == IF session # NoSession THEN session ELSE stored

\* new Date(expiresAt) < new Date(): an invalid date is never smaller.
Expired(s) == s.expiresIn # Never /\ s.expiresIn < 0

TtlFor(remembered) == IF remembered THEN RememberedTtl ELSE DefaultTtl

\* Variant: the filter on the body of a PATCH is gone.
PermitAll(fields) == fields

\* Only ALLOWED_UPDATE_FIELDS survive in updates.
Permitted(fields) == fields \cap AllowedFields

\* Variant: the updates replace what earlier PATCHes wrote.
MergedOverwriting(s, fields, remember) ==
  IF s = NoSession
    THEN [flow |-> FALSE, fields |-> fields,
          rememberedDevice |-> remember, expiresIn |-> Never]
    ELSE [s EXCEPT !.fields = fields, !.rememberedDevice = @ \/ remember]

\* { ...this.session, ...updates }; spreading null contributes nothing.
Merged(s, fields, remember) ==
  IF s = NoSession
    THEN [flow |-> FALSE, fields |-> fields,
          rememberedDevice |-> remember, expiresIn |-> Never]
    ELSE [s EXCEPT !.fields = @ \cup fields,
                   !.rememberedDevice = @ \/ remember]

\* Variant: 30 days from the old expiry instead of from now.
ExtendedFromExpiry(s) ==
  [s EXCEPT !.expiresIn = IF @ = Never THEN RememberedTtl ELSE @ + RememberedTtl]

\* 30 days from now.
Extended(s) == [s EXCEPT !.expiresIn = RememberedTtl]

Write(s) == session' = s /\ stored' = s

\* Variant: cleanup() leaves the copy in memory.
CleanupStorageOnly ==
  /\ stored' = NoSession
  /\ session' = session
  /\ acked' = {}
  /\ torn' = FALSE

\* cleanup(): forget the copy in memory and deleteAll().
Cleanup ==
  /\ Write(NoSession)
  /\ acked' = {}
  /\ torn' = FALSE

LeftAlarm == IF DeleteAllDropsAlarm THEN Never ELSE alarm
-----------------------------------------------------------------------------
(***************************************************************************)
(* The handlers.  A definition introduced as a Variant is a faulty form of *)
(* the one after it, kept to show that the properties reject it.           *)
(***************************************************************************)

NewSession(remembered, ttl) ==
  [flow |-> TRUE, fields |-> {}, rememberedDevice |-> remembered,
   expiresIn |-> ttl]

\* POST /create: put, stamp expiresAt, put again, set the alarm.
Create(remembered) ==
  /\ ~created
  /\ Write(NewSession(remembered, TtlFor(remembered)))
  /\ alarm' = TtlFor(remembered)
  /\ created' = TRUE
  /\ UNCHANGED <<patch, acked, torn, remover>>

\* GET /get answered 200 (a 404 changes nothing).
GetLive ==
  /\ Loaded # NoSession
  /\ ~Expired(Loaded)
  /\ session' = Loaded
  /\ UNCHANGED <<stored, alarm, created, patch, acked, torn, remover>>

\* Variant: !(expiresAt > now), which an invalid date passes as well.
GetUnlessLive ==
  /\ Loaded # NoSession
  /\ Loaded.expiresIn = Never \/ Expired(Loaded)
  /\ Cleanup
  /\ remover' = "reader"
  /\ alarm' = LeftAlarm
  /\ UNCHANGED <<created, patch>>

\* GET /get answered 410: the reader cleans up.
GetExpired ==
  /\ Loaded # NoSession
  /\ Expired(Loaded)
  /\ Cleanup
  /\ remover' = "reader"
  /\ alarm' = LeftAlarm
  /\ UNCHANGED <<created, patch>>

\* PATCH /update up to its await of the body; 404 without a session.
UpdateStart(r) ==
  /\ patch[r] = "idle"
  /\ Loaded # NoSession
  /\ session' = Loaded
  /\ patch' = [patch EXCEPT
       ![r] = IF Loaded.rememberedDevice THEN "remembered" ELSE "fresh"]
  /\ UNCHANGED <<stored, alarm, created, acked, torn, remover>>

\* Variant: every PATCH with rememberedDevice extends.
ExtendsAlways(r, remember) == remember

\* Did this PATCH set rememberedDevice on a session that had it unset when
\* the PATCH came in?
Extends(r, remember) == remember /\ patch[r] = "fresh"

Updated(r, fields, remember) ==
  LET merged == Merged(session, Permitted(fields), remember)
  IN  IF Extends(r, remember) THEN Extended(merged) ELSE merged

\* Variants: the alarm is not moved; it is moved by the default TTL.
AlarmUnmoved(r, remember) == alarm
AlarmByDefaultTtl(r, remember) ==
  IF Extends(r, remember) THEN DefaultTtl ELSE alarm

AlarmAfter(r, remember) ==
  IF Extends(r, remember) THEN RememberedTtl ELSE alarm

\* PATCH /update once the body is read: merge into whatever this.session is
\* now (null after a cleanup), put, and extend when the device was just
\* remembered.
UpdateFinish(r, fields, remember) ==
  /\ patch[r] # "idle"
  /\ Write(Updated(r, fields, remember))
  /\ alarm' = AlarmAfter(r, remember)
  /\ patch' = [patch EXCEPT ![r] = "idle"]
  /\ acked' = acked \cup Permitted(fields)
  /\ UNCHANGED <<created, torn, remover>>

\* DELETE /destroy.
Destroy ==
  /\ Cleanup
  /\ remover' = "delete"
  /\ alarm' = LeftAlarm
  /\ UNCHANGED <<created, patch>>

\* alarm(), delivered at its time or any time later.
AlarmFires ==
  /\ alarm # Never
  /\ alarm <= 0
  /\ Cleanup
  /\ remover' = "alarm"
  /\ alarm' = Never
  /\ UNCHANGED <<created, patch>>
-----------------------------------------------------------------------------
(***************************************************************************)
(* The runtime: resets, eviction and time.                                 *)
(***************************************************************************)

\* A reset forgets the copy in memory and the requests in flight.
ForgetMemory ==
  /\ session' = NoSession
  /\ patch' = [r \in Requests |-> "idle"]

\* Eviction of an idle object, or a reset between two handlers' writes.
Reset ==
  /\ CanCrash \/ \A r \in Requests : patch[r] = "idle"
  /\ ForgetMemory
  /\ UNCHANGED <<stored, alarm, created, acked, torn, remover>>

\* A reset in POST /create after its first or its second put.
CrashInCreate(remembered) ==
  /\ CanCrash
  /\ ~created
  /\ \E ttl \in {Never, TtlFor(remembered)} :
       stored' = NewSession(remembered, ttl)
  /\ created' = TRUE
  /\ torn' = TRUE
  /\ ForgetMemory
  /\ UNCHANGED <<alarm, acked, remover>>

\* A reset in PATCH /update after its first put, or after the put that
\* extends and before the alarm is moved.
CrashInUpdate(r, fields, remember) ==
  /\ CanCrash
  /\ patch[r] # "idle"
  /\ stored' \in {Merged(session, Permitted(fields), remember),
                  Updated(r, fields, remember)}
  /\ torn' = (torn \/ Extends(r, remember))
  /\ ForgetMemory
  /\ UNCHANGED <<alarm, created, acked, remover>>

Elapse(t) == IF t = Never \/ t = -1 THEN t ELSE t - 1

ElapseIn(s) ==
  IF s = NoSession THEN s ELSE [s EXCEPT !.expiresIn = Elapse(@)]

Tick ==
  /\ session' = ElapseIn(session)
  /\ stored' = ElapseIn(stored)
  /\ alarm' = Elapse(alarm)
  /\ UNCHANGED <<created, patch, acked, torn, remover>>
-----------------------------------------------------------------------------
Next ==
  \/ \E remembered \in BOOLEAN : Create(remembered)
  \/ GetLive
  \/ GetExpired
  \/ \E r \in Requests : UpdateStart(r)
  \/ \E r \in Requests, remember \in BOOLEAN,
        fields \in SUBSET (AllowedFields \cup ProtectedFields) :
          UpdateFinish(r, fields, remember)
  \/ Destroy
  \/ AlarmFires
  \/ Reset
  \/ \E remembered \in BOOLEAN : CrashInCreate(remembered)
  \/ \E r \in Requests, remember \in BOOLEAN,
        fields \in SUBSET (AllowedFields \cup ProtectedFields) :
          CrashInUpdate(r, fields, remember)
  \/ Tick

\* Time passes and the runtime delivers a due alarm; nobody has to call.
Fairness == WF_vars(Tick) /\ WF_vars(AlarmFires)

Spec == Init /\ [][Next]_vars /\ Fairness
-----------------------------------------------------------------------------
(***************************************************************************)
(* Safety.                                                                 *)
(***************************************************************************)

\* The copy in memory, when there is one, is what storage holds: no reader is
\* served a destroyed or an overwritten session, whatever ran in between.
MemoryIsStorage == session # NoSession => session = stored

\* A field a PATCH was answered ok for stays in the session until the session
\* is removed: concurrent PATCHes do not overwrite each other's fields.
AckedUpdatesSurvive ==
  IF stored = NoSession THEN acked = {} ELSE acked \subseteq stored.fields

\* The wake-up is set for the instant the session expires, for every session
\* that has an expiry and whose writes no reset cut short.
AlarmAtExpiry ==
  stored # NoSession /\ stored.expiresIn # Never /\ ~torn
    => alarm = stored.expiresIn

\* README: "Sessions expire automatically via Durable Object alarms".
EverySessionHasAlarm == stored # NoSession => alarm # Never

\* Before its expiry a session is removed by DELETE /destroy alone: a reader
\* removes only what has expired in storage, whatever its copy in memory says,
\* and no alarm left over comes before the expiry of an untorn session.
NoEarlyRemoval ==
  [][stored # NoSession /\ stored' = NoSession
     => /\ remover' = "reader" => Expired(stored)
        /\ remover' = "alarm" /\ ~torn /\ stored.expiresIn # Never
             => stored.expiresIn <= 0]_vars

\* The flow state a session was created with is never rewritten, and neither
\* lost nor regained, as long as the session exists.
FlowStateFixed ==
  [][stored # NoSession /\ stored' # NoSession
     => /\ stored'.flow = stored.flow
        /\ stored'.fields \cap ProtectedFields = {}]_vars

(***************************************************************************)
(* Liveness.                                                               *)
(***************************************************************************)

\* A session that has an alarm is removed in the end, however often it is
\* updated and extended.
AlarmedSessionsEnd == (stored # NoSession /\ alarm # Never) ~> stored = NoSession
=============================================================================
