# A verification project for logingov

logingov is an OpenID Connect identity provider that runs on Cloudflare
Workers: TypeScript packages under `packages/`, state in Durable Objects, KV
namespaces, R2 buckets, queues and a MySQL database. None of these give a
request a transaction over more than one call, workers run in parallel without
shared memory, and any call may fail or be the last one a worker makes. What is
hard to test here is what happens *between* two calls. The modules in this
directory model that, TLC checks them on small instances, and TLAPS proves the
safety properties for every instance.

## 1. Inventory

| component (packages/...) | state it keeps | operations | hard behaviour |
|---|---|---|---|
| **session-do** | one Durable Object per sign-in flow: `session` in memory and in storage, an alarm | create, get, update, destroy, alarm | PATCH awaits its body in the middle of a read-modify-write; resets between two writes; the alarm against everything else |
| **auth-core** authorize, PAR | KV `par:<id>` | push, authorize | get-then-delete of a single-use request |
| **auth-core** auth-flow | session (through session-do), rows of `auth_codes` | complete-login, issue-code | session read before the code is inserted; which step requires which |
| **auth-core** token | `auth_codes`, KV `client_assertion_jti:*`, `access_token:*` | exchange of a code | concurrent and retried redemptions, checks after the claim, failure after the token is stored |
| **auth-core** certs, token-signing; **infra** cron/key-rotation | KV `jwks:current`, `key:<kid>`, R2 `keys/<kid>.enc`, `jwks.json` | rotation, certs, signing | three writers and readers of two stores, no lock, expiry |
| **infra** cron/cleanup | `auth_codes` | delete expired | races redemptions |
| **auth-core** userinfo, logout, sp-lookup | KV `access_token:*`, `sp:*` | | stale cache and token against lock |
| **mfa** | KV `rl:*`, `otp:*`, `totp:used:*`, table `credentials`, `users.lockedAt` | TOTP, SMS, backup codes, WebAuthn | counters and replay markers kept by read-modify-write; lockout against success |
| **security-events** | KV `set:jti:*`, queues fraud and set, `identity_events`, `users` | inbound SETs, fraud actions, outbound SETs | marked as seen before done; redelivery, giving up after a limit |
| **infra** queue, consumers | audit and email queues, R2 audit log | batches | a batch fails as a whole; effects before the acknowledgement |
| **infra** rate-limiter, risk | KV `rl:*` | | burst between read and write |
| **identity-proofing** | `users.ial` and encrypted attributes, Persona | proofing, re-proofing | long calls between a read and a write; fraud resets in between |
| **account** | `user_emails`, `users`, KV `reset_token_used:*` | addresses, passwords, deletion | several statements without a transaction |
| **admin** | `service_providers`, KV `sp:*` | provider CRUD | cache invalidation against a lookup in flight |
| **hosted-ui, demo-agency** | the browser's cookies: PKCE, agency session, Better Auth session | sign-in page and wizard, start, callback, logout | tabs share cookies; the page posts what it knew before |
| **agency-admin** | `agencies`, `service_providers` | writes to both | changes a row it cannot drop the cached copy of |
| **saml-bridge** | a copy of the provider in KV | XML in and out | stale copy |
| **test-migration** | the old PostgreSQL and the new MySQL database, a map of ids in memory | full run, single table, reset | no transaction; a run may end anywhere and be repeated |
| **scripts, tests** | none the others depend on | | |

Components interact through the stores: the sign-in flow creates a session
object and reads it; MFA steps PATCH it; complete-login or issue-code turn it
into a row of `auth_codes`; the token endpoint claims the row and signs with the
key the cron published; fraud actions lock users and should end sessions.
`PROJECT.json` lists every component with its status, and under `hazards`
each place where this can go wrong with the property that watches it, or the reason
why none does.

### What makes each component correct

* session-do: an acknowledged update is not lost; nobody is served a destroyed
  session; a session lives until its expiry or a destroy and not beyond; the
  OIDC parameters a flow began with are never rewritten.
* codes and tokens: a code yields tokens at most once, only to its client with
  a matching redirect_uri and verifier, whatever fails or repeats; it does not
  stay redeemable.
* signing keys: there is always a key to sign with once there was one; it is
  replaced in time; a token verifies as long as it is valid.
* sign-in flow: no code without the authentication the request asked for.
* mfa: each one-time value is accepted once; after too many failures no further
  attempt is admitted; a gate opens only after the factor it asks for.
* security events: an accepted event has its effect at least once; a fraud
  action is not undone by work that was in flight.
* queues: every message is processed or visibly dropped, and no message takes
  others with it.
* account: after a change one primary address, the one readers of `users.email` get;
  one use per reset token.
* provider registration: a lookup answers from the row as it is or, for a bounded
  time, was.
* migration: every row belongs to a user who is there, once, and a run that comes to
  its report has left out nothing that was due: of several profiles or phones of a user
  the last one counts.

## 2. Modules

| module | models | role |
|---|---|---|
| `SessionDO` | session-do/src/index.ts | one Durable Object under its runtime |
| `SessionDOProofs` | | proofs about it |
| `SingleUseGrant` | nothing: an abstract specification | what a code promises |
| `TokenExchange` | token.ts, client-auth.ts, pkce.ts, cleanup.ts, the INSERTs of auth-flow.ts, issueAccessToken | the exchange; refines `SingleUseGrant` |
| `MCTokenExchange` | | its instance for TLC |
| `TokenExchangeProofs` | | proofs, the safety part of the refinement among them |
| `KeyRotation` | key-rotation.ts, certs.ts, getSigningKey and signIdToken | keys shared by cron, administrator, certs and signers |
| `KeyRotationProofs` | | proofs about it |
| `BoundedDelivery` | nothing: an abstract specification | what a queue with a retry limit promises |
| `AuditPipeline` | producer.ts, base-consumer.ts (batch mode), audit-consumer.ts, the send of admin's middleware/audit.ts | audit events on their way to table and archive; refines `BoundedDelivery` |
| `AuditPipelineProofs` | | proofs, the safety part of the refinement among them |
| `SignIn` | nothing: an abstract specification | what signing in promises a relying party |
| `AuthFlow` | par.ts, authorize.ts, deprecated-acr.ts, ial-evaluator.ts, auth-flow.ts, logout.ts, index.ts (redirect) of auth-core; the page script of hosted-ui; demo-agency | the sign-in flow of a browser; refines `SignIn` |
| `MCAuthFlow` | | its instances for TLC (two configurations) |
| `AuthFlowProofs` | | proofs, the refinement among them |
| `Mfa` | totp.ts, sms-otp.ts, backup-codes.ts, webauthn.ts, rate-limiter.ts, aal-evaluator.ts, index.ts of mfa; email-consumer.ts; x509.ts | second factors of one user in one session |
| `Account` | email.ts, password.ts, account.ts of account | addresses and password of one user |
| `MCFactors` | | instance of `Mfa` and `Account` |
| `FactorsProofs` | | proofs about the two |
| `RiscFraud` | risc-inbound.ts, fraud-handler.ts, set-outbound.ts, the queue loop of auth-core's index.ts, proofing.ts, persona.ts, ssn.ts, userinfo.ts, claims.ts | fraud reports against proofing and what is shown; its queue refines `BoundedDelivery` |
| `RiscFraudProofs` | | proofs, the safety part of the refinement among them |
| `SpConfig` | sp-lookup.ts of auth-core and saml-bridge, service-providers.ts of admin, server.ts of agency-admin | a provider's row and its cached copy |
| `Migration` | migrate.js, target-schema.sql | the migration and its reruns |
| `MCServices` | | instance of `RiscFraud`, `SpConfig` and `Migration` |
| `ServicesProofs` | | proofs about `SpConfig` and `Migration`, and that the instance is the three at once |

A definition whose comment calls it a *Variant* is a plausible bug of the
definition that follows it. It is used by no specification: it is there to be put
in place of that definition, after which TLC must find the property violated
(`mutants` in `PROJECT.json`). Each property has one.

### SessionDO

`session` is `this.session`, `stored` the key `session` of the object's storage,
`alarm` the time left until the alarm. One action per handler; PATCH is two,
`UpdateStart` and `UpdateFinish`, because it awaits `request.json()` with state
already read. All other awaits in the handlers are storage operations (or come
before any state is read), and the runtime's input gates deliver no event while
one is pending: that is the one assumption about the platform's concurrency.
`Reset` is an eviction or a reset between handlers; `CrashInCreate` and
`CrashInUpdate` (with `CanCrash`) cut a handler between two of its writes, and
`torn` remembers that. `DeleteAllDropsAlarm` says whether `deleteAll()` cancels
the alarm: with the `compatibility_date` of `wrangler.toml` it does not, so the
run uses `FALSE`, and the proofs cover both. An update is abstracted to
the set of fields it writes plus `rememberedDevice` (callers send `true` or leave
it out); a session created by spreading `null` has `flow = FALSE`. `remover` remembers who
removed the session last: `NoEarlyRemoval` holds a reader to the expiry in storage and
the alarm to the time, and leaves DELETE free.

Run `session` (11 597 states): two PATCHes, one allowed and one protected field,
TTLs 2 and 4. Two requests are the smallest number that overlap, and TTLs
that differ tell an extension from none; the object is one, so no further
instance interacts with it. Deadlock is checked. Liveness
(`AlarmedSessionsEnd`) assumes weak fairness of the clock and of the delivery of
a due alarm (the platform retries alarms until they succeed) and of no request.

Run `session_ttl` violates `EverySessionHasAlarm`: PATCH starts, DELETE or the
alarm empties the object, PATCH finishes and stores a session without
`expiresAt` and alarm, which is served for ever. The properties of the run
`session` hold with that behaviour included: they are stated for sessions that
have an expiry.

### TokenExchange

`row` is the state of each code's row, `left` the time to its expiry, `step` how
far each POST /token has come, `issued` the requests that put an access token
into KV. Each call to the database or KV is an action, and requests, cron and
clock interleave between any two; `Abort` ends a request at any point without
undoing anything. What a request presents (`body`) is fixed when the behaviour
starts; `proof` stands for redirect_uri and code_verifier at once, since the
code treats their failures alike: refused, and the code stays used. The answer
of a `SELECT` that finds no row is a TypeError, i.e. refused.

`SingleUseGrant` knows only who holds a code and who was paid. `grantOf` and
`payeeOf` map the exchange to it: a code is *held* while a request has claimed it
and not yet issued, *granted* once a token is in KV (not once it is answered:
the token is valid from there on), *void* when burned, deleted or
abandoned. `ImplementsGrant` is the whole abstract specification, fairness
included. `SingleUse` and `TokenBound` state in the concrete state what the
refinement gives only up to the mapping.

Run `exchange` (96 880 states): two requests, two codes of two providers, one
assertion, codes of one tick. Two requests are a winner and a loser, or a replay of an
assertion; the second code and provider allow the
assertion of one client to meet the code of the other. Fairness: the clock, the
cron, and that a received request goes on until answered or failed (each call
resolves, rejects or is cut off); no request is assumed to be sent. Not modelled:
the KV write of the jti becoming visible late elsewhere (section 5).

### KeyRotation

`jwks` is the KV entry with its time to live, `stored` the private keys in R2,
`rotation`, `fetch` and `signing` the requests in flight, with what each read.
Time (`Tick`) passes only when nothing is in flight: a tick stands for an hour,
a request for seconds. `misses` counts the ticks since a run of the rotation got
through and is bounded by `MaxMisses`: the assumption that the cron does not
fail longer is what `KeysRotateInTime` and `KeysSurvive` need, and the kv.ts
comment "keys must survive cron failures" is about. `age` is bounded by `MaxAge`
(no threshold lies beyond it). `Kids` is finite; a kid nothing refers to any
more stands for a new one, and a rotation that finds none waits.
`clobbered` becomes true when an entry is written over one its writer never
read; `GracefulRotation` is conditional on it, `SigningKeyStored` and
`KeysRotateInTime` are not.

Run `keys` (492 456 states): the cron, an administrator, one certs request and
one signer, four kids, threshold 1, entry 4 ticks, token 1 tick, two misses. Four
kids allow two active keys with two rotations in flight. Run `keys_race`
violates `ValidTokensVerify` with two overlapping rotations and run `keys_certs`
violates `PublishedKeysSign` with a certs request before the first rotation;
both are in `findings`. No liveness is claimed: nothing in this component waits.

### AuditPipeline

`message` says where each audit message is, `attempts` is `msg.attempts`,
`batch` and `step` are an invocation's messages and how far `processBatch` has
come with them, `rows` and `lines` count what table and archive hold of an
event. The INSERT of a batch is one statement, its archive file one put, and
anything may happen between the two. `CallFails` is a call that rejects, before
or after it took effect; `CutOff` ends an invocation that then acknowledges
nothing. What the platform does is `Return`, `CutOff` and the choice of batches:
a message comes back until it was delivered `max_retries + 1` times, which
for this queue is the default of 3. `NoPayload` are the messages of the admin
middleware, on which building the row throws; `TooLong` are those whose userId
the column refuses: logout sends a pairwise `sub` (64 characters) or a client_id
where `varchar(36)` is.

`outcomeOf` calls an event *done* from its first archived line on, also when its
message is still to be delivered again, and *given up* when its message is gone
without one. `ArchiveMatchesTable` bounds the duplicates that redelivery leaves:
exactness is not claimed, a retry writes new ids.

Run `audit` (49 582 states): three events, one of them sound, one without
payload and one too long, two invocations, batches of up to two. That is the
smallest instance where a sound message meets either bad one in a batch
and both invocations are at work; the limits are those of the code. The system
stops once every message is gone, so deadlock is not checked. Fairness: the
queue delivers while it has messages, and an invocation goes on or is cut off;
no message is assumed to be sent. Run `audit_poison` switches failures off and
violates `RecordableEventsRecorded`: an admin message shares a batch with a
sound one three times, and both are acknowledged unrecorded.

### AuthFlow

`tab` says where each tab of one browser is: a page at rest, or a request whose
answer it waits for, with the parameters of its address. The three cookies
(`pkce`, `agency`, `login`) are shared by the tabs. `par`, `session`, `code` and
`tokens` are what the provider keeps; `rowIal` is the user's row in `users`, which
complete-login creates and may fail to create without consequence. A handler is
one action per call to database, KV or session object: `ReadRequest` and
`DeleteRequest` take a pushed request in two calls (a client_id that differs from the
pushed one is noticed after the second), `StartComplete`,
`CheckSession` and `IssueCode` are GET complete-login with the login read before
the session and the session before the INSERT. `PostComplete`, `CheckPosted` and
`AnswerWithCode` are the POST of the same name, which takes the user from its body and
reads no login; no page of the repository calls it, so a tab on the sign-in page may. The exchange of a code is one step
(`Redeem`; its interleavings are those of `TokenExchange`) and the session object
is atomic and may expire at any time (`SessionDO` is its detail). `acr_values` are
sequences of names, parsed as ial-evaluator.ts does after deprecated-acr.ts has
translated them.

`vouchedOf` and `claimedOf` map the flow to `SignIn`: the provider *vouches* for a user
in an attempt from the moment GET complete-login read the login, and a user is *claimed*
from the moment POST complete-login named one, each to the callback, and the code keeps
it (`CodeRow.claimed` is history); a request that stops half-way withdraws. `SignIn`
says what each is worth: the provider vouches only for whoever is logged in, and a claim
needs no login. So the refinement says what the late INSERT may do: yield a code for a
user who was logged in when the login was read, though a logout, an expiry or the other
tab came in between; and that besides the POST no path to a code exists that did not
read a login.

Three facts met on the way. POST complete-login answers with a code for any user its
body names. `IssueCodeAfterMfa` never issues: no handler stores
`userId` in the session. And logout destroys the session object named by the
subject, while sessions are named by their id, so sessions outlive it: `IdpLogout`
leaves `session` alone.

Run `signin` (572 307 states): two tabs, one pushed request of a provider without
IAL2 and one plain request of a provider with it, two sessions, one code, one user,
five values of `acr_values` that cover translation, modifiers, a level the
provider lacks and a request that does not parse. Two tabs are the fewest that share a
cookie, race a pushed request or end each other's login. One code suffices since codes do
not meet, and one user since no step compares users: a second one logging in is, for a
code that is on its way, the login ending. Deadlock is not checked: sessions and codes are
finite and a tab that needs another one waits. Fairness: the browser follows redirects and
requests are answered; what users do and what expires is owed to nobody. `NoRedirectLoop`
needs no more, but says nothing of a login that comes and goes for ever.

Run `signin_mfa` violates `MfaStepReached`: complete-login redirects a login whose
request wants AAL2 to the sign-in page with `mfa=1`, and the middleware before
that page sends everybody who is logged in to the dashboard.

### Mfa and Account

`Mfa` has the verify requests as processes (`step`, `body`, `seen`: what they read
last), each call to KV, database or session object an action, and set-ups, resends,
regenerations, expiries and the clock around them. Secrets are numbers: the
step of a TOTP code, the n-th SMS code or challenge, a backup code of a
generation. `raced` remembers a write between a request's read and its own put of
the failure counter, `crossed` two WebAuthn assertions that were good at a time. The
properties that depend on no such race say so: `FailuresCount` holds only
without it, since the counter is a read and a put, and the same holds for the lock
that the counter sets. Also the limiter's check is apart from the comparison: it bounds
the requests that are admitted, and one that was admitted may compare its secret after
others have failed. Backup codes are exchanged by comparing a time in
milliseconds, so `FactorsSpent` assumes different times for them (`StampsDiffer`);
what it shows is that with different times no code comes back, not even when the
set is regenerated in between. Sessions of sign-ins have uuids, which
`idFromString` refuses: the factors work with other ids, and the module says what
they promise then. WebAuthn options store a challenge even for a user without a
credential (404 follows). An assertion brings a count (`Counts`): `NoRegression` lets a higher one
pass, and zero whatever is stored, as webauthn.ts:395 does for authenticators that keep
none; zero is then stored too. So `SignCountKept` is about the counts of the assertions
that were accepted (`counted`): they differ, and the stored count goes back to zero only,
until one of them was zero. A text waits in the queue (`texts`) until the consumer sends
it or gives up after its last attempt, so codes arrive late, out of order or never. A
card is a fact of its own in the session (`card`): POST x509/extract notes its issuer
and nothing about MFA. GET challenge offers it where phishing-resistant factors are
wanted ("PIV is always allowed", mfa/src/index.ts), and aal-evaluator.ts names it
there, but no handler writes the method `piv`: only requireHSPD12 ever lets a card
through, and a session that also needs AAL2 needs another factor beside it.
`GatesSound` includes that: whoever passes requirePhishingResistant verified WebAuthn.

`Account` has jobs with the row, address, link and credential they hold between
two calls. It begins with an account registered here (`Native`: a users row with the
address encrypted, and no row in `user_emails`) or a migrated one (`Migrated`: the address
as it is, and a row for it, marked and confirmed as it was). `email` says whether
`users.email` is encrypted: PATCH primary writes the address as it is (email.ts:208), over
ciphertext too, and its readers take what does not decrypt for the address (`Reads`;
claims.ts:39-44, account.ts:63-71), so they get the right one. PATCH primary never updates
`emailBlindIndex` either, so `Forgot` goes by the address of registration. Five statements
change the primary address without a transaction. `overlapped` remembers which changes ran
beside others and `settled` whether the last one ended and was alone: `PrimaryKept` says
what holds from then on, also when changes before it overlapped or failed half-way and left
none or two primary, and that the users row never has an address nobody proved. The
verification token carries the row's id, which is what `TokenProvesItsRow` rests on.

Run `factors` (716 785 states): three requests with the same method, two of them wrong or
with the same secret, or of two methods; a lockout after two failures; texts that are
tried twice; three assertions, two with one challenge, with counts zero to two; cards beside
one WebAuthn request, which they share no state with; two jobs, three rows for two
addresses, one link. Three requests allow a winner, a racer and a late one; three counts
are none, one and a higher one; a row beyond the addresses allows removing and adding an
address again. Of the eight kinds of migrated accounts the two with a primary row and an
unconfirmed user are in the instance; a row that is not primary is what a registered
account adds. Jobs, and the rows of added addresses, are symmetric: no definition tells
them apart. The parts run side by side in one module (`part`) since they share
no state that either changes; so does `MCServices`. Deadlock is not checked:
clocks and ids are bounded. No liveness is claimed: every request may be aborted.

### RiscFraud, SpConfig and Migration

`RiscFraud` follows one user: posts of security event tokens, one fraud message per
post, its handler, and proofings. `PutJti` comes before the effects, so a post that
fails in between leaves a token that retries report as a duplicate: `EventsActedOn`
speaks of posts answered with 202. All events of a token get one id, hence a token
with two events always ends in an error after the first one's effects
(`AfterEvent`). The handler's attempts are limited by the code, redeliveries after
a cut by the queue (one more), which `Redelivered` and `GivenUp` tell apart.
Nothing clears `users.locked_at`, and `PiiOfVerifiedOnly` rests on that: a
reproofing in flight writes data to a row whose level was just taken, and
userinfo shows what the row has. Sessions of a locked user survive, for the list
they are looked for in is never written. SETs that name neither target nor
provider are skipped; those that are signed use the key of the environment under
the rotated `kid`.

`SpConfig` counts versions of a row, and `outdated` the ticks since each was
replaced. Lookups put what they read before a change; administrators write the
row, then R2, then drop the copy; agency-admin writes the row only. `excused`
remembers the reasons a copy may be stale. Hits do not renew the copy, a tick falls
between requests and not within: together they give the bound.

`Migration` has images of source rows, with ids that name the run that made them.
`StartSingle` begins with the dry run of the users, which returns before the map is
filled (migrate.js:127), so a run for one other table inserts nothing, although
test-migration/README.md:93 says "the user ID mapping is always built first, even
for single-table runs". That is what keeps single-table runs sound: had the map
been built, its ids would be new and belong to nobody, as the mutant of
`MigrationSound` shows. Profiles and phones are `Columns` of the user's one row, put
there by an UPDATE (migrate.js:181-206): one more profile of a user goes over the
earlier one (`Written`), whether it is active or not, and changes nothing when the user
is not there. So `ReportedComplete` does not ask for every row of the source but for
those that are `Due`, of several profiles the last by id, and rests on `ORDER BY id`
(`NextOf`, the other mutant). (`--dry-run` still executes CREATE TABLE; it is not modelled
otherwise.)

Run `services` (354 761 states): two posts of one token over four contents, one
proofing of four kinds, two attempts of three deliveries; two administrators, one
lookup, two versions, a copy of two ticks; two users with nine dependent rows, two
of them profiles of one user and one without an owner, batches of one row, four runs.
Two posts are a race and a replay; two administrators and a lookup meet in every
order; four runs allow an interrupted run, a single one, a reset and another. Deadlock is not checked: versions
and runs are bounded. Fairness: the queue delivers what is pending and what
it delivers is handled, throws or is cut off.

## 3. What is proved

With the named assumptions of each module and nothing else, for every value of
the constants (any number of requests, codes, kids, any TTLs):

* **SessionDOProofs**: `TypeOK`, `MemoryIsStorage`, `AckedUpdatesSurvive`,
  `AlarmAtExpiry`, `NoEarlyRemoval`, `FlowStateFixed`. Alone the invariants are
  not inductive: a PATCH that resumes merges into `this.session`, which is
  what storage holds only because a PATCH in flight keeps the object in memory
  (`InFlightLoaded`: a reset ends the PATCH too), and POST /create overwrites, so
  it must find nothing (`NothingBeforeCreate`).
  `CreatedSessionsHaveAlarms` is what remains of the claim that run `session_ttl`
  refutes: the sessions without an alarm are those a PATCH resumed on an empty object
  made, and torn ones; a session of POST /create has it.
* **TokenExchangeProofs**: `TypeOK`, `SingleUse`, `TokenBound`, and
  `ExchangeRefinesGrant`, which is `Spec => ImplementsGrantSafety`. The
  strengthening says that a code someone holds or was paid for is burned in the
  database (`HoldersBurn`), and that what `CheckCode` established stays true
  (`CheckedStaysChecked`). The refinement proof maps each action to one of the
  abstract specification or to a stutter. `CodesEndForGood` draws a consequence from it:
  whatever happened to a code at last is never undone.
* **KeyRotationProofs**: `TypeOK`, `SigningKeyStored`, `KeysRotateInTime`,
  `GracefulRotation`, `KeysSurvive`. The invariant relates age, time to live
  and misses (`Clock`), keeps a run's kid unpublished and its base sound
  (`KidsUnpublished`, `BasesSound`), and bounds what the replaced key still signs
  and verifies by the age of its successor (`ReplacedKeyFades`).
* **AuditPipelineProofs**: `TypeOK`, `ArchiveMatchesTable`, `GoneForGood`, and
  `PipelineRefinesDelivery`, which is `Spec => ImplementsDeliverySafety`. The
  strengthening says that a message taken belongs to one invocation
  (`BatchesTaken`), what that invocation has written of it so far
  (`WrittenInTurn`), and that a queued message has a delivery left
  (`AttemptsLeft`). The assumption that matters is `MaxRetries <= QueueRetries + 1`:
  otherwise the queue drops a message that BaseConsumer would still retry.
  `NoneIsLostEarly` is what the refinement means for an event: it is archived, or was
  attempted that often. `OnlyPoisonedBatchesLose` is what remains of the claim that run
  `audit_poison` refutes: with no failing call, only batches with a bad message lose one.
* **AuthFlowProofs**: `TypeOK`, `CodesMeetRequest`, `RequestsSingleUse` and
  `FlowRefinesSignIn`, which is `Spec => ImplementsSignIn`, the whole abstract
  specification (it has no fairness). The strengthening says that a session is for
  what its request asked and has no user (`SessionSound`), that a tab past the check
  of a session holds one that passed it (`PageSound`), that a code meets a request that
  was made (`CodeSound`), and that a pushed request is gone from KV before a session is
  made of it (`RequestSound`). `AccountsHaveGround` draws from the refinement that
  whenever the agency comes to act on a user, a login or a POST completed for that user a
  request the agency had begun.
* **RiscFraudProofs**: `RiscTypeOK` (a part of `ServicesTypeOK`), `EventsActedOn`,
  `PiiOfVerifiedOnly`, `ReplaysIgnored`, and `QueueKeepsBounds`: the fraud queue's
  steps are those of `BoundedDelivery`. The strengthening ties a message to the event
  its post stored, a handler's progress to the effects it has had, and data in the
  row to a level or a lock.
* **ServicesProofs**, about `SpConfig`: `SpTypeOK`, `StaleBounded`. What a copy has been
  out of date and what it has left never exceed its lifetime (`CopyYoung`), because no
  tick falls between reading a row and putting it (`ReadFresh`), and the version in the
  row has not been replaced (`VersionsSound`).
  About `Migration`: `MigrationTypeOK`, `MigrationSound`. A run is through with the
  users before it reads what refers to them (`PlanSound`), by then the map agrees
  with the users that are there (`IdsSound`), and the unique index of users keeps
  out a second generation of ids (`UniqueKept`), so two images of any row would belong
  to two images of its user. A reset clears users last (`ClearSound`). What a run has put
into the columns of a user is the last of the rows it has written for that user, and
those still to write come after them (`ColumnsSound`).
* **FactorsProofs**, about `Mfa`: `MfaTypeOK`, `GatesSound`, `FailuresCount`,
  `FactorsSpent`, `SignCountKept`, from the invariant `MfaInv`. `FailuresCount` alone
  is not inductive: a request that is about to count must not be in the streak yet, and
  one that is in it must not come back (`StreakSound`). For a consumed secret the
  invariant says where it is kept from being used again: the marker of a TOTP step
  outlives the window in which that step is accepted (`TotpSound`), an SMS code or
  challenge in KV is a later one (`SmsSound`, `ChallengeSound`), and a backup code is
  among the used ones of its row or the row is gone (`CodesMarked`). The last needs more of
  the rows requests hold: one that still carries the time it was read with, which is what
  the exchange compares, has no other used codes than were read (`RowsSound`,
  `ReadsSound`). That is where the times of requests have to differ (`StampsDiffer`). The
  marker outlives its window because `MfaAssumption` takes `ReplayTtl` to be at least 3
  periods, as TOTP_REPLAY_TTL is (90 s, totp.ts:212); with 2 TLC finds a counterexample. For the sign counts it says that
  an assertion past the check, and the count in the database, are above every count that was
  accepted (`AssertionsSound`). `AdmissionIsBounded` says
  what the counter is for: with no race, the limiter admits nobody any more once
  `MaxFailed` requests have failed.
  About `Account`: `AccountTypeOK`, `PrimaryKept`, `TokenProvesItsRow`,
  `LinkResetsOnce`, from `AccountInv`: between two statements of a change the rows and
  `users.email` disagree, and `ChangeSound` says how at each of them, for a change
  that nothing overlaps, from whatever state it found (`PrimarySound`); addresses that
  are verified, or on their way to `users.email`, were proved (`ProvenSound`); a mark has at least the life its link has left
  (`LinksSound`); a row that is there, the first excepted, was mailed a token of its own
  (`MailedSound`), and an inserted row is one that nothing mailed before names.
* **What is composed**: `FactorsRefineParts` and `ServicesRefineParts` prove that the
  specifications of `MCFactors` and `MCServices`, which the runs check, are behaviours of
  each of their parts, so that every theorem above holds of them; `FactorsTypesHold`
  and `ServicesTypesHold` use it.

Each inductive invariant was checked by TLC, on the instance of its run. Proofs are laid
out one step per action.

## 4. What is only model-checked

* Liveness: `AlarmedSessionsEnd`, `NoRedirectLoop` and the fairness parts of
  `ImplementsGrant` and `ImplementsDelivery` (in `audit` and in `services`). Liveness
  under fairness and ENABLED are out of the prover's reach.
* The five violation runs are counterexamples, on instances.

## 5. Abstractions that matter

* KV is modelled as one copy that is read and written atomically per call. Its
  eventual consistency between locations (up to a minute) is left out. With it a marker
  that was put may not be found by a later request, however far apart the two are, so
  `FactorsSpent`, `RequestsSingleUse`, `ReplaysIgnored` and `LinkResetsOnce` hold only
  of requests that see each other's writes, and would fail without any overlap too; so
  would `FailuresCount`. The claim of an authorization code is in the database.
* Cryptography is ideal: signatures, hashes and encryption are not modelled,
  and checks of them become a guard or a refusal.
* Error bodies, logging, audit messages of the token endpoint and HTTP headers
  are left out.
* A uuid is never generated twice.
* Rows of different users do not interact: `Mfa`, `Account` and `RiscFraud` follow one.

### Not modelled

* A SAML sign-in: saml-bridge goes through authorize without a code_challenge, which
  authorize refuses (authorize.ts:108-110). The rest of the bridge is XML.
* BaseConsumer's individual mode, which no consumer chooses; what the email consumer
  does with templates other than texts, which is to log them.
* infra's rate limiter (approximate by design, used by nothing modelled here) and risk
  engine (a pure sum); i18n, observability, sms, session helpers without callers.
* Better Auth: passwords, their values and the rehash on first use (auth.ts), its own
  sessions beyond who is logged in.
* Demo routes; rendering and themes;
  document uploads of identity-proofing; the change of a known password.
* The migration viewer, which only reads; scripts and tests.

## 6. Plan

Done: every module of section 2, with proofs of every safety property its passing runs
check. What is left of the abstract specifications does not fit the modules as they are:
`AuthFlow` exchanges a code in one step where `SingleUseGrant` takes two, and a text
that fails for the last time in `Mfa` is tried and given up in one step where
`BoundedDelivery` has two. Either would need a finer step in a module whose run is already
among the largest. Next: what survives a race. The failure counter and the published keys
have properties that say nothing once two writers have overlapped; bounds that hold
then too would say more.
