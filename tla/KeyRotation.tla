----------------------------- MODULE KeyRotation -----------------------------
(***************************************************************************)
(* The signing keys of the id_tokens: the hourly rotation                  *)
(* (packages/infra/src/cron/key-rotation.ts), which an administrator can   *)
(* also start (auth-core/src/index.ts), the lookup of the signing key      *)
(* (auth-core/src/lib/token-signing.ts) and the certs endpoint that relying *)
(* parties verify against (auth-core/src/routes/certs.ts).                 *)
(*                                                                         *)
(* All of them share the KV entry jwks:current and the bucket R2_KEYS, and *)
(* each reads and writes them in separate calls.  A tick is long against a *)
(* request and short against the 23 hours after which a key is replaced:   *)
(* no request lasts over a tick.                                           *)
(***************************************************************************)
EXTENDS Integers, Sequences

CONSTANTS
  Kids,          \* key ids; one that nothing refers to any more stands for a new one
  Rotations,     \* runs of handleKeyRotation that may overlap: cron, administrator
  Fetches,       \* GETs of the certs endpoint that may overlap
  Signers,       \* requests that sign an id_token
  RotateAfter,   \* ROTATION_THRESHOLD_MS, 23 hours, in ticks
  JwksTtl,       \* KV_TTL.JWKS, 7 days, in ticks
  TokenTtl,      \* ID_TOKEN_EXPIRY, 5 minutes, in ticks
  MaxMisses,     \* ticks within which one run of the rotation gets through
  None

ASSUME KeyRotationAssumption ==
  /\ RotateAfter \in Nat
  /\ MaxMisses \in Nat \ {0}
  /\ JwksTtl \in Nat
  /\ TokenTtl \in Nat
  /\ RotateAfter + MaxMisses < JwksTtl
  /\ TokenTtl <= RotateAfter
  /\ None \notin Kids

VARIABLES
  jwks,       \* KV jwks:current: None or [keys, meta, ttl], newest kid first
  stored,     \* kids whose private key is in R2 under keys/<kid>.enc
  fallback,   \* kid of R2's jwks.json, None when it does not exist
  age,        \* time since createdAt, of the kids in use
  validFor,   \* per kid, time its last id_token is still valid; -1 when none is
  rotation,   \* per run: None, or its new kid, the entry it read, saved to R2?
  fetch,      \* per GET: None, or the kid it will cache and whether R2 has it
  signing,    \* per signer: None or the kid it looked up
  misses,     \* ticks since a run of the rotation got through
  clobbered   \* history: an entry was written over one its writer never read

vars == <<jwks, stored, fallback, age, validFor, rotation, fetch, signing,
          misses, clobbered>>

\* At most MAX_ACTIVE_KEYS = 2 entries.
Active == {<<>>} \cup {<<k>> : k \in Kids} \cup (Kids \X Kids)

\* certs.ts caches { keys } alone: state.meta is undefined then.
Entry == [keys : Active, meta : Active \cup {None}, ttl : 0..JwksTtl]

ASSUME NoneAssumption == None \notin Entry \cup Active

MaxAge == RotateAfter + MaxMisses + 1   \* bounds age

TypeOK ==
  /\ jwks \in Entry \cup {None}
  /\ stored \in SUBSET Kids
  /\ fallback \in Kids \cup {None}
  /\ age \in [Kids -> 0..MaxAge]
  /\ validFor \in [Kids -> -1..TokenTtl]
  /\ rotation \in [Rotations ->
       {None} \cup [kid : Kids, base : Entry \cup {None}, saved : BOOLEAN]]
  /\ fetch \in [Fetches -> {None} \cup [kid : Kids, saved : BOOLEAN]]
  /\ signing \in [Signers -> Kids \cup {None}]
  /\ misses \in 0..MaxMisses
  /\ clobbered \in BOOLEAN

Init ==
  /\ jwks = None
  /\ stored = {}
  /\ fallback = None
  /\ age = [k \in Kids |-> 0]
  /\ validFor = [k \in Kids |-> -1]
  /\ rotation = [r \in Rotations |-> None]
  /\ fetch = [f \in Fetches |-> None]
  /\ signing = [s \in Signers |-> None]
  /\ misses = 0
  /\ clobbered = FALSE
-----------------------------------------------------------------------------
Elements(s) == {s[i] : i \in DOMAIN s}

\* Does the entry hold the metadata handleKeyRotation and getSigningKey use?
HasMeta(e) == e # None /\ e.meta # None

\* The kids of an entry.
Referred(e) ==
  IF e = None THEN {}
  ELSE Elements(e.keys) \cup (IF e.meta = None THEN {} ELSE Elements(e.meta))

\* Does some entry, request, bucket object or valid token refer to the kid?
InUse(k) ==
  \/ k \in Referred(jwks)
  \/ \E r \in Rotations :
       /\ rotation[r] # None
       /\ k = rotation[r].kid \/ k \in Referred(rotation[r].base)
  \/ \E f \in Fetches : fetch[f] # None /\ k = fetch[f].kid
  \/ \E s \in Signers : k = signing[s]
  \/ validFor[k] >= 0
  \/ k = fallback

Fresh == {k \in Kids : ~InUse(k)}

\* Variant: an empty slot is filled, a full entry is never rotated.
FullIsFresh(e) == IF e = None THEN TRUE ELSE Len(e.meta) < 2

\* No keys yet, or the newest one is older than the threshold.
NeedsRotation(e) ==
  IF e = None THEN TRUE
  ELSE \A i \in DOMAIN e.meta : age[e.meta[i]] > RotateAfter
-----------------------------------------------------------------------------
(***************************************************************************)
(* handleKeyRotation: read, save the private key, publish.                 *)
(***************************************************************************)

\* The entry is read and the newest key is young enough; or it has no meta
\* and reading state.meta.length throws.  Nothing is written.
RotationSkips(r) ==
  /\ rotation[r] = None
  /\ IF HasMeta(jwks) THEN ~NeedsRotation(jwks) ELSE jwks # None
  /\ misses' = 0
  /\ UNCHANGED <<jwks, stored, fallback, age, validFor, rotation, fetch,
                 signing, clobbered>>

\* The entry is read and a key pair generated.
RotationStarts(r) ==
  /\ rotation[r] = None
  /\ jwks # None => HasMeta(jwks)
  /\ NeedsRotation(jwks)
  /\ \E k \in Fresh :
       /\ rotation' = [rotation EXCEPT
            ![r] = [kid |-> k, base |-> jwks, saved |-> FALSE]]
       /\ stored' = stored \ {k}
  /\ UNCHANGED <<jwks, fallback, age, validFor, fetch, signing, misses, clobbered>>

SavePrivateKey(r) ==
  /\ rotation[r] # None
  /\ ~rotation[r].saved
  /\ stored' = stored \cup {rotation[r].kid}
  /\ rotation' = [rotation EXCEPT
       ![r] = [kid |-> @.kid, base |-> @.base, saved |-> TRUE]]
  /\ UNCHANGED <<jwks, fallback, age, validFor, fetch, signing, misses, clobbered>>

\* Variants: MAX_ACTIVE_KEYS is 1; the slice is gone.
OnlyNewest(k, s) == <<k>>
AllKept(k, s)    == <<k>> \o s

\* [k, ...s].slice(0, MAX_ACTIVE_KEYS)
Prepended(k, s) == IF s = <<>> THEN <<k>> ELSE <<k, s[1]>>

\* Variant: the entry is cached for as long as a key is current.
TtlOfKey == RotateAfter

PublishTtl == JwksTtl

Rotated(k, base) ==
  [keys |-> Prepended(k, IF base = None THEN <<>> ELSE base.keys),
   meta |-> Prepended(k, IF base = None THEN <<>> ELSE base.meta),
   ttl |-> PublishTtl]

\* Variant: the new entry is published without waiting for the private key.
SavedOrNot(r) == rotation[r] # None

MayPublish(r) == rotation[r] # None /\ rotation[r].saved

\* The new entry replaces whatever is there now.
Publish(r) ==
  /\ MayPublish(r)
  /\ jwks' = Rotated(rotation[r].kid, rotation[r].base)
  /\ age' = [age EXCEPT ![rotation[r].kid] = 0]
  /\ clobbered' = (clobbered \/ jwks # rotation[r].base)
  /\ rotation' = [rotation EXCEPT ![r] = None]
  /\ misses' = 0
  /\ UNCHANGED <<stored, fallback, validFor, fetch, signing>>

RotationFails(r) ==
  /\ rotation[r] # None
  /\ rotation' = [rotation EXCEPT ![r] = None]
  /\ UNCHANGED <<jwks, stored, fallback, age, validFor, fetch, signing,
                 misses, clobbered>>
-----------------------------------------------------------------------------
(***************************************************************************)
(* GET certs: without an entry in KV, R2's jwks.json or a new key is cached *)
(* there, and no metadata with it.  With an entry the GET changes nothing. *)
(***************************************************************************)

CertsMiss(f) ==
  /\ fetch[f] = None
  /\ jwks = None
  /\ \E k \in IF fallback # None THEN {fallback} ELSE Fresh :
       fetch' = [fetch EXCEPT ![f] = [kid |-> k, saved |-> fallback # None]]
  /\ UNCHANGED <<jwks, stored, fallback, age, validFor, rotation, signing,
                 misses, clobbered>>

\* jwks.json, and signing-key.json, which nothing reads.
CertsSave(f) ==
  /\ fetch[f] # None
  /\ ~fetch[f].saved
  /\ fallback' = fetch[f].kid
  /\ fetch' = [fetch EXCEPT ![f].saved = TRUE]
  /\ UNCHANGED <<jwks, stored, age, validFor, rotation, signing, misses, clobbered>>

CertsCache(f) ==
  /\ fetch[f] # None
  /\ fetch[f].saved
  /\ jwks' = [keys |-> <<fetch[f].kid>>, meta |-> None, ttl |-> JwksTtl]
  /\ clobbered' = (clobbered \/ jwks # None)
  /\ fetch' = [fetch EXCEPT ![f] = None]
  /\ UNCHANGED <<stored, fallback, age, validFor, rotation, signing, misses>>

CertsFails(f) ==
  /\ fetch[f] # None
  /\ fetch' = [fetch EXCEPT ![f] = None]
  /\ UNCHANGED <<jwks, stored, fallback, age, validFor, rotation, signing,
                 misses, clobbered>>
-----------------------------------------------------------------------------
(***************************************************************************)
(* signIdToken.                                                            *)
(***************************************************************************)

\* getSigningKey: the newest kid of the entry (without one, or without its
\* meta, the request fails and nothing changes).
LookUpKey(s) ==
  /\ signing[s] = None
  /\ HasMeta(jwks)
  /\ jwks.meta # <<>>
  /\ signing' = [signing EXCEPT ![s] = jwks.meta[1]]
  /\ UNCHANGED <<jwks, stored, fallback, age, validFor, rotation, fetch,
                 misses, clobbered>>

\* The private key is read, from R2 or the copy getSigningKey keeps in KV, and
\* the token signed; without the key the request fails.
Sign(s) ==
  /\ signing[s] # None
  /\ validFor' = [validFor EXCEPT
       ![signing[s]] = IF signing[s] \in stored THEN TokenTtl ELSE @]
  /\ signing' = [signing EXCEPT ![s] = None]
  /\ UNCHANGED <<jwks, stored, fallback, age, rotation, fetch, misses, clobbered>>
-----------------------------------------------------------------------------
Quiet ==
  /\ \A r \in Rotations : rotation[r] = None
  /\ \A f \in Fetches : fetch[f] = None
  /\ \A s \in Signers : signing[s] = None

Aged(e) ==
  IF e = None THEN e
  ELSE IF e.ttl = 0 THEN None
  ELSE [keys |-> e.keys, meta |-> e.meta, ttl |-> e.ttl - 1]

\* A tick passes.  The cron may fail, for less than MaxMisses ticks in a row.
Tick ==
  /\ Quiet
  /\ misses < MaxMisses
  /\ misses' = misses + 1
  /\ jwks' = Aged(jwks)
  /\ age' = [k \in Kids |-> IF age[k] < MaxAge THEN age[k] + 1 ELSE age[k]]
  /\ validFor' = [k \in Kids |->
                    IF validFor[k] >= 0 THEN validFor[k] - 1 ELSE validFor[k]]
  /\ UNCHANGED <<stored, fallback, rotation, fetch, signing, clobbered>>

Next ==
  \/ \E r \in Rotations :
       \/ RotationSkips(r)
       \/ RotationStarts(r)
       \/ SavePrivateKey(r)
       \/ Publish(r)
       \/ RotationFails(r)
  \/ \E f \in Fetches :
       CertsMiss(f) \/ CertsSave(f) \/ CertsCache(f) \/ CertsFails(f)
  \/ \E s \in Signers : LookUpKey(s) \/ Sign(s)
  \/ Tick

Spec == Init /\ [][Next]_vars
-----------------------------------------------------------------------------
(***************************************************************************)
(* Safety.                                                                 *)
(***************************************************************************)

\* The private key of every kid a signer may be told to use is in R2, wherever
\* a rotation was cut off.
SigningKeyStored ==
  /\ HasMeta(jwks) => Elements(jwks.meta) \subseteq stored
  /\ \A s \in Signers : signing[s] # None => signing[s] \in stored

\* An id_token that is still valid verifies against the published keys...
ValidTokensVerify ==
  \A k \in Kids : validFor[k] >= 0 => jwks # None /\ k \in Elements(jwks.keys)

\* ... across any number of rotations, signers caught in the middle of one
\* included, as long as no two writers of the entry have overlapped.
GracefulRotation == ~clobbered => ValidTokensVerify

\* The current signing key is never older than the threshold and the ticks the
\* cron may miss.
KeysRotateInTime ==
  HasMeta(jwks) /\ jwks.meta # <<>> => age[jwks.meta[1]] <= RotateAfter + MaxMisses

\* "cron refreshes hourly but keys must survive cron failures": once keys can
\* sign they never vanish, and with overlapping writers excluded the fallback
\* of the certs endpoint never takes their place.
KeysSurvive ==
  [][HasMeta(jwks) => jwks' # None /\ (clobbered' \/ HasMeta(jwks'))]_vars

\* certs.ts: "Store the private key in R2 for token signing": whenever keys
\* are published there is one to sign with.
PublishedKeysSign == jwks # None => HasMeta(jwks) /\ jwks.meta # <<>>
=============================================================================
