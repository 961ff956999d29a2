-------------------------- MODULE KeyRotationProofs --------------------------
(***************************************************************************)
(* Proofs about KeyRotation, for any number of keys, rotations, certs      *)
(* requests and signers, and any periods that satisfy its assumption.      *)
(***************************************************************************)
EXTENDS KeyRotation, TLAPS

\* Lists of at most two kids.
LEMMA ActiveCases ==
  ASSUME NEW s \in Active
  PROVE  \/ s = <<>> /\ Elements(s) = {} /\ Len(s) = 0
         \/ s # <<>> /\ Len(s) = 1 /\ s[1] \in Kids /\ Elements(s) = {s[1]}
         \/ s # <<>> /\ Len(s) = 2 /\ s[1] \in Kids /\ s[2] \in Kids
            /\ Elements(s) = {s[1], s[2]}
  <1>1. CASE s = <<>>
    BY <1>1 DEF Elements
  <1>2. ASSUME NEW k \in Kids, s = <<k>>
        PROVE  s # <<>> /\ Len(s) = 1 /\ s[1] \in Kids /\ Elements(s) = {s[1]}
    BY <1>2 DEF Elements
  <1>3. CASE s \in Kids \X Kids
    <2>1. PICK a \in Kids, b \in Kids : s = <<a, b>>
      BY <1>3
    <2>2. DOMAIN s = 1..2 /\ s[1] = a /\ s[2] = b /\ Len(s) = 2 /\ s # <<>>
      BY <2>1
    <2>3. Elements(s) = {s[1], s[2]}
      BY <2>2 DEF Elements
    <2> QED
      BY <2>2, <2>3
  <1> QED
    BY <1>1, <1>2, <1>3 DEF Active

\* A key put in front: the list it gives, from none and from some.
LEMMA PrependedCases ==
  ASSUME NEW k \in Kids, NEW s \in Active
  PROVE  /\ Prepended(k, s) \in Active
         /\ Prepended(k, s) # <<>>
         /\ Prepended(k, s)[1] = k
         /\ s = <<>> => Elements(Prepended(k, s)) = {k} /\ Len(Prepended(k, s)) = 1
         /\ s # <<>> => /\ Elements(Prepended(k, s)) = {k, s[1]}
                        /\ Len(Prepended(k, s)) = 2
                        /\ Prepended(k, s)[2] = s[1]
  <1>1. CASE s = <<>>
    <2>1. Prepended(k, s) = <<k>>
      BY <1>1 DEF Prepended
    <2>2. <<k>> \in Active
      BY DEF Active
    <2> QED
      BY <1>1, <2>1, <2>2 DEF Elements
  <1>2. CASE s # <<>>
    <2>1. Prepended(k, s) = <<k, s[1]>> /\ s[1] \in Kids
      BY <1>2, ActiveCases DEF Prepended
    <2>2. <<k, s[1]>> \in Active
      BY <2>1 DEF Active
    <2>3. DOMAIN <<k, s[1]>> = {1, 2}
      OBVIOUS
    <2>4. Elements(<<k, s[1]>>) = {k, s[1]}
      BY <2>3 DEF Elements
    <2> QED
      BY <1>2, <2>1, <2>2, <2>4
  <1> QED
    BY <1>1, <1>2

\* The entry a run publishes.
LEMMA RotatedType ==
  ASSUME NEW k \in Kids, NEW e \in Entry \cup {None},
         e # None => HasMeta(e)
  PROVE  Rotated(k, e) \in Entry /\ HasMeta(Rotated(k, e))
  <1>1. <<>> \in Active
    BY DEF Active
  <1>2. Rotated(k, e).keys \in Active /\ Rotated(k, e).meta \in Active
    BY <1>1, PrependedCases DEF Rotated, Entry, HasMeta
  <1>3. JwksTtl \in 0..JwksTtl
    BY KeyRotationAssumption
  <1>4. Rotated(k, e) \in Entry
    BY <1>2, <1>3 DEF Rotated, Entry, PublishTtl
  <1> QED
    BY <1>2, <1>4, NoneAssumption DEF HasMeta
-----------------------------------------------------------------------------
(***************************************************************************)
(* The inductive invariant.                                                *)
(***************************************************************************)

Running(r) == rotation[r] # None

\* An entry with metadata lists the same kids twice, newest first.
Sound(e) ==
  HasMeta(e) =>
    /\ e.keys = e.meta
    /\ e.meta # <<>>
    /\ Len(e.meta) = 2 => e.meta[1] # e.meta[2]

\* A run works on a sound entry with metadata, or on none, and every key of
\* that entry is too old to be the current one.
BasesSound ==
  \A r \in Rotations : Running(r) /\ rotation[r].base # None =>
    /\ HasMeta(rotation[r].base)
    /\ Sound(rotation[r].base)
    /\ \A k \in Elements(rotation[r].base.meta) : age[k] > RotateAfter

\* The kid of a run is nobody else's until it is published.
KidsUnpublished ==
  \A r \in Rotations : Running(r) =>
    /\ rotation[r].kid \notin Referred(jwks)
    /\ rotation[r].kid # fallback
    /\ \A f \in Fetches : fetch[f] # None => fetch[f].kid # rotation[r].kid
    /\ \A q \in Rotations : Running(q) =>
         /\ rotation[r].kid \notin Referred(rotation[q].base)
         /\ q # r => rotation[q].kid # rotation[r].kid
    /\ \A s \in Signers : signing[s] # rotation[r].kid

\* What a run saved or read can be signed with.
RunsStored ==
  \A r \in Rotations : Running(r) =>
    /\ rotation[r].saved => rotation[r].kid \in stored
    /\ HasMeta(rotation[r].base) => Elements(rotation[r].base.meta) \subseteq stored

\* The ages of an entry's keys, the entry's time to live and the cron's misses.
Clock ==
  HasMeta(jwks) =>
    /\ age[jwks.meta[1]] <= RotateAfter + misses
    /\ age[jwks.meta[1]] + jwks.ttl >= JwksTtl
    /\ Len(jwks.meta) = 2 => age[jwks.meta[1]] <= age[jwks.meta[2]]

\* Without overlapping writers: without metadata nothing signs or is valid...
NothingWithoutMeta ==
  ~clobbered /\ ~HasMeta(jwks) =>
    /\ \A s \in Signers : signing[s] = None
    /\ \A k \in Kids : validFor[k] < 0

\* ... and a key that was replaced signs for the signers that had looked it up
\* when it was, and its tokens expire before it leaves the entry.
ReplacedKeyFades ==
  ~clobbered /\ HasMeta(jwks) =>
    /\ \A s \in Signers : signing[s] # None =>
         /\ signing[s] \in Elements(jwks.meta)
         /\ signing[s] # jwks.meta[1] => age[jwks.meta[1]] = 0
    /\ \A k \in Kids : validFor[k] >= 0 =>
         /\ k \in Elements(jwks.meta)
         /\ k # jwks.meta[1] => validFor[k] + age[jwks.meta[1]] <= TokenTtl

IInv ==
  /\ TypeOK
  /\ SigningKeyStored
  /\ Sound(jwks)
  /\ BasesSound
  /\ KidsUnpublished
  /\ RunsStored
  /\ Clock
  /\ NothingWithoutMeta
  /\ ReplacedKeyFades
-----------------------------------------------------------------------------
\* A fresh kid is referred to by nothing.
LEMMA FreshFacts ==
  ASSUME TypeOK, NEW k \in Fresh
  PROVE  /\ k \in Kids
         /\ k \notin Referred(jwks)
         /\ k # fallback
         /\ validFor[k] < 0
         /\ \A s \in Signers : signing[s] # k
         /\ \A f \in Fetches : fetch[f] # None => fetch[f].kid # k
         /\ \A r \in Rotations : Running(r) =>
              rotation[r].kid # k /\ k \notin Referred(rotation[r].base)
  <1>1. k \in Kids /\ ~InUse(k)
    BY DEF Fresh
  <1>2. validFor[k] < 0
    BY <1>1, KeyRotationAssumption DEF TypeOK, InUse
  <1> QED
    BY <1>1, <1>2 DEF InUse, Running

LEMMA InitIInv == Init => IInv
  <1> SUFFICES ASSUME Init PROVE IInv
    OBVIOUS
  <1>1. TypeOK
    <2>1. age \in [Kids -> 0..MaxAge] /\ validFor \in [Kids -> -1..TokenTtl]
      BY KeyRotationAssumption DEF Init, MaxAge
    <2>2. misses \in 0..MaxMisses
      BY KeyRotationAssumption DEF Init
    <2> QED
      BY <2>1, <2>2 DEF Init, TypeOK
  <1>2. ~HasMeta(jwks) /\ \A r \in Rotations : ~Running(r)
    BY DEF Init, HasMeta, Running
  <1> QED
    BY <1>1, <1>2
    DEF Init, IInv, SigningKeyStored, Sound, BasesSound, KidsUnpublished,
        RunsStored, Clock, NothingWithoutMeta, ReplacedKeyFades

\* What the entry and a run's base hold, spelt out.
LEMMA MetaFacts ==
  ASSUME NEW e \in Entry \cup {None}, HasMeta(e)
  PROVE  /\ e \in Entry
         /\ e.keys \in Active /\ e.meta \in Active
         /\ e.ttl \in 0..JwksTtl
         /\ Elements(e.meta) \subseteq Referred(e)
         /\ Elements(e.meta) \subseteq Kids
  <1>1. e \in Entry /\ e.keys \in Active /\ e.meta \in Active /\ e.ttl \in 0..JwksTtl
    BY DEF HasMeta, Entry
  <1>2. Elements(e.meta) \subseteq Referred(e)
    BY DEF HasMeta, Referred
  <1> QED
    BY <1>1, <1>2, ActiveCases

LEMMA SkipsIInv ==
  ASSUME IInv, NEW r \in Rotations, RotationSkips(r)
  PROVE  IInv'
  <1> USE DEF IInv, RotationSkips
  <1>1. TypeOK'
    BY KeyRotationAssumption DEF TypeOK
  <1>2. Clock'
    <2> SUFFICES ASSUME HasMeta(jwks) PROVE Clock'
      BY DEF Clock
    <2>1. jwks.meta \in Active /\ jwks.meta # <<>> /\ age \in [Kids -> 0..MaxAge]
      BY MetaFacts DEF Sound, TypeOK
    <2>2. PICK i \in DOMAIN jwks.meta : ~(age[jwks.meta[i]] > RotateAfter)
      BY DEF NeedsRotation, HasMeta
    <2>3. jwks.meta[i] \in Elements(jwks.meta)
      BY DEF Elements
    <2>4. age[jwks.meta[1]] <= RotateAfter
      BY <2>1, <2>2, <2>3, ActiveCases, KeyRotationAssumption DEF Clock, MaxAge
    <2> QED
      BY <2>4, KeyRotationAssumption DEF Clock
  <1>3. UNCHANGED <<jwks, stored, fallback, age, validFor, rotation, fetch,
                    signing, clobbered>>
    OBVIOUS
  <1> QED
    BY <1>1, <1>2, <1>3
    DEF SigningKeyStored, BasesSound, KidsUnpublished, RunsStored, NothingWithoutMeta,
        ReplacedKeyFades, Running

LEMMA StartsIInv ==
  ASSUME IInv, NEW r \in Rotations, RotationStarts(r)
  PROVE  IInv'
  <1> USE DEF IInv
  <1>1. PICK k \in Fresh :
          /\ rotation' = [rotation EXCEPT
               ![r] = [kid |-> k, base |-> jwks, saved |-> FALSE]]
          /\ stored' = stored \ {k}
    BY DEF RotationStarts
  <1>2. /\ UNCHANGED <<jwks, fallback, age, validFor, fetch, signing, misses, clobbered>>
        /\ rotation[r] = None
        /\ jwks # None => HasMeta(jwks)
        /\ NeedsRotation(jwks)
    BY DEF RotationStarts
  <1>3. TypeOK'
    BY <1>1, <1>2, FreshFacts DEF TypeOK
  <1>4. /\ rotation'[r] = [kid |-> k, base |-> jwks, saved |-> FALSE]
        /\ \A q \in Rotations \ {r} : rotation'[q] = rotation[q]
    BY <1>1 DEF TypeOK
  <1>5. HasMeta(jwks) => Elements(jwks.meta) \subseteq stored'
    BY <1>1, FreshFacts, MetaFacts DEF SigningKeyStored, TypeOK
  <1>6. SigningKeyStored'
    BY <1>1, <1>2, <1>5, FreshFacts DEF SigningKeyStored
  <1>7. BasesSound'
    <2>1. jwks # None => \A x \in Elements(jwks.meta) : age[x] > RotateAfter
      BY <1>2 DEF NeedsRotation, Elements
    <2> QED
      BY <1>2, <1>4, <2>1 DEF BasesSound, Running
  <1>8. KidsUnpublished'
    BY <1>2, <1>4, FreshFacts DEF KidsUnpublished, Running
  <1>9. RunsStored'
    <2>1. \A q \in Rotations \ {r} : Running(q) =>
            /\ k # rotation[q].kid
            /\ HasMeta(rotation[q].base) => k \notin Elements(rotation[q].base.meta)
      BY FreshFacts, MetaFacts DEF TypeOK, Running
    <2> SUFFICES ASSUME NEW q \in Rotations, Running(q)'
                 PROVE  /\ rotation'[q].saved => rotation'[q].kid \in stored'
                        /\ HasMeta(rotation'[q].base)
                             => Elements(rotation'[q].base.meta) \subseteq stored'
      BY DEF RunsStored, HasMeta
    <2>2. CASE q = r
      <3>1. rotation'[q].base = jwks /\ rotation'[q].saved = FALSE
        BY <1>4, <2>2
      <3> QED
        BY <1>5, <3>1
    <2>3. CASE q # r
      <3>1. Running(q) /\ rotation'[q] = rotation[q]
        BY <1>4, <2>3 DEF Running
      <3>2. k \notin Elements(rotation[q].base.meta) \/ ~HasMeta(rotation[q].base)
        BY <2>1, <2>3, <3>1
      <3> QED
        BY <1>1, <2>1, <2>3, <3>1, <3>2 DEF RunsStored
    <2> QED
      BY <2>2, <2>3
  <1> QED
    BY <1>2, <1>3, <1>6, <1>7, <1>8, <1>9
    DEF Clock, NothingWithoutMeta, ReplacedKeyFades

\* What a run that is under way is.
LEMMA RunType ==
  ASSUME TypeOK, NEW r \in Rotations, Running(r)
  PROVE  /\ rotation[r].kid \in Kids
         /\ rotation[r].base \in Entry \cup {None}
         /\ rotation[r].saved \in BOOLEAN
         /\ rotation[r] = [kid |-> rotation[r].kid, base |-> rotation[r].base,
                           saved |-> rotation[r].saved]
  BY DEF TypeOK, Running

LEMMA SaveIInv ==
  ASSUME IInv, NEW r \in Rotations, SavePrivateKey(r)
  PROVE  IInv'
  <1> USE DEF IInv
  <1>1. /\ Running(r)
        /\ rotation' = [rotation EXCEPT ![r] =
             [kid |-> rotation[r].kid, base |-> rotation[r].base, saved |-> TRUE]]
        /\ stored' = stored \cup {rotation[r].kid}
        /\ UNCHANGED <<jwks, fallback, age, validFor, fetch, signing, misses,
                       clobbered>>
    BY DEF SavePrivateKey, Running
  <1>2. TypeOK'
    <2>2. rotation' \in [Rotations ->
            {None} \cup [kid : Kids, base : Entry \cup {None}, saved : BOOLEAN]]
      <3> DEFINE Run == [kid : Kids, base : Entry \cup {None}, saved : BOOLEAN]
      <3>1. [kid |-> rotation[r].kid, base |-> rotation[r].base, saved |-> TRUE] \in Run
        BY <1>1, RunType
      <3>2. rotation \in [Rotations -> {None} \cup Run]
        BY DEF TypeOK
      <3> HIDE DEF Run
      <3>3. rotation' \in [Rotations -> {None} \cup Run]
        BY <1>1, <3>1, <3>2
      <3> QED
        BY <3>3 DEF Run
    <2>3. stored' \in SUBSET Kids
      BY <1>1, RunType DEF TypeOK
    <2> QED
      BY <1>1, <2>2, <2>3 DEF TypeOK
  <1>3. \A q \in Rotations :
          /\ q # r => rotation'[q] = rotation[q]
          /\ Running(q)' => Running(q)
          /\ Running(q) => /\ rotation'[q].kid = rotation[q].kid
                           /\ rotation'[q].base = rotation[q].base
    BY <1>1, RunType DEF TypeOK, Running
  <1>4. SigningKeyStored'
    BY <1>1 DEF SigningKeyStored
  <1>5. BasesSound'
    BY <1>1, <1>3 DEF BasesSound, Running
  <1>6. KidsUnpublished'
    BY <1>1, <1>3 DEF KidsUnpublished, Running
  <1>7. RunsStored'
    BY <1>1, <1>3 DEF RunsStored, Running
  <1> QED
    BY <1>1, <1>2, <1>4, <1>5, <1>6, <1>7
    DEF Clock, NothingWithoutMeta, ReplacedKeyFades

LEMMA FailsIInv ==
  ASSUME IInv, NEW r \in Rotations, RotationFails(r)
  PROVE  IInv'
  <1> USE DEF IInv, RotationFails
  <1>1. TypeOK'
    BY DEF TypeOK
  <1>2. \A q \in Rotations : Running(q)' => Running(q) /\ rotation'[q] = rotation[q]
    BY DEF TypeOK, Running
  <1>3. BasesSound' /\ KidsUnpublished' /\ RunsStored'
    BY <1>2 DEF BasesSound, KidsUnpublished, RunsStored, Running
  <1> QED
    BY <1>1, <1>3
    DEF SigningKeyStored, Clock, NothingWithoutMeta, ReplacedKeyFades

LEMMA CertsIInv ==
  ASSUME IInv, NEW f \in Fetches,
         CertsMiss(f) \/ CertsSave(f) \/ CertsFails(f)
  PROVE  IInv'
  <1> USE DEF IInv
  <1>1. /\ UNCHANGED <<jwks, stored, age, validFor, rotation, signing, misses,
                       clobbered>>
        /\ TypeOK'
    <2>1. CASE CertsMiss(f)
      BY <2>1, FreshFacts DEF CertsMiss, TypeOK
    <2>2. CASE CertsSave(f)
      BY <2>2 DEF CertsSave, TypeOK
    <2>3. CASE CertsFails(f)
      BY <2>3 DEF CertsFails, TypeOK
    <2> QED
      BY <2>1, <2>2, <2>3
  <1>2. \A r \in Rotations : Running(r) =>
          /\ rotation[r].kid # fallback'
          /\ \A g \in Fetches : fetch'[g] # None => fetch'[g].kid # rotation[r].kid
    <2>1. CASE CertsMiss(f)
      BY <2>1, FreshFacts DEF CertsMiss, TypeOK, KidsUnpublished
    <2>2. CASE CertsSave(f)
      BY <2>2 DEF CertsSave, TypeOK, KidsUnpublished
    <2>3. CASE CertsFails(f)
      BY <2>3 DEF CertsFails, TypeOK, KidsUnpublished
    <2> QED
      BY <2>1, <2>2, <2>3
  <1>3. KidsUnpublished'
    BY <1>1, <1>2 DEF KidsUnpublished, Running
  <1> QED
    BY <1>1, <1>3
    DEF SigningKeyStored, BasesSound, RunsStored, Clock, NothingWithoutMeta,
        ReplacedKeyFades, Running

\* The entry a run publishes: its own kid, before the newest of its base.
LEMMA RotatedFacts ==
  ASSUME NEW k \in Kids, NEW b \in Entry \cup {None}, k \notin Referred(b),
         b # None => HasMeta(b) /\ Sound(b),
         NEW e, e = Rotated(k, b)
  PROVE  /\ e \in Entry /\ HasMeta(e) /\ Sound(e)
         /\ e.meta[1] = k
         /\ e.ttl = JwksTtl
         /\ k \in Elements(e.meta)
         /\ Elements(e.meta) \subseteq {k} \cup Referred(b)
         /\ HasMeta(b) => b.meta[1] \in Elements(e.meta)
         /\ Elements(e.meta) \subseteq {k} \cup (IF HasMeta(b) THEN Elements(b.meta) ELSE {})
         /\ Len(e.meta) = 2 => e.meta[2] \in Kids
         /\ Referred(e) \subseteq {k} \cup Referred(b)
  <1>1. e \in Entry /\ HasMeta(e)
    BY RotatedType
  <1>2. <<>> \in Active
    BY DEF Active
  <1>3. e.ttl = JwksTtl
    BY DEF Rotated, PublishTtl
  <1>4. CASE b = None
    <2>1. e.keys = Prepended(k, <<>>) /\ e.meta = Prepended(k, <<>>)
      BY <1>4 DEF Rotated
    <2>2. Elements(e.meta) = {k} /\ Len(e.meta) = 1 /\ e.meta[1] = k /\ e.meta # <<>>
      BY <1>2, <2>1, PrependedCases
    <2> QED
      BY <1>1, <1>3, <1>4, <2>1, <2>2 DEF Sound, HasMeta, Referred
  <1>5. CASE b # None
    <2>1. b.meta \in Active /\ b.meta # <<>> /\ b.keys = b.meta
      BY <1>5, MetaFacts DEF Sound
    <2>2. b.meta[1] \in Kids /\ b.meta[1] \in Elements(b.meta)
      BY <2>1, ActiveCases
    <2>3. e.keys = Prepended(k, b.meta) /\ e.meta = Prepended(k, b.meta)
      BY <1>5, <2>1 DEF Rotated
    <2>4. /\ Elements(e.meta) = {k, b.meta[1]}
          /\ Len(e.meta) = 2 /\ e.meta[1] = k /\ e.meta[2] = b.meta[1]
          /\ e.meta # <<>>
      BY <2>1, <2>3, PrependedCases
    <2>5. Elements(b.meta) \subseteq Referred(b)
      BY <1>5, MetaFacts
    <2>6. Sound(e)
      BY <2>2, <2>3, <2>4, <2>5 DEF Sound
    <2>7. Referred(e) = Elements(e.meta)
      BY <1>1, <2>3 DEF Referred, HasMeta
    <2> QED
      BY <1>1, <1>3, <1>5, <2>2, <2>4, <2>5, <2>6, <2>7
  <1> QED
    BY <1>4, <1>5

LEMMA PublishIInv ==
  ASSUME IInv, NEW r \in Rotations, Publish(r)
  PROVE  IInv'
  <1> DEFINE k == rotation[r].kid
             b == rotation[r].base
  <1> USE DEF IInv
  <1>1. /\ Running(r)
        /\ rotation[r].saved
        /\ jwks' = Rotated(k, b)
        /\ age' = [age EXCEPT ![k] = 0]
        /\ clobbered' = (clobbered \/ jwks # b)
        /\ rotation' = [rotation EXCEPT ![r] = None]
        /\ misses' = 0
        /\ UNCHANGED <<stored, fallback, validFor, fetch, signing>>
    BY DEF Publish, MayPublish, Running
  <1>2. /\ k \in Kids /\ b \in Entry \cup {None}
        /\ k \notin Referred(b)
        /\ b # None => HasMeta(b) /\ Sound(b)
    BY <1>1, RunType DEF KidsUnpublished, BasesSound
  <1> HIDE DEF k, b
  <1>3. /\ jwks' \in Entry /\ HasMeta(jwks') /\ Sound(jwks')
        /\ jwks'.meta[1] = k
        /\ jwks'.ttl = JwksTtl
        /\ Elements(jwks'.meta) \subseteq {k} \cup Referred(b)
        /\ HasMeta(b) => b.meta[1] \in Elements(jwks'.meta)
        /\ Elements(jwks'.meta)
             \subseteq {k} \cup (IF HasMeta(b) THEN Elements(b.meta) ELSE {})
        /\ Len(jwks'.meta) = 2 => jwks'.meta[2] \in Kids
        /\ Referred(jwks') \subseteq {k} \cup Referred(b)
    BY <1>1, <1>2, RotatedFacts
  <1>4. /\ age'[k] = 0
        /\ \A x \in Kids : x # k => age'[x] = age[x]
        /\ \A x \in Kids : age'[x] \in 0..MaxAge
        /\ \A q \in Rotations : Running(q)' => q # r /\ Running(q) /\ rotation'[q] = rotation[q]
    BY <1>1, <1>2, KeyRotationAssumption DEF TypeOK, MaxAge, Running
  <1>5. TypeOK'
    BY <1>1, <1>2, <1>3, KeyRotationAssumption DEF TypeOK, MaxAge
  <1>6. SigningKeyStored'
    <2>1. k \in stored /\ (HasMeta(b) => Elements(b.meta) \subseteq stored)
      BY <1>1 DEF RunsStored, k, b
    <2> QED
      BY <1>1, <1>3, <2>1 DEF SigningKeyStored
  <1>7. BasesSound'
    <2> SUFFICES ASSUME NEW q \in Rotations, Running(q)', rotation'[q].base # None
                 PROVE  /\ HasMeta(rotation[q].base)
                        /\ Sound(rotation[q].base)
                        /\ \A x \in Elements(rotation[q].base.meta) : age'[x] > RotateAfter
      BY <1>4 DEF BasesSound, Sound, HasMeta
    <2>1. k \notin Referred(rotation[q].base)
      BY <1>1, <1>4 DEF KidsUnpublished, k
    <2>2. /\ HasMeta(rotation[q].base)
          /\ Sound(rotation[q].base)
          /\ \A x \in Elements(rotation[q].base.meta) : age[x] > RotateAfter
      BY <1>4 DEF BasesSound
    <2>3. Elements(rotation[q].base.meta) \subseteq Referred(rotation[q].base)
      BY <1>4, <2>2, RunType, MetaFacts
    <2>4. Elements(rotation[q].base.meta) \subseteq Kids
      BY <1>4, <2>2, RunType, MetaFacts
    <2> QED
      BY <1>4, <2>1, <2>2, <2>3, <2>4
  <1>8. KidsUnpublished'
    <2>1. ASSUME NEW q \in Rotations, Running(q), q # r
          PROVE  rotation[q].kid \notin Referred(jwks')
      <3>1. rotation[q].kid # k /\ rotation[q].kid \notin Referred(b)
        BY <1>1, <2>1 DEF KidsUnpublished, k, b
      <3> QED
        BY <1>3, <3>1
    <2>2. ASSUME NEW q \in Rotations, Running(q)'
          PROVE  /\ rotation'[q].kid \notin Referred(jwks')
                 /\ rotation'[q].kid # fallback'
                 /\ \A f \in Fetches : fetch'[f] # None => fetch'[f].kid # rotation'[q].kid
                 /\ \A p \in Rotations : Running(p)' =>
                      /\ rotation'[q].kid \notin Referred(rotation'[p].base)
                      /\ p # q => rotation'[p].kid # rotation'[q].kid
                 /\ \A s \in Signers : signing'[s] # rotation'[q].kid
      <3>1. q # r /\ Running(q) /\ rotation'[q] = rotation[q]
        BY <1>4, <2>2
      <3>2. \A p \in Rotations : Running(p)' => Running(p) /\ rotation'[p] = rotation[p]
        BY <1>4
      <3>3. UNCHANGED <<fallback, fetch, signing>>
        BY <1>1
      <3> QED
        BY <2>1, <3>1, <3>2, <3>3 DEF KidsUnpublished
    <2> QED
      BY <2>2 DEF KidsUnpublished
  <1>9. RunsStored'
    BY <1>1, <1>4 DEF RunsStored
  <1>10. Clock'
    BY <1>1, <1>3, <1>4, KeyRotationAssumption DEF Clock, MaxAge
  <1>11. NothingWithoutMeta'
    BY <1>3 DEF NothingWithoutMeta
  <1>12. ReplacedKeyFades'
    <2> SUFFICES ASSUME ~clobbered, jwks = b, HasMeta(jwks)
                 PROVE  ReplacedKeyFades'
      <3>1. CASE clobbered \/ jwks # b
        BY <1>1, <3>1 DEF ReplacedKeyFades
      <3>2. CASE ~clobbered /\ ~HasMeta(jwks)
        BY <1>1, <3>2, KeyRotationAssumption
        DEF ReplacedKeyFades, NothingWithoutMeta, TypeOK
      <3> QED
        BY <3>1, <3>2
    <2> DEFINE old == jwks.meta[1]
    <2>1. old \in Elements(jwks'.meta)
      BY <1>3
    <2>2. jwks.meta \in Active /\ jwks.meta # <<>>
      BY <1>2, MetaFacts DEF Sound
    <2>3. old \in Elements(jwks.meta) /\ old \in Kids
      BY <2>2, ActiveCases
    <2>4. age[old] \in Nat /\ age[old] > RotateAfter
      <3>1. age[old] > RotateAfter
        BY <1>1, <2>3 DEF BasesSound, b, HasMeta
      <3> QED
        BY <2>3, <3>1, KeyRotationAssumption DEF TypeOK, MaxAge
    <2>5. \A s \in Signers : signing[s] # None => signing[s] = old
      BY <2>4, KeyRotationAssumption DEF ReplacedKeyFades
    <2>6. \A x \in Kids : validFor[x] >= 0 => x = old
      BY <2>4, KeyRotationAssumption DEF ReplacedKeyFades, TypeOK
    <2>7. \A x \in Kids : validFor[x] + 0 <= TokenTtl
      BY KeyRotationAssumption DEF TypeOK
    <2> HIDE DEF old
    <2> QED
      BY <1>1, <1>3, <1>4, <2>1, <2>5, <2>6, <2>7 DEF ReplacedKeyFades
  <1> QED
    BY <1>3, <1>5, <1>6, <1>7, <1>8, <1>9, <1>10, <1>11, <1>12

LEMMA CertsCacheIInv ==
  ASSUME IInv, NEW f \in Fetches, CertsCache(f)
  PROVE  IInv'
  <1> USE DEF IInv
  <1> DEFINE k == fetch[f].kid
  <1>1. /\ fetch[f] # None
        /\ jwks' = [keys |-> <<k>>, meta |-> None, ttl |-> JwksTtl]
        /\ clobbered' = (clobbered \/ jwks # None)
        /\ fetch' = [fetch EXCEPT ![f] = None]
        /\ UNCHANGED <<stored, fallback, age, validFor, rotation, signing, misses>>
    BY DEF CertsCache
  <1>2. k \in Kids
    BY <1>1 DEF TypeOK
  <1>3. <<k>> \in Active /\ Elements(<<k>>) = {k} /\ JwksTtl \in 0..JwksTtl
    BY <1>2, KeyRotationAssumption DEF Active, Elements
  <1>4. jwks' \in Entry /\ ~HasMeta(jwks')
    BY <1>1, <1>3 DEF Entry, HasMeta
  <1>5. Referred(jwks') = {k}
    BY <1>1, <1>3, <1>4, NoneAssumption DEF Referred
  <1>6. TypeOK'
    BY <1>1, <1>4 DEF TypeOK
  <1>7. KidsUnpublished'
    <2>1. \A r \in Rotations : Running(r) => rotation[r].kid # k
      BY <1>1 DEF KidsUnpublished
    <2>2. \A g \in Fetches : fetch'[g] # None => fetch'[g] = fetch[g]
      BY <1>1 DEF TypeOK
    <2> HIDE DEF k
    <2> QED
      BY <1>1, <1>5, <2>1, <2>2 DEF KidsUnpublished, Running
  <1>8. SigningKeyStored' /\ Sound(jwks)' /\ Clock' /\ ReplacedKeyFades'
    BY <1>1, <1>4 DEF SigningKeyStored, Sound, Clock, ReplacedKeyFades
  <1>9. NothingWithoutMeta'
    BY <1>1 DEF NothingWithoutMeta, HasMeta
  <1> QED
    BY <1>1, <1>6, <1>7, <1>8, <1>9 DEF BasesSound, RunsStored, Running

LEMMA LookUpIInv ==
  ASSUME IInv, NEW s \in Signers, LookUpKey(s)
  PROVE  IInv'
  <1> USE DEF IInv
  <1>1. /\ HasMeta(jwks) /\ jwks.meta # <<>>
        /\ signing' = [signing EXCEPT ![s] = jwks.meta[1]]
        /\ UNCHANGED <<jwks, stored, fallback, age, validFor, rotation, fetch,
                       misses, clobbered>>
    BY DEF LookUpKey
  <1>2. /\ jwks.meta[1] \in Kids
        /\ jwks.meta[1] \in Elements(jwks.meta)
        /\ jwks.meta[1] \in Referred(jwks)
    BY <1>1, MetaFacts, ActiveCases DEF TypeOK
  <1>3. TypeOK'
    BY <1>1, <1>2 DEF TypeOK
  <1>4. \A q \in Signers : signing'[q] = IF q = s THEN jwks.meta[1] ELSE signing[q]
    BY <1>1 DEF TypeOK
  <1>5. SigningKeyStored'
    BY <1>1, <1>2, <1>4 DEF SigningKeyStored
  <1>6. KidsUnpublished'
    <2>1. \A r \in Rotations : Running(r) => rotation[r].kid # jwks.meta[1]
      BY <1>2 DEF KidsUnpublished
    <2> QED
      BY <1>1, <1>4, <2>1 DEF KidsUnpublished, Running
  <1>7. ReplacedKeyFades' /\ NothingWithoutMeta'
    BY <1>1, <1>2, <1>4 DEF ReplacedKeyFades, NothingWithoutMeta
  <1> QED
    BY <1>1, <1>3, <1>5, <1>6, <1>7 DEF BasesSound, RunsStored, Clock, Running

LEMMA SignIInv ==
  ASSUME IInv, NEW s \in Signers, Sign(s)
  PROVE  IInv'
  <1> USE DEF IInv
  <1> DEFINE k == signing[s]
  <1>1. /\ k # None
        /\ validFor' = [validFor EXCEPT ![k] = IF k \in stored THEN TokenTtl ELSE @]
        /\ signing' = [signing EXCEPT ![s] = None]
        /\ UNCHANGED <<jwks, stored, fallback, age, rotation, fetch, misses, clobbered>>
    BY DEF Sign
  <1>2. k \in Kids
    BY <1>1 DEF TypeOK
  <1>3. TypeOK'
    BY <1>1, <1>2, KeyRotationAssumption DEF TypeOK
  <1>4. /\ \A q \in Signers : signing'[q] # None => signing'[q] = signing[q]
        /\ \A q \in Signers : signing'[q] \in {None, signing[q]}
        /\ \A x \in Kids : validFor'[x] = validFor[x] \/ (x = k /\ validFor'[x] = TokenTtl)
    BY <1>1, <1>2 DEF TypeOK
  <1>5. SigningKeyStored'
    BY <1>1, <1>4 DEF SigningKeyStored
  <1>6. KidsUnpublished'
    <2>1. \A r \in Rotations : Running(r) => rotation[r].kid # None
      BY RunType, KeyRotationAssumption
    <2> QED
      BY <1>1, <1>4, <2>1 DEF KidsUnpublished, Running
  <1>7. NothingWithoutMeta'
    BY <1>1 DEF NothingWithoutMeta
  <1>8. ReplacedKeyFades'
    <2> SUFFICES ASSUME ~clobbered, HasMeta(jwks) PROVE ReplacedKeyFades'
      BY <1>1 DEF ReplacedKeyFades
    <2>1. k \in Elements(jwks.meta) /\ (k # jwks.meta[1] => age[jwks.meta[1]] = 0)
      BY <1>1 DEF ReplacedKeyFades
    <2> HIDE DEF k
    <2>2. ASSUME NEW x \in Kids, validFor'[x] >= 0
          PROVE  /\ x \in Elements(jwks.meta)
                 /\ x # jwks.meta[1] => validFor'[x] + age[jwks.meta[1]] <= TokenTtl
      BY <1>4, <2>1, <2>2, KeyRotationAssumption DEF ReplacedKeyFades
    <2>3. ASSUME NEW q \in Signers, signing'[q] # None
          PROVE  /\ signing'[q] \in Elements(jwks.meta)
                 /\ signing'[q] # jwks.meta[1] => age[jwks.meta[1]] = 0
      BY <1>4, <2>3 DEF ReplacedKeyFades
    <2> QED
      BY <1>1, <2>2, <2>3 DEF ReplacedKeyFades
  <1> QED
    BY <1>1, <1>3, <1>5, <1>6, <1>7, <1>8 DEF BasesSound, RunsStored, Clock, Running

LEMMA TickIInv ==
  ASSUME IInv, Tick
  PROVE  IInv'
  <1> USE DEF IInv
  <1>1. /\ \A r \in Rotations : ~Running(r)
        /\ \A f \in Fetches : fetch[f] = None
        /\ \A s \in Signers : signing[s] = None
        /\ misses < MaxMisses
        /\ misses' = misses + 1
        /\ jwks' = Aged(jwks)
        /\ age' = [k \in Kids |-> IF age[k] < MaxAge THEN age[k] + 1 ELSE age[k]]
        /\ validFor' = [k \in Kids |->
                          IF validFor[k] >= 0 THEN validFor[k] - 1 ELSE validFor[k]]
        /\ UNCHANGED <<stored, fallback, rotation, fetch, signing, clobbered>>
    BY DEF Tick, Quiet, Running
  <1>2. /\ jwks' \in Entry \cup {None}
        /\ jwks \in Entry /\ jwks.ttl > 0 =>
             /\ jwks' \in Entry
             /\ jwks' = [keys |-> jwks.keys, meta |-> jwks.meta, ttl |-> jwks.ttl - 1]
    <2>1. CASE jwks \in Entry /\ jwks.ttl > 0
      <3>1. /\ jwks # None /\ jwks.ttl # 0
            /\ jwks.keys \in Active /\ jwks.meta \in Active \cup {None}
            /\ jwks.ttl - 1 \in 0..JwksTtl
        BY <2>1, NoneAssumption, KeyRotationAssumption DEF Entry
      <3>2. jwks' = [keys |-> jwks.keys, meta |-> jwks.meta, ttl |-> jwks.ttl - 1]
        BY <1>1, <3>1 DEF Aged
      <3>3. jwks' \in Entry
        BY <3>1, <3>2 DEF Entry
      <3> QED
        BY <3>2, <3>3
    <2>2. CASE ~(jwks \in Entry /\ jwks.ttl > 0)
      <3>1. jwks = None \/ jwks.ttl = 0
        BY <2>2, KeyRotationAssumption DEF TypeOK, Entry
      <3> QED
        BY <1>1, <2>2, <3>1 DEF Aged
    <2> QED
      BY <2>1, <2>2
  <1>3. misses' \in 0..MaxMisses
    BY <1>1, KeyRotationAssumption DEF TypeOK
  <1>4. age' \in [Kids -> 0..MaxAge]
    BY <1>1, KeyRotationAssumption DEF TypeOK, MaxAge
  <1>5. validFor' \in [Kids -> -1..TokenTtl]
    BY <1>1, KeyRotationAssumption DEF TypeOK
  <1>6. TypeOK'
    BY <1>1, <1>2, <1>3, <1>4, <1>5 DEF TypeOK
  <1>7. BasesSound' /\ KidsUnpublished' /\ RunsStored'
    BY <1>1 DEF BasesSound, KidsUnpublished, RunsStored, Running
  <1>8. \A k \in Kids : validFor'[k] >= 0 => validFor[k] >= 0 /\ validFor'[k] = validFor[k] - 1
    BY <1>1, KeyRotationAssumption DEF TypeOK
  <1>9. CASE HasMeta(jwks)
    <2>1. /\ jwks \in Entry /\ jwks.meta \in Active /\ jwks.meta # <<>>
          /\ jwks.ttl \in 0..JwksTtl
      BY <1>9, MetaFacts DEF Sound, TypeOK
    <2>2. /\ jwks.meta[1] \in Kids
          /\ Len(jwks.meta) = 2 => jwks.meta[2] \in Kids
      BY <2>1, ActiveCases
    <2>3. /\ age[jwks.meta[1]] <= RotateAfter + misses
          /\ age[jwks.meta[1]] + jwks.ttl >= JwksTtl
          /\ age[jwks.meta[1]] \in 0..MaxAge
      BY <1>9, <2>2 DEF Clock, TypeOK
    <2>4. age'[jwks.meta[1]] = age[jwks.meta[1]] + 1
      BY <1>1, <2>2, <2>3, KeyRotationAssumption DEF TypeOK, MaxAge
    <2>5. jwks.ttl > 0
      BY <1>1, <2>1, <2>3, KeyRotationAssumption DEF TypeOK, MaxAge
    <2>6. /\ jwks' \in Entry /\ jwks' # None
          /\ jwks'.keys = jwks.keys /\ jwks'.meta = jwks.meta
          /\ jwks'.ttl = jwks.ttl - 1
      BY <1>2, <2>1, <2>5, NoneAssumption
    <2>7. HasMeta(jwks') /\ Sound(jwks')
      BY <1>9, <2>6 DEF HasMeta, Sound
    <2>8. SigningKeyStored'
      BY <1>1, <1>9, <2>6 DEF SigningKeyStored
    <2>9. Clock'
      <3>1. Len(jwks.meta) = 2 => age'[jwks.meta[1]] <= age'[jwks.meta[2]]
        BY <1>1, <1>9, <2>2, KeyRotationAssumption DEF Clock, TypeOK, MaxAge
      <3>2. age'[jwks.meta[1]] <= RotateAfter + misses'
        BY <1>1, <2>3, <2>4, KeyRotationAssumption DEF TypeOK
      <3>3. age'[jwks.meta[1]] + (jwks.ttl - 1) >= JwksTtl
        BY <2>1, <2>3, <2>4, KeyRotationAssumption
      <3> QED
        BY <2>6, <3>1, <3>2, <3>3 DEF Clock
    <2>10. ReplacedKeyFades'
      <3>1. ASSUME NEW k \in Kids, validFor'[k] >= 0, ~clobbered
            PROVE  /\ k \in Elements(jwks.meta)
                   /\ k # jwks.meta[1] => validFor'[k] + age'[jwks.meta[1]] <= TokenTtl
        BY <1>8, <1>9, <2>3, <2>4, <3>1, KeyRotationAssumption
        DEF ReplacedKeyFades, TypeOK, MaxAge
      <3> QED
        BY <1>1, <2>6, <3>1 DEF ReplacedKeyFades
    <2> QED
      BY <1>6, <1>7, <2>7, <2>8, <2>9, <2>10 DEF NothingWithoutMeta
  <1>10. CASE ~HasMeta(jwks)
    <2>1. ~HasMeta(jwks')
      BY <1>1, <1>10 DEF HasMeta, Aged, TypeOK, Entry
    <2>2. NothingWithoutMeta'
      BY <1>1, <1>8, <1>10, KeyRotationAssumption DEF NothingWithoutMeta, TypeOK
    <2> QED
      BY <1>1, <1>6, <1>7, <2>1, <2>2
      DEF SigningKeyStored, Sound, Clock, ReplacedKeyFades
  <1> QED
    BY <1>9, <1>10
-----------------------------------------------------------------------------
\* Every step of rotations, certs requests, signers and time keeps IInv.
THEOREM Invariance == IInv /\ [Next]_vars => IInv'
  <1> SUFFICES ASSUME IInv, [Next]_vars PROVE IInv'
    OBVIOUS
  <1>1. ASSUME NEW r \in Rotations,
               \/ RotationSkips(r) \/ RotationStarts(r) \/ SavePrivateKey(r)
               \/ Publish(r) \/ RotationFails(r)
        PROVE  IInv'
    BY <1>1, SkipsIInv, StartsIInv, SaveIInv, PublishIInv, FailsIInv
  <1>2. ASSUME NEW f \in Fetches,
               CertsMiss(f) \/ CertsSave(f) \/ CertsCache(f) \/ CertsFails(f)
        PROVE  IInv'
    BY <1>2, CertsIInv, CertsCacheIInv
  <1>3. ASSUME NEW s \in Signers, LookUpKey(s) \/ Sign(s) PROVE IInv'
    BY <1>3, LookUpIInv, SignIInv
  <1>4. CASE Tick
    BY <1>4, TickIInv
  <1>5. CASE UNCHANGED vars
    BY <1>5
    DEF vars, IInv, TypeOK, SigningKeyStored, BasesSound, KidsUnpublished,
        RunsStored, Clock, NothingWithoutMeta, ReplacedKeyFades, Running
  <1> QED
    BY <1>1, <1>2, <1>3, <1>4, <1>5 DEF Next

LEMMA AlwaysIInv == Spec => []IInv
  <1> QED
    BY InitIInv, Invariance, PTL DEF Spec
-----------------------------------------------------------------------------
\* Type correctness of the shared entry, the bucket and the requests in flight:
\* in particular an entry never lists more than two keys.
THEOREM TypeCorrect == Spec => []TypeOK
  <1>1. IInv => TypeOK
    BY DEF IInv
  <1> QED
    BY <1>1, AlwaysIInv, PTL

\* Whatever overlaps and wherever it is cut off, the private key of a kid a
\* signer may be given is in R2: getSigningKey never meets a missing key.
THEOREM SignersFindTheirKey == Spec => []SigningKeyStored
  <1>1. IInv => SigningKeyStored
    BY DEF IInv
  <1> QED
    BY <1>1, AlwaysIInv, PTL

\* The current key is never older than the threshold and the missed hours.
THEOREM RotationIsTimely == Spec => []KeysRotateInTime
  <1>1. IInv => KeysRotateInTime
    <2> SUFFICES ASSUME IInv, HasMeta(jwks)
                 PROVE  age[jwks.meta[1]] <= RotateAfter + MaxMisses
      BY DEF KeysRotateInTime
    <2>1. jwks.meta \in Active /\ jwks.meta # <<>>
      BY MetaFacts DEF IInv, TypeOK, Sound
    <2>2. jwks.meta[1] \in Kids
      BY <2>1, ActiveCases
    <2>3. age[jwks.meta[1]] <= RotateAfter + misses
      BY DEF IInv, Clock
    <2> QED
      BY <2>2, <2>3, KeyRotationAssumption DEF IInv, TypeOK, MaxAge
  <1> QED
    BY <1>1, AlwaysIInv, PTL

\* An id_token verifies as long as it is valid, over any number of rotations,
\* while no two writers of jwks:current overlap.
THEOREM RotationIsGraceful == Spec => []GracefulRotation
  <1>1. IInv => GracefulRotation
    <2> SUFFICES ASSUME IInv, ~clobbered, NEW k \in Kids, validFor[k] >= 0
                 PROVE  jwks # None /\ k \in Elements(jwks.keys)
      BY DEF GracefulRotation, ValidTokensVerify
    <2>1. HasMeta(jwks)
      BY KeyRotationAssumption DEF IInv, NothingWithoutMeta, TypeOK
    <2>2. k \in Elements(jwks.meta) /\ jwks.keys = jwks.meta
      BY <2>1 DEF IInv, ReplacedKeyFades, Sound
    <2> QED
      BY <2>1, <2>2 DEF HasMeta
  <1> QED
    BY <1>1, AlwaysIInv, PTL

\* Keys that can sign neither expire in KV while the cron recovers within
\* MaxMisses ticks, nor give way to an entry without metadata.
THEOREM SigningKeysSurvive == Spec => KeysSurvive
  <1>1. IInv /\ [Next]_vars
          => [HasMeta(jwks) => jwks' # None /\ (clobbered' \/ HasMeta(jwks'))]_vars
    <2> SUFFICES ASSUME IInv, Next, HasMeta(jwks)
                 PROVE  jwks' # None /\ (clobbered' \/ HasMeta(jwks'))
      OBVIOUS
    <2>1. CASE UNCHANGED jwks
      BY <2>1 DEF HasMeta
    <2>2. ASSUME NEW r \in Rotations, Publish(r)
          PROVE  HasMeta(jwks')
      <3>1. Running(r) /\ jwks' = Rotated(rotation[r].kid, rotation[r].base)
        BY <2>2 DEF Publish, MayPublish, Running
      <3>2. rotation[r].base # None => HasMeta(rotation[r].base)
        BY <3>1 DEF IInv, BasesSound
      <3> QED
        BY <3>1, <3>2, RunType, RotatedType DEF IInv
    <2>3. ASSUME NEW f \in Fetches, CertsCache(f)
          PROVE  jwks' # None /\ clobbered'
      <3>2. /\ fetch[f] # None
            /\ jwks' = [keys |-> <<fetch[f].kid>>, meta |-> None, ttl |-> JwksTtl]
        BY <2>3 DEF CertsCache
      <3>3. <<fetch[f].kid>> \in Active /\ JwksTtl \in 0..JwksTtl
        BY <3>2, KeyRotationAssumption DEF IInv, TypeOK, Active
      <3>4. jwks' \in Entry
        BY <3>2, <3>3 DEF Entry
      <3> QED
        BY <2>3, <3>4, NoneAssumption DEF CertsCache, HasMeta
    <2>4. CASE Tick
      <3>2. jwks \in Entry /\ jwks.ttl > 0
        <4>1. /\ jwks \in Entry /\ jwks.ttl \in 0..JwksTtl
              /\ jwks.meta \in Active /\ jwks.meta # <<>>
          BY MetaFacts DEF IInv, TypeOK, Sound
        <4>2. jwks.meta[1] \in Kids
          BY <4>1, ActiveCases
        <4>3. /\ age[jwks.meta[1]] <= RotateAfter + misses
              /\ age[jwks.meta[1]] + jwks.ttl >= JwksTtl
              /\ age[jwks.meta[1]] \in 0..MaxAge
          BY <4>2 DEF IInv, Clock, TypeOK
        <4>4. misses \in 0..MaxMisses /\ misses < MaxMisses
          BY <2>4 DEF IInv, TypeOK, Tick
        <4> QED
          BY <4>1, <4>3, <4>4, KeyRotationAssumption DEF MaxAge
      <3>3. /\ jwks.keys \in Active /\ jwks.meta \in Active /\ jwks.meta # None
            /\ jwks.ttl - 1 \in 0..JwksTtl
            /\ jwks # None /\ jwks.ttl # 0
        BY <3>2, MetaFacts, NoneAssumption, KeyRotationAssumption DEF IInv, TypeOK
      <3>4. jwks' = [keys |-> jwks.keys, meta |-> jwks.meta, ttl |-> jwks.ttl - 1]
        BY <2>4, <3>3 DEF Tick, Aged
      <3>5. jwks' \in Entry
        BY <3>3, <3>4 DEF Entry
      <3> QED
        BY <3>3, <3>4, <3>5, NoneAssumption DEF HasMeta
    <2>5. ASSUME NEW r \in Rotations,
                 \/ RotationSkips(r) \/ RotationStarts(r) \/ SavePrivateKey(r)
                 \/ RotationFails(r)
          PROVE  UNCHANGED jwks
      BY <2>5 DEF RotationSkips, RotationStarts, SavePrivateKey, RotationFails
    <2>6. ASSUME NEW f \in Fetches, CertsMiss(f) \/ CertsSave(f) \/ CertsFails(f)
          PROVE  UNCHANGED jwks
      BY <2>6 DEF CertsMiss, CertsSave, CertsFails
    <2>7. ASSUME NEW s \in Signers, LookUpKey(s) \/ Sign(s)
          PROVE  UNCHANGED jwks
      BY <2>7 DEF LookUpKey, Sign
    <2>8. \A r \in Rotations : Publish(r) => jwks' # None
      BY <2>2 DEF HasMeta
    <2> QED
      BY <2>1, <2>2, <2>3, <2>4, <2>5, <2>6, <2>7, <2>8 DEF Next
  <1> QED
    BY <1>1, AlwaysIInv, PTL DEF Spec, KeysSurvive
=============================================================================
