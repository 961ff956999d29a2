----------------------------- MODULE ServicesProofs -----------------------------
(***************************************************************************)
(* Theorems about SpConfig and Migration, and about them and RiscFraud in  *)
(* one specification as MCServices puts them.                              *)
(*                                                                         *)
(* SpConfig, for any number of lookups and admin requests and any lifetime *)
(* of the copy: no lookup answers from a row replaced longer ago than that *)
(* lifetime.  Migration, for any source database, size of a batch and      *)
(* number of runs: interrupted runs, runs for one table and reruns leave   *)
(* neither orphans nor second images, and a report only of all rows.       *)
(***************************************************************************)
EXTENDS MCServices, RiscFraudProofs

(***************************************************************************)
(* The inductive invariant of service providers.                           *)
(***************************************************************************)

\* Versions are made in order, and the one in the row has not been replaced.
VersionsSound ==
  /\ config <= versions /\ cached <= versions
  /\ \A l \in Lookups : found[l] <= versions
  /\ \A v \in Versions : v > versions => outdated[v] = 0
  /\ config # NoVersion => outdated[config] = 0

\* What a copy has been out of date and what it has left are no more than its
\* lifetime: it was put with a version that was in the row a moment before.
CopyYoung ==
  cached # NoVersion => ttl > 0 /\ outdated[cached] + ttl <= CacheTtl

\* No tick passes between reading a row and putting it.
ReadFresh ==
  \A l \in Lookups : lookup[l] = "read" => found[l] # NoVersion /\ outdated[found[l]] = 0

\* A copy of another row has its reason.
CopyExcused ==
  cached \notin {NoVersion, config} => excused \/ \E a \in Admins : Dropping(a)

SpInv == SpTypeOK /\ VersionsSound /\ CopyYoung /\ ReadFresh /\ CopyExcused

LEMMA SpInitInv ==
  SpInit => SpInv
<1> SUFFICES ASSUME SpInit PROVE SpInv
  OBVIOUS
<1>1. SpTypeOK
  <2>1. 0 \in 0..MaxVersion /\ 0 \in 0..CacheTtl
    BY SpConfigAssumption
  <2>2. "create" \in Ops
    BY DEF Ops
  <2>3. op \in [Admins -> Ops] /\ found \in [Lookups -> Versions \cup {NoVersion}]
    BY <2>2 DEF SpInit
  <2>4. lookup \in [Lookups -> {"idle", "missed", "read"}]
    BY DEF SpInit
  <2>5. admin \in [Admins -> {"idle", "looked", "written", "stored"}]
    BY DEF SpInit
  <2>6. outdated \in [Versions -> Nat]
    BY DEF SpInit
  <2>7. /\ config \in Versions \cup {NoVersion} /\ cached \in Versions \cup {NoVersion}
        /\ linked \in BOOLEAN /\ agency \in BOOLEAN /\ excused \in BOOLEAN
        /\ agencyJob \in {"idle", "written", "unlinked"}
    BY DEF SpInit
  <2>8. versions \in 0..MaxVersion /\ ttl \in 0..CacheTtl
    BY <2>1 DEF SpInit
  <2> QED
    BY <2>3, <2>4, <2>5, <2>6, <2>7, <2>8 DEF SpTypeOK
<1>2. VersionsSound
  BY DEF SpInit, VersionsSound, NoVersion
<1>3. CopyYoung /\ ReadFresh /\ CopyExcused
  BY DEF SpInit, CopyYoung, ReadFresh, CopyExcused
<1> QED
  BY <1>1, <1>2, <1>3 DEF SpInv

LEMMA SpTypes ==
  ASSUME SpInv
  PROVE  /\ MaxVersion \in Nat \ {0} /\ CacheTtl \in Nat \ {0}
         /\ config \in 0..MaxVersion /\ cached \in 0..MaxVersion /\ versions \in 0..MaxVersion
         /\ \A l \in Lookups : found[l] \in 0..MaxVersion
         /\ \A v \in 1..MaxVersion : outdated[v] \in Nat
         /\ ttl \in 0..CacheTtl
BY SpConfigAssumption DEF SpInv, SpTypeOK, Versions, NoVersion
-----------------------------------------------------------------------------
(***************************************************************************)
(* The steps of a lookup.                                                  *)
(***************************************************************************)

LEMMA GetStep ==
  ASSUME SpInv, NEW l \in Lookups, GetCached(l) \/ LookupFails(l)
  PROVE  SpInv'
<1>1. SpTypeOK'
  BY DEF SpInv, SpTypeOK, GetCached, LookupFails, rowVars, cacheVars, adminVars
<1>2. UNCHANGED <<config, versions, cached, ttl, admin, op, outdated, excused>>
  BY DEF GetCached, LookupFails, rowVars, cacheVars, adminVars
<1>3. /\ \A m \in Lookups : found'[m] \in {found[m], NoVersion}
      /\ \A m \in Lookups : lookup'[m] = "read" => lookup[m] = "read" /\ found'[m] = found[m]
  BY DEF SpInv, SpTypeOK, GetCached, LookupFails
<1>4. VersionsSound'
  BY <1>2, <1>3, SpTypes DEF SpInv, VersionsSound, NoVersion
<1>5. CopyYoung' /\ CopyExcused'
  BY <1>2 DEF SpInv, CopyYoung, CopyExcused, Dropping
<1>6. ReadFresh'
  BY <1>2, <1>3 DEF SpInv, ReadFresh
<1> QED
  BY <1>1, <1>4, <1>5, <1>6 DEF SpInv

LEMMA ReadRowStep ==
  ASSUME SpInv, NEW l \in Lookups, ReadRow(l)
  PROVE  SpInv'
<1>1. SpTypeOK'
  BY DEF SpInv, SpTypeOK, ReadRow, rowVars, cacheVars, adminVars
<1>2. UNCHANGED <<config, versions, cached, ttl, admin, op, outdated, excused>>
  BY DEF ReadRow, rowVars, cacheVars, adminVars
<1>3. /\ found'[l] = config /\ (lookup'[l] = "read" => config # NoVersion)
      /\ \A m \in Lookups \ {l} : found'[m] = found[m] /\ lookup'[m] = lookup[m]
  BY DEF SpInv, SpTypeOK, ReadRow
<1>4. VersionsSound'
  BY <1>2, <1>3 DEF SpInv, VersionsSound
<1>5. CopyYoung' /\ CopyExcused'
  BY <1>2 DEF SpInv, CopyYoung, CopyExcused, Dropping
<1>6. ReadFresh'
  BY <1>2, <1>3 DEF SpInv, ReadFresh, VersionsSound
<1> QED
  BY <1>1, <1>4, <1>5, <1>6 DEF SpInv

LEMMA PutCopyStep ==
  ASSUME SpInv, NEW l \in Lookups, PutCached(l)
  PROVE  SpInv'
<1>1. CacheTtl \in 0..CacheTtl
  BY SpTypes
<1>2. SpTypeOK'
  BY <1>1 DEF SpInv, SpTypeOK, PutCached, rowVars, adminVars
<1>3. UNCHANGED <<config, versions, admin, op, outdated>>
  BY DEF PutCached, rowVars, adminVars
<1>4. /\ found'[l] = NoVersion /\ lookup'[l] = "idle"
      /\ \A m \in Lookups \ {l} : found'[m] = found[m] /\ lookup'[m] = lookup[m]
      /\ cached' = found[l] /\ ttl' = CacheTtl /\ excused' = (found[l] # config)
  BY DEF SpInv, SpTypeOK, PutCached
<1>5. found[l] # NoVersion /\ outdated[found[l]] = 0
  BY DEF SpInv, ReadFresh, PutCached
<1>6. VersionsSound'
  BY <1>3, <1>4, SpTypes DEF SpInv, VersionsSound, NoVersion
<1>7. CopyYoung'
  BY <1>3, <1>4, <1>5, SpTypes DEF CopyYoung
<1>8. ReadFresh' /\ CopyExcused'
  BY <1>3, <1>4 DEF SpInv, ReadFresh, CopyExcused
<1> QED
  BY <1>2, <1>6, <1>7, <1>8 DEF SpInv
-----------------------------------------------------------------------------
(***************************************************************************)
(* The steps of an admin request and of agency-admin.                      *)
(***************************************************************************)

\* The row changes: a version is made, the row goes, or nothing.
LEMMA RowStep ==
  ASSUME SpInv, SpTypeOK',
         \/ NewVersion
         \/ config' \in {config, NoVersion} /\ versions' = versions,
         CopyExcused',
         UNCHANGED <<cached, ttl, lookup, found, outdated>>
  PROVE  SpInv'
<1>1. CASE NewVersion
  <2>1. VersionsSound'
    BY <1>1, SpTypes DEF SpInv, VersionsSound, NewVersion, Versions, NoVersion
  <2>2. CopyYoung' /\ ReadFresh'
    BY DEF SpInv, CopyYoung, ReadFresh
  <2> QED
    BY <2>1, <2>2 DEF SpInv
<1>2. CASE config' \in {config, NoVersion} /\ versions' = versions
  <2>1. VersionsSound'
    BY <1>2, SpTypes DEF SpInv, VersionsSound, NoVersion
  <2>2. CopyYoung' /\ ReadFresh'
    BY DEF SpInv, CopyYoung, ReadFresh
  <2> QED
    BY <2>1, <2>2 DEF SpInv
<1> QED
  BY <1>1, <1>2

LEMMA NewVersionType ==
  ASSUME SpInv, NewVersion
  PROVE  config' \in Versions \cup {NoVersion} /\ versions' \in 0..MaxVersion
BY SpTypes DEF NewVersion, Versions

LEMMA LookSpStep ==
  ASSUME SpInv, NEW a \in Admins, NEW o \in Ops, LookSp(a, o)
  PROVE  SpInv'
<1>1. SpTypeOK'
  BY DEF SpInv, SpTypeOK, LookSp, rowVars, cacheVars, lookupVars
<1>2. \A b \in Admins : Dropping(b) => Dropping(b)'
  BY DEF SpInv, SpTypeOK, LookSp, Dropping
<1>3. UNCHANGED <<config, versions, cached, ttl, lookup, found, outdated, excused>>
  BY DEF LookSp, rowVars, cacheVars, lookupVars
<1>4. CopyExcused'
  BY <1>2, <1>3 DEF SpInv, CopyExcused
<1> QED
  BY <1>1, <1>3, <1>4, RowStep

LEMMA InsertSpStep ==
  ASSUME SpInv, NEW a \in Admins, InsertSp(a)
  PROVE  SpInv'
<1>1. SpTypeOK'
  BY NewVersionType DEF SpInv, SpTypeOK, InsertSp, Step, cacheVars, lookupVars
<1>2. \A b \in Admins : Dropping(b) => Dropping(b)'
  BY DEF SpInv, SpTypeOK, InsertSp, Step, Dropping
<1>3. /\ UNCHANGED <<cached, ttl, lookup, found, outdated, excused>>
      /\ config = NoVersion /\ NewVersion
  BY DEF InsertSp, cacheVars, lookupVars
<1>4. CopyExcused'
  BY <1>2, <1>3 DEF SpInv, CopyExcused
<1> QED
  BY <1>1, <1>3, <1>4, RowStep

LEMMA ChangeSpStep ==
  ASSUME SpInv, NEW a \in Admins, UpdateSp(a) \/ DeleteSp(a)
  PROVE  SpInv'
<1>1. SpTypeOK'
  BY NewVersionType DEF SpInv, SpTypeOK, UpdateSp, DeleteSp, Step, cacheVars, lookupVars
<1>2. Dropping(a)'
  BY DEF SpInv, SpTypeOK, UpdateSp, DeleteSp, Step, Dropping
<1>3. /\ UNCHANGED <<cached, ttl, lookup, found, outdated, excused>>
      /\ \/ NewVersion
         \/ config' \in {config, NoVersion} /\ versions' = versions
  BY DEF UpdateSp, DeleteSp, cacheVars, lookupVars
<1>4. CopyExcused'
  BY <1>2 DEF CopyExcused
<1> QED
  BY <1>1, <1>3, <1>4, RowStep

LEMMA StoreCertStep ==
  ASSUME SpInv, NEW a \in Admins, StoreCert(a)
  PROVE  SpInv'
<1>1. SpTypeOK'
  BY DEF SpInv, SpTypeOK, StoreCert, Step, rowVars, cacheVars, lookupVars
<1>2. \A b \in Admins : Dropping(b) => Dropping(b)'
  BY DEF SpInv, SpTypeOK, StoreCert, Step, Dropping
<1>3. UNCHANGED <<config, versions, cached, ttl, lookup, found, outdated, excused>>
  BY DEF StoreCert, rowVars, cacheVars, lookupVars
<1>4. CopyExcused'
  BY <1>2, <1>3 DEF SpInv, CopyExcused
<1> QED
  BY <1>1, <1>3, <1>4, RowStep

LEMMA DropStep ==
  ASSUME SpInv, NEW a \in Admins, DropCached(a)
  PROVE  SpInv'
<1>1. SpTypeOK'
  <2>1. 0 \in 0..CacheTtl
    BY SpConfigAssumption
  <2>2. admin' \in [Admins -> {"idle", "looked", "written", "stored"}] /\ op' = op
    BY DEF SpInv, SpTypeOK, DropCached, Step
  <2>3. cached' = NoVersion /\ ttl' = 0 /\ excused' = FALSE
    BY DEF DropCached
  <2>4. UNCHANGED <<config, versions, linked, agency, lookup, found, agencyJob, outdated>>
    BY DEF DropCached, rowVars, lookupVars
  <2> QED
    BY <2>1, <2>2, <2>3, <2>4 DEF SpInv, SpTypeOK
<1>2. cached' = NoVersion /\ UNCHANGED <<config, versions, lookup, found, outdated>>
  BY DEF DropCached, rowVars, lookupVars
<1>3. VersionsSound'
  BY <1>2, SpTypes DEF SpInv, VersionsSound, NoVersion
<1>4. CopyYoung' /\ ReadFresh' /\ CopyExcused'
  BY <1>2 DEF SpInv, CopyYoung, ReadFresh, CopyExcused
<1> QED
  BY <1>1, <1>3, <1>4 DEF SpInv

LEMMA AdminFailsStep ==
  ASSUME SpInv, NEW a \in Admins, AdminFails(a)
  PROVE  SpInv'
<1>1. SpTypeOK'
  BY DEF SpInv, SpTypeOK, AdminFails, Step, rowVars, cacheVars, lookupVars
<1>2. \A b \in Admins \ {a} : Dropping(b) => Dropping(b)'
  BY DEF SpInv, SpTypeOK, AdminFails, Step, Dropping
<1>3. UNCHANGED <<config, versions, cached, ttl, lookup, found, outdated>>
  BY DEF AdminFails, rowVars, cacheVars, lookupVars
<1>4. (excused => excused') /\ (Dropping(a) /\ cached # NoVersion => excused')
  BY DEF AdminFails
<1>5. ASSUME cached \notin {NoVersion, config}
      PROVE  excused' \/ \E b \in Admins : Dropping(b)'
  <2>1. excused \/ \E b \in Admins : Dropping(b)
    BY <1>5 DEF SpInv, CopyExcused
  <2>2. CASE excused
    BY <2>2, <1>4
  <2>3. ASSUME NEW b \in Admins, Dropping(b)
        PROVE  excused' \/ \E c \in Admins : Dropping(c)'
    <3>1. CASE b = a
      BY <3>1, <2>3, <1>4, <1>5
    <3>2. CASE b # a
      BY <3>2, <2>3, <1>2
    <3> QED
      BY <3>1, <3>2
  <2> QED
    BY <2>1, <2>2, <2>3
<1>6. CopyExcused'
  BY <1>3, <1>5 DEF CopyExcused, NoVersion
<1> QED
  BY <1>1, <1>3, <1>6, RowStep

LEMMA AgencyStep ==
  ASSUME SpInv, WriteAgency \/ SyncSp \/ UnlinkSp \/ DeleteAgency \/ AgencyEnds
  PROVE  SpInv'
<1>1. SpTypeOK'
  BY NewVersionType
     DEF SpInv, SpTypeOK, WriteAgency, SyncSp, UnlinkSp, DeleteAgency, AgencyEnds, rowVars,
         cacheVars, lookupVars, adminVars
<1>2. UNCHANGED <<cached, ttl, lookup, found, admin, op, outdated>>
  BY DEF WriteAgency, SyncSp, UnlinkSp, DeleteAgency, AgencyEnds, cacheVars, lookupVars,
         adminVars
<1>3. \/ NewVersion
      \/ config' \in {config, NoVersion} /\ versions' = versions
  BY DEF WriteAgency, SyncSp, UnlinkSp, DeleteAgency, AgencyEnds, rowVars
<1>4. \/ config' = config /\ excused' = excused
      \/ excused' = (excused \/ cached # NoVersion)
      \/ config' = config /\ (excused => excused')
  BY DEF WriteAgency, SyncSp, UnlinkSp, DeleteAgency, AgencyEnds, rowVars
<1>5. CopyExcused'
  BY <1>2, <1>4 DEF SpInv, CopyExcused, Dropping
<1> QED
  BY <1>1, <1>2, <1>3, <1>5, RowStep
-----------------------------------------------------------------------------
(***************************************************************************)
(* A tick.                                                                 *)
(***************************************************************************)

LEMMA TickStep ==
  ASSUME SpInv, ConfigTick
  PROVE  SpInv'
<1>1. /\ UNCHANGED <<config, versions, lookup, found, admin, op>>
      /\ \A l \in Lookups : lookup[l] # "read"
  BY DEF ConfigTick, rowVars, lookupVars, adminVars
<1>2. /\ outdated' \in [Versions -> Nat]
      /\ \A v \in Versions :
           /\ outdated'[v] \in {outdated[v], outdated[v] + 1}
           /\ v = config \/ v > versions => outdated'[v] = outdated[v]
  BY SpTypes DEF SpInv, SpTypeOK, ConfigTick, Versions
<1>3. SpTypeOK'
  BY <1>2, SpTypes DEF SpInv, SpTypeOK, ConfigTick, rowVars, lookupVars, adminVars
<1>4. cached' \in {cached, NoVersion}
  BY DEF ConfigTick
<1>5. VersionsSound'
  BY <1>1, <1>2, <1>4, SpTypes DEF SpInv, VersionsSound, Versions, NoVersion
<1>6. cached' # NoVersion => cached' = cached /\ ttl > 1 /\ ttl' = ttl - 1 /\ excused' = excused
  BY SpTypes DEF ConfigTick, NoVersion, SpInv, SpTypeOK
<1>7. CopyYoung'
  BY <1>2, <1>6, SpTypes DEF SpInv, CopyYoung, Versions, NoVersion
<1>8. ReadFresh'
  BY <1>1 DEF ReadFresh
<1>9. CopyExcused'
  BY <1>1, <1>4, <1>6 DEF SpInv, CopyExcused, Dropping
<1> QED
  BY <1>3, <1>5, <1>7, <1>8, <1>9 DEF SpInv
-----------------------------------------------------------------------------
LEMMA SpNextInv ==
  ASSUME SpInv, [SpNext]_spVars
  PROVE  SpInv'
<1>1. CASE UNCHANGED spVars
  BY <1>1 DEF SpInv, spVars, rowVars, cacheVars, lookupVars, adminVars, SpTypeOK,
              VersionsSound, CopyYoung, ReadFresh, CopyExcused, Dropping
<1>2. CASE \E l \in Lookups : GetCached(l) \/ ReadRow(l) \/ PutCached(l) \/ LookupFails(l)
  BY <1>2, GetStep, ReadRowStep, PutCopyStep
<1>3. ASSUME NEW a \in Admins,
             \/ \E o \in Ops : LookSp(a, o)
             \/ InsertSp(a) \/ UpdateSp(a) \/ DeleteSp(a) \/ StoreCert(a)
             \/ DropCached(a) \/ AdminFails(a)
      PROVE  SpInv'
  BY <1>3, LookSpStep, InsertSpStep, ChangeSpStep, StoreCertStep, DropStep, AdminFailsStep
<1>4. CASE WriteAgency \/ SyncSp \/ UnlinkSp \/ DeleteAgency \/ AgencyEnds
  BY <1>4, AgencyStep
<1>5. CASE ConfigTick
  BY <1>5, TickStep
<1> QED
  BY <1>1, <1>2, <1>3, <1>4, <1>5 DEF SpNext

\* SpInit establishes the invariant and every step keeps it.
THEOREM SpInvariance ==
  SpSpec => []SpInv
<1>1. SpInit => SpInv
  BY SpInitInv
<1>2. SpInv /\ [SpNext]_spVars => SpInv'
  BY SpNextInv
<1> QED
  BY <1>1, <1>2, PTL DEF SpSpec

\* Rows, copies, lookups and requests keep their types.
THEOREM SpTypesHold ==
  SpSpec => []SpTypeOK
<1>1. SpInv => SpTypeOK
  BY DEF SpInv
<1> QED
  BY <1>1, SpInvariance, PTL

\* However lookups, admin requests, agency-admin and failures interleave, a
\* copy of another row than the present one has its reason, and that row was
\* replaced less than the copy's lifetime ago.
THEOREM CopiesAreYoung ==
  SpSpec => []StaleBounded
<1>1. SpInv => StaleBounded
  <2> SUFFICES ASSUME SpInv, cached \notin {NoVersion, config}
               PROVE  /\ excused \/ \E a \in Admins : Dropping(a)
                      /\ outdated[cached] < CacheTtl
    BY DEF StaleBounded
  <2>1. excused \/ \E a \in Admins : Dropping(a)
    BY DEF SpInv, CopyExcused
  <2>2. outdated[cached] < CacheTtl
    BY SpTypes DEF SpInv, CopyYoung, NoVersion
  <2> QED
    BY <2>1, <2>2
<1> QED
  BY <1>1, SpInvariance, PTL
-----------------------------------------------------------------------------
(***************************************************************************)
(* The inductive invariant of the migration.                               *)
(***************************************************************************)

Pending(t) == \E i \in 1..Len(todo) : todo[i] = t

\* A plan comes to profiles, and to phones, once.
Once(q) ==
  \A t \in Columns : \A i, j \in 1..Len(q) : q[i] = t /\ q[j] = t => i = j

\* A run fills the users before anything that refers to them; a reset clears
\* them after that.
PlanSound ==
  /\ Working => \A i \in 1..Len(todo) : todo[i] = "users" => i = 1
  /\ mode = "reset" => \A i \in 1..Len(todo) : todo[i] = "users" => i = Len(todo)
  /\ mode = "full" => Once(todo)
  /\ begun => Working /\ todo # <<>>
  /\ mode # "idle" => runs # 0

\* The map has ids of this run; only a run for all tables uses it.
IdsSound ==
  /\ \A u \in People : idMap[u] \in {NoId, <<runs, u>>}
  /\ mode = "single" =>
       \/ idMap = NoIds /\ ~Pending("users")
       \/ \A i \in 1..Len(todo) : todo[i] = "users"
  /\ mode = "full" /\ ~Pending("users") =>
       \A u \in People : idMap[u] = <<runs, u>> /\ <<runs, u>> \in UserIds

\* What is still to be written of the table at hand.
RestSound ==
  begun =>
    /\ Head(todo) \in Tables
    /\ Head(todo) = "users" =>
         /\ rest \subseteq People
         /\ \A u \in People :
              /\ idMap[u] = <<runs, u>>
              /\ u \notin rest => <<runs, u>> \in UserIds
    /\ Head(todo) \in Owned \ {"users"} => rest \subseteq Mapped(RowsIn[Head(todo)])
    /\ Head(todo) = "service_providers" => rest \subseteq RowsIn["service_providers"]

\* The image of a row, or one of a later row that was put over it.
StandsFor(t, x, r) ==
  IF t \in Columns
    THEN x.row \in RowsIn[t] /\ OwnerOf[x.row] = OwnerOf[r] /\ IdOf[r] <= IdOf[x.row]
    ELSE x.row = r

Complete(t, rows) ==
  \A r \in RowsIn[t] \ rows :
    (t \in Owned => OwnerOf[r] \in People) => \E x \in target[t] : StandsFor(t, x, r)

\* A run for all tables has filled those that are no longer to be filled.
FilledSound ==
  /\ mode = "full" =>
       \A t \in Tables :
         /\ ~Pending(t) => Complete(t, {})
         /\ begun /\ Head(todo) = t => Complete(t, rest)
  /\ mode = "reported" => \A t \in Tables : Complete(t, {})

\* The id of an image was made for the owner of its row.
ImagesSound ==
  /\ \A t \in Owned : \A x \in target[t] :
       /\ x.row \in Sources /\ OwnerOf[x.row] \in People
       /\ \E k \in 1..runs : x.id = <<k, OwnerOf[x.row]>>
  /\ \A x \in target["users"] : OwnerOf[x.row] = x.row
  /\ \A x \in target["service_providers"] : x.row = DemoSp => x.id = NoId

UniqueKept ==
  \A t \in {"users", "service_providers"} : \A x, y \in target[t] : x.row = y.row => x = y

\* A user has one profile and one phone, and those that this run put there are of
\* rows before the ones still to write.
ColumnsSound ==
  \A t \in Columns :
    /\ \A x, y \in target[t] : x.id = y.id => x = y
    /\ mode = "full" /\ Pending(t) =>
         \A x \in target[t] :
           x.id = <<runs, OwnerOf[x.row]>> =>
             begun /\ Head(todo) = t /\ \A r \in rest : IdOf[x.row] <= IdOf[r]

\* A reset has cleared what it is through with.
ClearSound ==
  mode = "reset" =>
    \A t \in Owned \ ({"users"} \cup Columns) : Pending(t) \/ target[t] = {}

MigrationInv ==
  /\ MigrationTypeOK
  /\ PlanSound /\ IdsSound /\ RestSound /\ FilledSound
  /\ ImagesSound /\ NoOrphans /\ UniqueKept /\ ClearSound /\ ColumnsSound
-----------------------------------------------------------------------------
LEMMA MigrationInitInv ==
  MigrationInit => MigrationInv
<1> SUFFICES ASSUME MigrationInit PROVE MigrationInv
  OBVIOUS
<1>1. MigrationTypeOK
  <2>1. 0 \in 0..MaxRuns
    BY MigrationAssumption
  <2>2. target \in [Tables -> SUBSET Image] /\ idMap \in [People -> Ids \cup {NoId}]
    BY DEF MigrationInit, NoIds
  <2>3. runs = 0 /\ mode = "idle" /\ todo = <<>> /\ rest = {} /\ begun = FALSE
    BY DEF MigrationInit
  <2>4. todo \in Seq(Tables \cup {"demo"})
    BY <2>3
  <2> QED
    BY <2>1, <2>2, <2>3, <2>4 DEF MigrationTypeOK
<1>2. PlanSound /\ IdsSound /\ RestSound /\ FilledSound /\ ClearSound
  BY DEF MigrationInit, PlanSound, IdsSound, RestSound, FilledSound, ClearSound, Working, NoIds
<1>3. ImagesSound /\ NoOrphans /\ UniqueKept /\ ColumnsSound
  BY DEF MigrationInit, ImagesSound, NoOrphans, UniqueKept, ColumnsSound, Tables, Owned, Columns
<1> QED
  BY <1>1, <1>2, <1>3 DEF MigrationInv

\* The tail of the plan has all of it but the table at its head.
LEMMA TailPlan ==
  ASSUME MigrationTypeOK, todo # <<>>, todo' = Tail(todo)
  PROVE  /\ todo' \in Seq(Tables \cup {"demo"})
         /\ Len(todo) \in Nat \ {0} /\ Len(todo') = Len(todo) - 1
         /\ Head(todo) = todo[1]
         /\ \A i \in 1..Len(todo') : i + 1 \in 1..Len(todo) /\ todo'[i] = todo[i + 1]
         /\ \A t : Pending(t)' => Pending(t)
         /\ \A t : Pending(t) => Pending(t)' \/ t = Head(todo)
         /\ Pending(Head(todo))
<1>1. todo \in Seq(Tables \cup {"demo"})
  BY DEF MigrationTypeOK
<1>2. /\ todo' \in Seq(Tables \cup {"demo"})
      /\ Len(todo) \in Nat \ {0} /\ Len(todo') = Len(todo) - 1
      /\ Head(todo) = todo[1]
      /\ \A i \in 1..Len(todo') : i + 1 \in 1..Len(todo) /\ todo'[i] = todo[i + 1]
  BY <1>1
<1>3. ASSUME NEW t, Pending(t)' PROVE Pending(t)
  BY <1>2, <1>3 DEF Pending
<1>4. ASSUME NEW t, Pending(t) PROVE Pending(t)' \/ t = Head(todo)
  <2>1. PICK i \in 1..Len(todo) : todo[i] = t
    BY <1>4 DEF Pending
  <2>2. CASE i = 1
    BY <2>1, <2>2, <1>2
  <2>3. CASE i # 1
    <3>1. i - 1 \in 1..Len(todo') /\ (i - 1) + 1 = i
      BY <2>3, <1>2
    <3>2. todo'[i - 1] = t
      BY <3>1, <2>1, <1>2
    <3> QED
      BY <3>1, <3>2 DEF Pending
  <2> QED
    BY <2>2, <2>3
<1>5. Pending(Head(todo))
  BY <1>2 DEF Pending
<1> QED
  BY <1>2, <1>3, <1>4, <1>5

\* At a table that refers to users, a run for all tables is through with them.
LEMMA UsersFirst ==
  ASSUME MigrationInv, NEW t, At(t), t # "users", mode = "full"
  PROVE  ~Pending("users")
<1>1. todo \in Seq(Tables \cup {"demo"}) /\ todo # <<>> /\ Head(todo) = t
  BY DEF MigrationInv, MigrationTypeOK, At
<1>2. Head(todo) = todo[1]
  BY <1>1
<1> QED
  BY <1>1, <1>2 DEF MigrationInv, PlanSound, Pending, At
-----------------------------------------------------------------------------
(***************************************************************************)
(* Starting and ending a run.                                              *)
(***************************************************************************)

LEMMA LaunchStep ==
  ASSUME MigrationInv, NEW m \in {"full", "single", "reset"},
         NEW q \in Seq(Tables \cup {"demo"}), Launch(m, q, NoIds),
         m \in {"full", "single"} => \A i \in 1..Len(q) : q[i] = "users" => i = 1,
         m = "reset" => \A i \in 1..Len(q) : q[i] = "users" => i = Len(q),
         m = "single" => \/ \A i \in 1..Len(q) : q[i] # "users"
                         \/ \A i \in 1..Len(q) : q[i] = "users",
         m = "full" => Once(q) /\ \A t \in Tables : \E i \in 1..Len(q) : q[i] = t,
         m = "reset" => \A t \in Owned \ ({"users"} \cup Columns) :
                          \E i \in 1..Len(q) : q[i] = t
  PROVE  MigrationInv'
<1>1. /\ mode' = m /\ todo' = q /\ rest' = {} /\ begun' = FALSE
      /\ idMap' = NoIds /\ target' = target /\ runs' = runs + 1 /\ runs < MaxRuns
  BY DEF Launch
<1>2. NoIds \in [People -> Ids \cup {NoId}]
  BY DEF NoIds
<1>3. MigrationTypeOK'
  <2>1. runs' \in 0..MaxRuns
    BY <1>1, MigrationAssumption DEF MigrationInv, MigrationTypeOK
  <2>2. target' \in [Tables -> SUBSET Image] /\ mode' \in {"full", "single", "reset"}
    BY <1>1 DEF MigrationInv, MigrationTypeOK
  <2> QED
    BY <1>1, <1>2, <2>1, <2>2 DEF MigrationTypeOK
<1>4. PlanSound'
  <2>1. runs' # 0
    BY <1>1 DEF MigrationInv, MigrationTypeOK
  <2> QED
    BY <1>1, <2>1 DEF PlanSound, Working, Once
<1>5. IdsSound'
  <2>1. \A u \in People : idMap'[u] = NoId
    BY <1>1 DEF NoIds
  <2>2. m = "full" => Pending("users")'
    BY <1>1 DEF Pending, Tables, Owned
  <2>3. m = "single" =>
          (~Pending("users")' \/ \A i \in 1..Len(todo') : todo'[i] = "users")
    BY <1>1 DEF Pending
  <2> QED
    BY <2>1, <2>2, <2>3, <1>1 DEF IdsSound
<1>6. RestSound'
  BY <1>1 DEF RestSound
<1>7. FilledSound'
  BY <1>1 DEF FilledSound, Pending
<1>8. ClearSound'
  BY <1>1 DEF ClearSound, Pending
<1>9. NoOrphans' /\ UniqueKept'
  BY <1>1 DEF MigrationInv, NoOrphans, UniqueKept, UserIds
<1>10. runs \in Nat /\ \A k \in 1..runs : k \in 1..runs' /\ k # runs'
  BY <1>1 DEF MigrationInv, MigrationTypeOK
<1>11. ImagesSound'
  BY <1>1, <1>10 DEF MigrationInv, ImagesSound
<1>12. ColumnsSound'
  <2>1. ASSUME NEW t \in Columns, NEW x \in target[t] PROVE x.id # <<runs', OwnerOf[x.row]>>
    <3>1. PICK k \in 1..runs : x.id = <<k, OwnerOf[x.row]>>
      BY DEF MigrationInv, ImagesSound, Owned
    <3> QED
      BY <3>1, <1>10
  <2> QED
    BY <1>1, <2>1 DEF MigrationInv, ColumnsSound
<1> QED
  BY <1>3, <1>4, <1>5, <1>6, <1>7, <1>8, <1>9, <1>11, <1>12 DEF MigrationInv

LEMMA StartFullStep ==
  ASSUME MigrationInv, StartFull
  PROVE  MigrationInv'
<1>1. Steps \in Seq(Tables \cup {"demo"}) /\ Len(Steps) = 10
  BY DEF Steps, Tables, Owned, Columns
<1>2. \A i \in 1..Len(Steps) : Steps[i] = "users" => i = 1
  BY <1>1 DEF Steps
<1>3. \A t \in Tables : \E i \in 1..Len(Steps) : Steps[i] = t
  <2>1. /\ Steps[1] = "users" /\ Steps[2] = "profiles" /\ Steps[3] = "phones"
        /\ Steps[4] = "user_emails" /\ Steps[5] = "credentials"
        /\ Steps[6] = "service_providers" /\ Steps[7] = "identity_events"
        /\ Steps[8] = "user" /\ Steps[9] = "account"
    BY DEF Steps
  <2> QED
    BY <2>1, <1>1 DEF Tables, Owned, Columns
<1>4. Once(Steps)
  <2>1. \A i \in 1..Len(Steps) :
          (Steps[i] = "profiles" => i = 2) /\ (Steps[i] = "phones" => i = 3)
    BY <1>1 DEF Steps
  <2> QED
    BY <2>1 DEF Once, Columns
<1> QED
  BY <1>1, <1>2, <1>3, <1>4, LaunchStep DEF StartFull

LEMMA StartResetStep ==
  ASSUME MigrationInv, StartReset
  PROVE  MigrationInv'
<1>1. ClearOrder \in Seq(Tables \cup {"demo"}) /\ Len(ClearOrder) = 7
  BY DEF ClearOrder, Tables, Owned, Columns
<1>2. \A i \in 1..Len(ClearOrder) : ClearOrder[i] = "users" => i = Len(ClearOrder)
  BY <1>1 DEF ClearOrder
<1>3. \A t \in Owned \ ({"users"} \cup Columns) :
        \E i \in 1..Len(ClearOrder) : ClearOrder[i] = t
  <2>1. /\ ClearOrder[1] = "account" /\ ClearOrder[2] = "identity_events"
        /\ ClearOrder[3] = "credentials" /\ ClearOrder[4] = "user_emails"
        /\ ClearOrder[6] = "user"
    BY DEF ClearOrder
  <2> QED
    BY <2>1, <1>1 DEF Owned
<1> QED
  BY <1>1, <1>2, <1>3, LaunchStep DEF StartReset

LEMMA StartSingleStep ==
  ASSUME MigrationInv, NEW q \in Singles, StartSingle(q)
  PROVE  MigrationInv'
<1>1. Launch("single", q, NoIds)
  BY DEF StartSingle, IdsOfDryRun
<1>2. /\ q \in Seq(Tables \cup {"demo"})
      /\ \A i \in 1..Len(q) : q[i] = "users" => i = 1
      /\ \/ \A i \in 1..Len(q) : q[i] # "users"
         \/ \A i \in 1..Len(q) : q[i] = "users"
  <2>1. CASE q \in {<<t>> : t \in {"users", "user_emails", "credentials", "service_providers",
                                  "identity_events", "demo"}}
    <3>1. PICK t \in Tables \cup {"demo"} : q = <<t>>
      BY <2>1 DEF Tables, Owned
    <3>2. q \in Seq(Tables \cup {"demo"}) /\ Len(q) = 1 /\ q[1] = t
      BY <3>1
    <3> QED
      BY <3>2
  <2>2. CASE q = <<"user", "account">>
    <3>1. q \in Seq(Tables \cup {"demo"}) /\ Len(q) = 2 /\ q[1] = "user" /\ q[2] = "account"
      BY <2>2 DEF Tables, Owned
    <3> QED
      BY <3>1
  <2>3. CASE q = <<"profiles", "phones">>
    <3>1. q \in Seq(Tables \cup {"demo"}) /\ Len(q) = 2 /\ q[1] = "profiles" /\ q[2] = "phones"
      BY <2>3 DEF Tables, Owned, Columns
    <3> QED
      BY <3>1
  <2> QED
    BY <2>1, <2>2, <2>3 DEF Singles
<1> QED
  BY <1>1, <1>2, LaunchStep

LEMMA EndStep ==
  ASSUME MigrationInv, End
  PROVE  MigrationInv'
<1>1. /\ mode' = "idle" /\ todo' = <<>> /\ rest' = {} /\ begun' = FALSE
      /\ idMap' = NoIds /\ target' = target /\ runs' = runs
  BY DEF End
<1>2. NoIds \in [People -> Ids \cup {NoId}] /\ <<>> \in Seq(Tables \cup {"demo"})
  BY DEF NoIds
<1>3. MigrationTypeOK'
  BY <1>1, <1>2 DEF MigrationInv, MigrationTypeOK
<1>4. \A u \in People : idMap'[u] = NoId
  BY <1>1 DEF NoIds
<1>5. PlanSound' /\ IdsSound' /\ RestSound' /\ FilledSound' /\ ClearSound'
  BY <1>1, <1>4 DEF PlanSound, IdsSound, RestSound, FilledSound, ClearSound, Working
<1>6. ImagesSound' /\ NoOrphans' /\ UniqueKept' /\ ColumnsSound'
  BY <1>1 DEF MigrationInv, ImagesSound, NoOrphans, UniqueKept, ColumnsSound, UserIds
<1> QED
  BY <1>3, <1>5, <1>6 DEF MigrationInv

-----------------------------------------------------------------------------
(***************************************************************************)
(* Reading a table.                                                        *)
(***************************************************************************)

\* What a Read leaves alone.
LEMMA ReadKeeps ==
  ASSUME MigrationInv, NEW t \in Tables, NEW rows, Read(t, rows)
  PROVE  /\ PlanSound' /\ ImagesSound' /\ NoOrphans' /\ UniqueKept' /\ ClearSound'
         /\ ColumnsSound'
<1>1. /\ todo # <<>> /\ Head(todo) = t /\ Working /\ ~begun
      /\ begun' = TRUE /\ rest' = rows
      /\ UNCHANGED <<target, runs, mode, todo>>
  BY DEF Read, At
<1>2. PlanSound' /\ ClearSound'
  BY <1>1 DEF MigrationInv, PlanSound, ClearSound, Working, Pending, Once
<1>3. ImagesSound' /\ NoOrphans' /\ UniqueKept'
  BY <1>1 DEF MigrationInv, ImagesSound, NoOrphans, UniqueKept, UserIds
<1>4. ColumnsSound'
  BY <1>1 DEF MigrationInv, ColumnsSound, Pending
<1> QED
  BY <1>2, <1>3, <1>4

LEMMA ReadStep ==
  ASSUME MigrationInv, NEW t \in Tables \ {"users"}, UNCHANGED idMap,
         NEW rows, Read(t, rows),
         rows = IF t = "service_providers" THEN RowsIn[t] ELSE Mapped(RowsIn[t])
  PROVE  MigrationInv'
<1>1. /\ todo # <<>> /\ Head(todo) = t /\ Working /\ ~begun
      /\ begun' = TRUE /\ rest' = rows
      /\ UNCHANGED <<target, runs, mode, todo, idMap>>
  BY DEF Read, At
<1>2. rows \subseteq RowsIn[t] /\ RowsIn[t] \subseteq Sources
  BY MigrationAssumption DEF Mapped
<1>3. MigrationTypeOK'
  BY <1>1, <1>2 DEF MigrationInv, MigrationTypeOK
<1>4. IdsSound'
  BY <1>1 DEF MigrationInv, IdsSound, Pending, UserIds
<1>5. RestSound'
  BY <1>1, <1>2 DEF RestSound, Mapped, Owned, Columns
<1>6. FilledSound'
  <2>1. ASSUME mode = "full" PROVE Complete(t, rows)
    <3> SUFFICES ASSUME NEW r \in RowsIn[t] \ rows, t \in Owned => OwnerOf[r] \in People
                 PROVE  FALSE
      BY DEF Complete
    <3>1. t # "service_providers"
      OBVIOUS
    <3>2. OwnerOf[r] \in People
      BY <3>1 DEF Tables
    <3>3. idMap[OwnerOf[r]] = <<runs, OwnerOf[r]>>
      <4>1. ~Pending("users")
        BY <2>1, UsersFirst DEF Read
      <4> QED
        BY <4>1, <3>2, <2>1 DEF MigrationInv, IdsSound
    <3>4. idMap[OwnerOf[r]] # NoId
      BY <3>3, <3>2, MigrationAssumption DEF NoId, People
    <3> QED
      BY <3>1, <3>2, <3>4 DEF Mapped
  <2>2. \A s \in Tables : mode = "full" /\ ~Pending(s) => Complete(s, {})
    BY DEF MigrationInv, FilledSound
  <2>3. mode # "reported"
    BY <1>1 DEF Working
  <2> QED
    BY <1>1, <2>1, <2>2, <2>3 DEF FilledSound, Complete, Pending
<1> QED
  BY <1>3, <1>4, <1>5, <1>6, ReadKeeps DEF MigrationInv

LEMMA ReadUsersStep ==
  ASSUME MigrationInv, ReadUsers
  PROVE  MigrationInv'
<1>1. /\ todo # <<>> /\ Head(todo) = "users" /\ Working /\ ~begun
      /\ begun' = TRUE /\ rest' = People
      /\ UNCHANGED <<target, runs, mode, todo>>
      /\ idMap' = [u \in People |-> <<runs, u>>]
  BY DEF ReadUsers, Read, At
<1>2. People \subseteq Sources /\ runs \in 1..MaxRuns
  <2>1. People \subseteq Sources
    BY MigrationAssumption DEF People, Tables, Owned
  <2>2. runs # 0
    BY <1>1 DEF MigrationInv, PlanSound, Working
  <2> QED
    BY <2>1, <2>2, MigrationAssumption DEF MigrationInv, MigrationTypeOK
<1>3. MigrationTypeOK'
  <2>1. idMap' \in [People -> Ids \cup {NoId}]
    BY <1>1, <1>2 DEF Ids
  <2> QED
    BY <1>1, <1>2, <2>1 DEF MigrationInv, MigrationTypeOK
<1>4. Pending("users")
  <2>1. todo \in Seq(Tables \cup {"demo"})
    BY DEF MigrationInv, MigrationTypeOK
  <2> QED
    BY <1>1, <2>1 DEF Pending
<1>5. IdsSound'
  <2>1. Pending("users")'
    BY <1>1, <1>4 DEF Pending
  <2>2. mode = "single" => \A i \in 1..Len(todo) : todo[i] = "users"
    BY <1>4 DEF MigrationInv, IdsSound
  <2> QED
    BY <1>1, <2>1, <2>2 DEF IdsSound
<1>6. RestSound'
  <2>1. Head(todo') = "users" /\ "users" \in Tables
    BY <1>1 DEF Tables, Owned
  <2>2. \A u \in People : idMap'[u] = <<runs', u>> /\ u \in rest'
    BY <1>1
  <2> QED
    BY <1>1, <2>1, <2>2 DEF RestSound
<1>7. FilledSound'
  <2>1. mode # "reported"
    BY <1>1 DEF Working
  <2>2. Complete("users", People)
    BY DEF Complete, People
  <2> QED
    BY <1>1, <2>1, <2>2 DEF MigrationInv, FilledSound, Complete, Pending
<1>8. Read("users", People) /\ "users" \in Tables
  BY DEF ReadUsers, Tables, Owned
<1> QED
  BY <1>3, <1>5, <1>6, <1>7, <1>8, ReadKeeps DEF MigrationInv
-----------------------------------------------------------------------------
(***************************************************************************)
(* Writing a batch.                                                        *)
(***************************************************************************)

\* What holds of a batch of any table.
LEMMA BatchFacts ==
  ASSUME MigrationInv, NEW t \in Tables, NEW b \in SUBSET rest, WriteBatch(t, b)
  PROVE  /\ todo \in Seq(Tables \cup {"demo"}) /\ todo # <<>>
         /\ Head(todo) = t /\ todo[1] = t /\ Pending(t)
         /\ Working /\ begun /\ rest' = rest \ b /\ ~Clash(t, b)
         /\ target' \in [Tables -> SUBSET Image]
         /\ target'[t] = Written(t, b)
         /\ \A s \in Tables \ {t} : target'[s] = target[s]
         /\ UNCHANGED <<runs, mode, todo, begun, idMap>>
         /\ MigrationTypeOK' /\ PlanSound' /\ ClearSound'
<1>1. /\ todo # <<>> /\ Head(todo) = t /\ Working /\ begun /\ rest' = rest \ b
      /\ target' = [target EXCEPT ![t] = Written(t, b)] /\ ~Clash(t, b)
      /\ UNCHANGED <<runs, mode, todo, begun, idMap>>
  BY DEF WriteBatch, At
<1>2. target \in [Tables -> SUBSET Image] /\ todo \in Seq(Tables \cup {"demo"})
  BY DEF MigrationInv, MigrationTypeOK
<1>3. todo[1] = t /\ Pending(t)
  BY <1>1, <1>2 DEF Pending
<1>4. \A r \in rest : ImageOf(r) \in Image
  <2> SUFFICES ASSUME NEW r \in rest PROVE ImageOf(r) \in Image
    OBVIOUS
  <2>1. r \in Sources \cup {DemoSp}
    BY DEF MigrationInv, MigrationTypeOK
  <2>2. \A u \in People : idMap[u] \in Ids \cup {NoId}
    BY DEF MigrationInv, MigrationTypeOK
  <2> QED
    BY <2>1, <2>2 DEF ImageOf, Image
<1>5. Written(t, b) \subseteq Image
  BY <1>2, <1>4 DEF Written
<1>6. target' \in [Tables -> SUBSET Image]
  BY <1>1, <1>2, <1>5
<1>7. /\ target'[t] = Written(t, b)
      /\ \A s \in Tables \ {t} : target'[s] = target[s]
  BY <1>1, <1>2
<1>8. MigrationTypeOK'
  BY <1>1, <1>6 DEF MigrationInv, MigrationTypeOK
<1>9. PlanSound' /\ ClearSound'
  BY <1>1 DEF MigrationInv, PlanSound, ClearSound, Working, Once
<1> QED
  BY <1>1, <1>2, <1>3, <1>6, <1>7, <1>8, <1>9

\* Once its rows are written, a batch counts as filled.
LEMMA BatchFills ==
  ASSUME MigrationInv, NEW t \in Tables, NEW b \in SUBSET rest, WriteBatch(t, b),
         \A r \in RowsIn[t] :
           r \in b \/ (\E x \in target[t] : StandsFor(t, x, r)) =>
             \E x \in target'[t] : StandsFor(t, x, r)
  PROVE  FilledSound'
<1>1. /\ Head(todo) = t /\ Working /\ begun /\ rest' = rest \ b /\ Pending(t)
      /\ \A s \in Tables \ {t} : target'[s] = target[s]
      /\ UNCHANGED <<runs, mode, todo, begun, idMap>>
  BY BatchFacts
<1>2. mode # "reported" /\ mode' # "reported"
  BY <1>1 DEF Working
<1>3. ASSUME mode = "full" PROVE Complete(t, rest)'
  <2>1. Complete(t, rest)
    BY <1>1, <1>3 DEF MigrationInv, FilledSound
  <2> QED
    BY <1>1, <2>1 DEF Complete, StandsFor
<1>4. ASSUME mode = "full", NEW s \in Tables, ~Pending(s) PROVE Complete(s, {})'
  <2>1. Complete(s, {}) /\ s # t
    BY <1>1, <1>4 DEF MigrationInv, FilledSound
  <2> QED
    BY <1>1, <2>1 DEF Complete, StandsFor
<1> QED
  BY <1>1, <1>2, <1>3, <1>4 DEF FilledSound, Pending

\* A batch of another table leaves the columns alone.
LEMMA ColumnsKept ==
  ASSUME MigrationInv, NEW t \in Tables \ Columns, NEW b \in SUBSET rest, WriteBatch(t, b)
  PROVE  ColumnsSound'
<1>1. /\ Head(todo) = t /\ UNCHANGED <<runs, mode, todo, begun>>
      /\ \A s \in Tables \ {t} : target'[s] = target[s]
  BY BatchFacts
<1>2. Columns \subseteq Tables \ {t}
  BY DEF Tables, Owned
<1> QED
  BY <1>1, <1>2 DEF MigrationInv, ColumnsSound, Pending

LEMMA WriteUsersStep ==
  ASSUME MigrationInv, NEW b \in SUBSET rest, WriteBatch("users", b)
  PROVE  MigrationInv'
<1>0. "users" \in Tables \ Columns
  BY DEF Tables, Owned, Columns
<1>1. /\ todo # <<>> /\ Head(todo) = "users" /\ Pending("users") /\ Working /\ begun
      /\ rest' = rest \ b /\ ~Clash("users", b)
      /\ target'["users"] = Written("users", b)
      /\ \A s \in Tables \ {"users"} : target'[s] = target[s]
      /\ UNCHANGED <<runs, mode, todo, begun, idMap>>
      /\ target' \in [Tables -> SUBSET Image]
      /\ MigrationTypeOK' /\ PlanSound' /\ ClearSound'
  BY <1>0, BatchFacts
<1>2. b \subseteq People /\ People \subseteq Sources
  <2>1. People \subseteq Sources
    BY MigrationAssumption DEF People, Tables, Owned
  <2> QED
    BY <1>1, <2>1 DEF MigrationInv, RestSound
<1>3. \A r \in b : OwnerOf[r] = r /\ idMap[r] = <<runs, r>>
  BY <1>1, <1>2, MigrationAssumption DEF MigrationInv, RestSound, People
<1>4. \A r \in b : ImageOf(r) = [row |-> r, id |-> <<runs, r>>]
  BY <1>2, <1>3 DEF ImageOf
<1>5. target'["users"] = target["users"] \cup {ImageOf(r) : r \in b}
  BY <1>0, <1>1 DEF Written
<1>6. runs \in 1..runs
  <2>1. runs # 0
    BY <1>1 DEF MigrationInv, PlanSound, Working
  <2> QED
    BY <2>1, MigrationAssumption DEF MigrationInv, MigrationTypeOK
<1>7. FilledSound'
  <2>1. \A r \in b : \E x \in target'["users"] : x.row = r
    BY <1>4, <1>5
  <2> QED
    BY <1>0, <1>5, <2>1, BatchFills DEF StandsFor
<1>8. (\A i \in UserIds : i \in UserIds') /\ \A r \in b : <<runs, r>> \in UserIds'
  <2>1. ASSUME NEW r \in b PROVE <<runs, r>> \in UserIds'
    <3>1. ImageOf(r) \in target'["users"] /\ ImageOf(r).id = <<runs, r>>
      BY <1>1, <1>4, <1>5
    <3> QED
      BY <3>1 DEF UserIds
  <2> QED
    BY <1>5, <2>1 DEF UserIds
<1>9. IdsSound'
  BY <1>1 DEF MigrationInv, IdsSound, Pending
<1>10. RestSound'
  BY <1>1, <1>8 DEF MigrationInv, RestSound
<1>11. ImagesSound'
  <2>1. ASSUME NEW x \in {ImageOf(r) : r \in b}
        PROVE  /\ x.row \in Sources /\ OwnerOf[x.row] \in People /\ OwnerOf[x.row] = x.row
               /\ \E k \in 1..runs : x.id = <<k, OwnerOf[x.row]>>
    <3>1. PICK r \in b : x = [row |-> r, id |-> <<runs, r>>]
      BY <1>4
    <3> QED
      BY <3>1, <1>2, <1>3, <1>6
  <2> QED
    BY <1>1, <1>5, <2>1 DEF MigrationInv, ImagesSound, Tables, Owned
<1>12. NoOrphans'
  <2>1. \A x \in target'["users"] : x.id \in UserIds'
    BY DEF UserIds
  <2> QED
    BY <1>1, <1>8, <2>1 DEF MigrationInv, NoOrphans, Tables
<1>13. UniqueKept'
  <2>1. ASSUME NEW x \in target["users"] PROVE x.row \notin b
    BY <1>1, <2>1 DEF Clash, Unique
  <2>2. ASSUME NEW x \in {ImageOf(r) : r \in b}, NEW y \in target'["users"], x.row = y.row
        PROVE  x = y
    <3>1. PICK r \in b : x = ImageOf(r) /\ x.row = r
      BY <1>4
    <3>2. y \in {ImageOf(q) : q \in b}
      BY <3>1, <2>1, <2>2, <1>5
    <3>3. PICK s \in b : y = ImageOf(s) /\ y.row = s
      BY <3>2, <1>4
    <3> QED
      BY <3>1, <3>3, <2>2
  <2>3. "service_providers" \in Tables
    BY DEF Tables
  <2> QED
    BY <1>1, <1>5, <2>2, <2>3 DEF MigrationInv, UniqueKept
<1>14. ColumnsSound'
  BY <1>0, ColumnsKept
<1> QED
  BY <1>1, <1>7, <1>9, <1>10, <1>11, <1>12, <1>13, <1>14 DEF MigrationInv

\* A batch of rows that refer to users is of a run that is through with them.
LEMMA OwnedFacts ==
  ASSUME MigrationInv, NEW t \in Owned \ {"users"}, NEW b \in SUBSET rest, b # {},
         WriteBatch(t, b)
  PROVE  /\ t \in Tables /\ mode = "full" /\ runs \in 1..runs /\ b \subseteq RowsIn[t]
         /\ \A r \in b : /\ r \in Sources /\ OwnerOf[r] \in People
                          /\ ImageOf(r) = [row |-> r, id |-> <<runs, OwnerOf[r]>>]
                          /\ <<runs, OwnerOf[r]>> \in UserIds
         /\ IdsSound' /\ RestSound' /\ UserIds' = UserIds /\ UniqueKept'
<1>0. t \in Tables /\ "users" \in Tables /\ "service_providers" \notin Owned
  BY DEF Tables, Owned, Columns
<1>1. /\ todo \in Seq(Tables \cup {"demo"})
      /\ todo # <<>> /\ Head(todo) = t /\ todo[1] = t /\ Working /\ begun
      /\ rest' = rest \ b
      /\ \A s \in Tables \ {t} : target'[s] = target[s]
      /\ UNCHANGED <<runs, mode, todo, begun, idMap>>
  BY <1>0, BatchFacts
<1>2. b \subseteq Mapped(RowsIn[t])
  BY <1>1 DEF MigrationInv, RestSound
<1>3. mode = "full"
  <2>1. PICK r \in b : OwnerOf[r] \in People /\ idMap[OwnerOf[r]] # NoId
    BY <1>2 DEF Mapped
  <2>2. idMap # NoIds
    BY <2>1 DEF NoIds
  <2>3. 1 \in 1..Len(todo) /\ todo[1] # "users"
    BY <1>1
  <2>4. mode # "single"
    BY <2>2, <2>3 DEF MigrationInv, IdsSound
  <2> QED
    BY <2>4, <1>1 DEF Working
<1>4. ~Pending("users")
  BY <1>1, <1>3, UsersFirst DEF At
<1>5. \A r \in b : /\ r \in Sources /\ OwnerOf[r] \in People
                    /\ idMap[OwnerOf[r]] = <<runs, OwnerOf[r]>>
                    /\ <<runs, OwnerOf[r]>> \in UserIds
  <2>1. RowsIn[t] \subseteq Sources
    BY <1>0, MigrationAssumption
  <2> QED
    BY <1>2, <1>3, <1>4, <2>1 DEF MigrationInv, IdsSound, Mapped
<1>6. \A r \in b : ImageOf(r) = [row |-> r, id |-> <<runs, OwnerOf[r]>>]
  BY <1>5 DEF ImageOf
<1>7. runs \in 1..runs
  <2>1. runs # 0
    BY <1>1 DEF MigrationInv, PlanSound, Working
  <2> QED
    BY <2>1, MigrationAssumption DEF MigrationInv, MigrationTypeOK
<1>8. UserIds' = UserIds
  BY <1>0, <1>1 DEF UserIds
<1>9. IdsSound'
  BY <1>1, <1>8 DEF MigrationInv, IdsSound, Pending
<1>10. RestSound'
  BY <1>0, <1>1, <1>8 DEF MigrationInv, RestSound, Mapped
<1>11. UniqueKept'
  BY <1>0, <1>1 DEF MigrationInv, UniqueKept, Tables
<1> QED
  BY <1>0, <1>2, <1>3, <1>5, <1>6, <1>7, <1>8, <1>9, <1>10, <1>11 DEF Mapped

LEMMA WriteOwnedStep ==
  ASSUME MigrationInv, NEW t \in Owned \ ({"users"} \cup Columns), NEW b \in SUBSET rest,
         b # {}, WriteBatch(t, b)
  PROVE  MigrationInv'
<1>0. t \in Tables \ Columns /\ "users" \in Tables /\ "service_providers" \notin Owned
  BY DEF Tables, Owned, Columns
<1>1. /\ target'[t] = Written(t, b)
      /\ \A s \in Tables \ {t} : target'[s] = target[s]
      /\ runs' = runs /\ MigrationTypeOK' /\ PlanSound' /\ ClearSound'
  BY <1>0, BatchFacts
<1>2. /\ runs \in 1..runs
      /\ \A r \in b : /\ r \in Sources /\ OwnerOf[r] \in People
                       /\ ImageOf(r) = [row |-> r, id |-> <<runs, OwnerOf[r]>>]
                       /\ <<runs, OwnerOf[r]>> \in UserIds
      /\ IdsSound' /\ RestSound' /\ UserIds' = UserIds /\ UniqueKept'
  BY OwnedFacts
<1>3. target'[t] = target[t] \cup {ImageOf(r) : r \in b}
  BY <1>0, <1>1 DEF Written
<1>4. FilledSound'
  <2>1. \A r \in b : \E x \in target'[t] : x.row = r
    BY <1>2, <1>3
  <2> QED
    BY <1>0, <1>3, <2>1, BatchFills DEF StandsFor
<1>5. \A x \in {ImageOf(r) : r \in b} :
        /\ x.row \in Sources /\ OwnerOf[x.row] \in People
        /\ x.id = <<runs, OwnerOf[x.row]>> /\ x.id \in UserIds
  <2> SUFFICES ASSUME NEW x, \E r \in b : x = ImageOf(r)
               PROVE  /\ x.row \in Sources /\ OwnerOf[x.row] \in People
                      /\ x.id = <<runs, OwnerOf[x.row]>> /\ x.id \in UserIds
    OBVIOUS
  <2>1. PICK r \in b : x = ImageOf(r)
    OBVIOUS
  <2>2. x = [row |-> r, id |-> <<runs, OwnerOf[r]>>]
    BY <1>2, <2>1
  <2>3. x.row = r /\ x.id = <<runs, OwnerOf[r]>>
    BY <2>2
  <2> QED
    BY <1>2, <2>3
<1>6. ImagesSound'
  BY <1>0, <1>1, <1>2, <1>3, <1>5 DEF MigrationInv, ImagesSound, Tables
<1>7. NoOrphans'
  BY <1>1, <1>2, <1>3, <1>5 DEF MigrationInv, NoOrphans, Tables
<1>8. ColumnsSound'
  BY <1>0, ColumnsKept
<1> QED
  BY <1>1, <1>2, <1>4, <1>6, <1>7, <1>8 DEF MigrationInv

\* The row that is written next is put over what this run put there for its user:
\* the image of an earlier row.
LEMMA WriteColumnStep ==
  ASSUME MigrationInv, NEW t \in Columns, NEW b \in SUBSET rest, WriteBatch(t, b)
  PROVE  MigrationInv'
<1>0. /\ t \in Owned \ {"users"} /\ t \in Tables /\ Columns \subseteq Tables
      /\ Columns \subseteq Owned /\ "service_providers" \notin Columns
  BY DEF Tables, Owned, Columns
<1>1. /\ Head(todo) = t /\ Pending(t) /\ begun /\ target'[t] = Written(t, b)
      /\ rest' = rest \ b
      /\ \A s \in Tables \ {t} : target'[s] = target[s]
      /\ UNCHANGED <<runs, mode, todo, begun>>
      /\ MigrationTypeOK' /\ PlanSound' /\ ClearSound'
  BY <1>0, BatchFacts
<1>2. PICK r \in rest : b = {r} /\ \A s \in rest : IdOf[r] <= IdOf[s]
  BY DEF WriteBatch, Batch, NextOf
<1>3. /\ mode = "full" /\ runs \in 1..runs
      /\ r \in RowsIn[t] /\ r \in Sources /\ OwnerOf[r] \in People
      /\ ImageOf(r) = [row |-> r, id |-> <<runs, OwnerOf[r]>>]
      /\ <<runs, OwnerOf[r]>> \in UserIds
      /\ IdsSound' /\ RestSound' /\ UserIds' = UserIds /\ UniqueKept'
  BY <1>0, <1>2, OwnedFacts
<1> DEFINE new == ImageOf(r)
<1>4. /\ new.row = r /\ new.id = <<runs, OwnerOf[r]>>
      /\ target'[t] = {x \in target[t] : x.id # new.id} \cup {new}
  BY <1>1, <1>2, <1>3 DEF Written
<1> HIDE DEF new
<1>5. \A x \in target[t] : \E k \in 1..runs : x.id = <<k, OwnerOf[x.row]>>
  BY <1>0 DEF MigrationInv, ImagesSound
<1>6. ASSUME NEW x \in target[t], x.id = new.id
      PROVE  OwnerOf[x.row] = OwnerOf[r] /\ IdOf[x.row] <= IdOf[r]
  <2>1. PICK k \in 1..runs : x.id = <<k, OwnerOf[x.row]>>
    BY <1>5
  <2>2. OwnerOf[x.row] = OwnerOf[r] /\ x.id = <<runs, OwnerOf[x.row]>>
    BY <2>1, <1>4, <1>6
  <2> QED
    BY <2>2, <1>1, <1>3 DEF MigrationInv, ColumnsSound
<1>7. FilledSound'
  <2>1. StandsFor(t, new, r)
    <3>1. IdOf[r] \in Nat
      BY <1>3, MigrationAssumption
    <3> QED
      BY <1>3, <1>4, <3>1 DEF StandsFor
  <2>2. ASSUME NEW q \in RowsIn[t], NEW x \in target[t], StandsFor(t, x, q)
        PROVE  \E y \in target'[t] : StandsFor(t, y, q)
    <3>1. CASE x.id = new.id
      <4>1. /\ x.row \in RowsIn[t] /\ OwnerOf[x.row] = OwnerOf[q] /\ IdOf[q] <= IdOf[x.row]
        BY <2>2 DEF StandsFor
      <4>2. RowsIn[t] \subseteq Sources
        BY <1>0, MigrationAssumption
      <4>3. IdOf[q] \in Nat /\ IdOf[x.row] \in Nat /\ IdOf[r] \in Nat
        BY <4>1, <4>2, <1>3, MigrationAssumption
      <4>4. OwnerOf[r] = OwnerOf[q] /\ IdOf[q] <= IdOf[r]
        BY <3>1, <4>1, <4>3, <1>6
      <4>5. StandsFor(t, new, q)
        BY <4>4, <1>3, <1>4 DEF StandsFor
      <4> QED
        BY <4>5, <1>4
    <3>2. CASE x.id # new.id
      BY <3>2, <2>2, <1>4
    <3> QED
      BY <3>1, <3>2
  <2> QED
    BY <1>0, <1>2, <1>4, <2>1, <2>2, BatchFills
<1>8. ImagesSound'
  <2>1. \A x \in target'[t] : x \in target[t] \/ x = new
    BY <1>4
  <2> QED
    BY <1>0, <1>1, <1>3, <1>4, <2>1 DEF MigrationInv, ImagesSound, Tables, Owned, Columns
<1>9. NoOrphans'
  <2>1. \A x \in target'[t] : x \in target[t] \/ x.id \in UserIds
    BY <1>3, <1>4
  <2> QED
    BY <1>0, <1>1, <1>3, <2>1 DEF MigrationInv, NoOrphans, Tables
<1>10. ColumnsSound'
  <2>1. \A x, y \in target'[t] : x.id = y.id => x = y
    BY <1>4 DEF MigrationInv, ColumnsSound
  <2>2. ASSUME NEW x \in target'[t], x.id = <<runs, OwnerOf[x.row]>>, NEW s \in rest'
        PROVE  IdOf[x.row] <= IdOf[s]
    <3>1. CASE x \in target[t]
      BY <3>1, <2>2, <1>1, <1>3 DEF MigrationInv, ColumnsSound
    <3>2. CASE x = new
      BY <3>2, <1>1, <1>2, <1>4
    <3> QED
      BY <3>1, <3>2, <1>4
  <2>3. \A u \in Columns \ {t} : target'[u] = target[u]
    BY <1>0, <1>1
  <2> QED
    BY <1>1, <2>1, <2>2, <2>3 DEF MigrationInv, ColumnsSound, Pending
<1> QED
  BY <1>1, <1>3, <1>7, <1>8, <1>9, <1>10 DEF MigrationInv

LEMMA WriteProvidersStep ==
  ASSUME MigrationInv, NEW b \in SUBSET rest, WriteBatch("service_providers", b)
  PROVE  MigrationInv'
<1>0. "service_providers" \in (Tables \ Owned) \ Columns /\ "users" \in Tables
  BY DEF Tables, Owned, Columns
<1>1. /\ todo # <<>> /\ Head(todo) = "service_providers" /\ Working /\ begun
      /\ rest' = rest \ b /\ ~Clash("service_providers", b)
      /\ target'["service_providers"] = Written("service_providers", b)
      /\ \A s \in Tables \ {"service_providers"} : target'[s] = target[s]
      /\ UNCHANGED <<runs, mode, todo, begun, idMap>>
      /\ MigrationTypeOK' /\ PlanSound' /\ ClearSound'
  BY <1>0, BatchFacts
<1>2. b \subseteq RowsIn["service_providers"] /\ RowsIn["service_providers"] \subseteq Sources
  BY <1>0, <1>1, MigrationAssumption DEF MigrationInv, RestSound
<1>3. target'["service_providers"] =
        target["service_providers"] \cup {ImageOf(r) : r \in b}
  BY <1>0, <1>1 DEF Written
<1>4. \A r \in b : ImageOf(r).row = r
  BY DEF ImageOf
<1>5. UserIds' = UserIds
  BY <1>0, <1>1 DEF UserIds
<1>6. FilledSound'
  <2>1. \A r \in b : \E x \in target'["service_providers"] : x.row = r
    BY <1>3, <1>4
  <2> QED
    BY <1>0, <1>3, <2>1, BatchFills DEF StandsFor
<1>7. IdsSound'
  BY <1>1, <1>5 DEF MigrationInv, IdsSound, Pending
<1>8. RestSound'
  BY <1>0, <1>1 DEF MigrationInv, RestSound
<1>9. ImagesSound'
  <2>1. \A x \in {ImageOf(r) : r \in b} : x.row # DemoSp
    BY <1>2, <1>4, MigrationAssumption
  <2> QED
    BY <1>0, <1>1, <1>3, <2>1 DEF MigrationInv, ImagesSound, Tables
<1>10. NoOrphans'
  BY <1>0, <1>1, <1>5 DEF MigrationInv, NoOrphans, Tables
<1>11. UniqueKept'
  <2>1. ASSUME NEW x \in target["service_providers"] PROVE x.row \notin b
    BY <1>1, <2>1 DEF Clash, Unique
  <2>2. ASSUME NEW x \in {ImageOf(r) : r \in b},
               NEW y \in target'["service_providers"], x.row = y.row
        PROVE  x = y
    <3>1. PICK r \in b : x = ImageOf(r) /\ x.row = r
      BY <1>4
    <3>2. y \in {ImageOf(q) : q \in b}
      BY <3>1, <2>1, <2>2, <1>3
    <3>3. PICK s \in b : y = ImageOf(s) /\ y.row = s
      BY <3>2, <1>4
    <3> QED
      BY <3>1, <3>3, <2>2
  <2> QED
    BY <1>0, <1>1, <1>3, <2>2 DEF MigrationInv, UniqueKept
<1>12. ColumnsSound'
  BY <1>0, ColumnsKept
<1> QED
  BY <1>1, <1>6, <1>7, <1>8, <1>9, <1>10, <1>11, <1>12 DEF MigrationInv

-----------------------------------------------------------------------------
(***************************************************************************)
(* The end of a step, the demo provider, the report, and a reset.          *)
(***************************************************************************)

\* A plan that loses its head, in a run of the same mode, stays sound.
LEMMA PlanShrinks ==
  ASSUME MigrationInv, todo # <<>>, todo' = Tail(todo), begun' = FALSE,
         UNCHANGED <<runs, mode>>
  PROVE  PlanSound'
<1>1. /\ Len(todo) \in Nat \ {0} /\ Len(todo') = Len(todo) - 1
      /\ \A i \in 1..Len(todo') : i + 1 \in 1..Len(todo) /\ todo'[i] = todo[i + 1]
  BY TailPlan DEF MigrationInv
<1>2. ASSUME Working', NEW i \in 1..Len(todo'), todo'[i] = "users" PROVE i = 1
  <2>1. Working /\ i + 1 \in 1..Len(todo) /\ todo[i + 1] = "users"
    BY <1>1, <1>2 DEF Working
  <2>2. i + 1 = 1
    BY <2>1 DEF MigrationInv, PlanSound
  <2> QED
    BY <2>2
<1>3. ASSUME mode' = "reset", NEW i \in 1..Len(todo'), todo'[i] = "users"
      PROVE  i = Len(todo')
  <2>1. mode = "reset" /\ i + 1 \in 1..Len(todo) /\ todo[i + 1] = "users"
    BY <1>1, <1>3
  <2>2. i + 1 = Len(todo)
    BY <2>1 DEF MigrationInv, PlanSound
  <2> QED
    BY <2>2, <1>1
<1>4. mode' # "idle" => runs' # 0
  BY DEF MigrationInv, PlanSound
<1>5. ASSUME mode' = "full" PROVE Once(todo)'
  <2>1. Once(todo)
    BY <1>5 DEF MigrationInv, PlanSound
  <2>2. ASSUME NEW t \in Columns, NEW i \in 1..Len(todo'), NEW j \in 1..Len(todo'),
               todo'[i] = t, todo'[j] = t
        PROVE  i = j
    <3>1. i + 1 = j + 1
      BY <1>1, <2>1, <2>2 DEF Once
    <3> QED
      BY <3>1
  <2> QED
    BY <2>2 DEF Once
<1> QED
  BY <1>2, <1>3, <1>4, <1>5 DEF PlanSound

LEMMA StepDoneStep ==
  ASSUME MigrationInv, StepDone
  PROVE  MigrationInv'
<1>1. /\ Working /\ begun /\ rest = {} /\ todo # <<>>
      /\ todo' = Tail(todo) /\ begun' = FALSE
      /\ UNCHANGED <<target, runs, mode, rest, idMap>>
  BY DEF StepDone, MigrationInv, PlanSound
<1>2. /\ todo' \in Seq(Tables \cup {"demo"})
      /\ Len(todo) \in Nat \ {0} /\ Len(todo') = Len(todo) - 1
      /\ \A i \in 1..Len(todo') : i + 1 \in 1..Len(todo) /\ todo'[i] = todo[i + 1]
      /\ \A t : Pending(t)' => Pending(t)
      /\ \A t : Pending(t) => Pending(t)' \/ t = Head(todo)
  BY <1>1, TailPlan DEF MigrationInv
<1>3. MigrationTypeOK'
  BY <1>1, <1>2 DEF MigrationInv, MigrationTypeOK
<1>4. PlanSound'
  BY <1>1, PlanShrinks
<1>5. IdsSound'
  <2>1. mode = "single" =>
          \/ idMap = NoIds /\ ~Pending("users")'
          \/ \A i \in 1..Len(todo') : todo'[i] = "users"
    BY <1>2 DEF MigrationInv, IdsSound
  <2>2. ASSUME mode = "full", ~Pending("users")', NEW u \in People
        PROVE  idMap[u] = <<runs, u>> /\ <<runs, u>> \in UserIds
    <3>1. CASE Head(todo) = "users"
      BY <3>1, <1>1 DEF MigrationInv, RestSound
    <3>2. CASE Head(todo) # "users"
      BY <3>2, <2>2, <1>2 DEF MigrationInv, IdsSound
    <3> QED
      BY <3>1, <3>2
  <2>3. \A u \in People : idMap'[u] \in {NoId, <<runs', u>>}
    BY <1>1 DEF MigrationInv, IdsSound
  <2>4. UserIds' = UserIds
    BY <1>1 DEF UserIds
  <2> QED
    BY <1>1, <2>1, <2>2, <2>3, <2>4 DEF IdsSound
<1>6. FilledSound'
  <2>1. ASSUME mode = "full", NEW t \in Tables, ~Pending(t)' PROVE Complete(t, {})
    BY <1>1, <1>2, <2>1 DEF MigrationInv, FilledSound
  <2>2. mode # "reported"
    BY <1>1 DEF Working
  <2> QED
    BY <1>1, <2>1, <2>2 DEF FilledSound, Complete, StandsFor
<1>7. RestSound' /\ ClearSound'
  BY <1>1 DEF RestSound, ClearSound, Working
<1>8. ImagesSound' /\ NoOrphans' /\ UniqueKept'
  BY <1>1 DEF MigrationInv, ImagesSound, NoOrphans, UniqueKept, UserIds
<1>9. ASSUME mode = "full", NEW t \in Columns, Pending(t)' PROVE Pending(t) /\ Head(todo) # t
  <2>1. PICK i \in 1..Len(todo') : todo'[i] = t
    BY <1>9 DEF Pending
  <2>2. i + 1 \in 1..Len(todo) /\ todo[i + 1] = t /\ i + 1 # 1 /\ 1 \in 1..Len(todo)
    BY <1>2, <2>1
  <2>3. todo[1] # t
    BY <1>9, <2>2 DEF MigrationInv, PlanSound, Once
  <2>4. Head(todo) = todo[1]
    BY <1>1, TailPlan DEF MigrationInv
  <2> QED
    BY <1>2, <1>9, <2>3, <2>4
<1>10. ColumnsSound'
  BY <1>1, <1>9 DEF MigrationInv, ColumnsSound
<1> QED
  BY <1>3, <1>4, <1>5, <1>6, <1>7, <1>8, <1>10 DEF MigrationInv

LEMMA SeedDemoStep ==
  ASSUME MigrationInv, SeedDemoSp
  PROVE  MigrationInv'
<1>0. /\ "service_providers" \in Tables \ Owned /\ "users" \in Tables /\ "demo" \notin Tables
      /\ Columns \subseteq Tables \ {"service_providers"}
  BY DEF Tables, Owned, Columns
<1>1. /\ Working /\ todo # <<>> /\ Head(todo) = "demo" /\ todo' = Tail(todo)
      /\ UNCHANGED <<runs, mode, rest, begun, idMap>>
      /\ target' = [target EXCEPT !["service_providers"] = @ \cup {ImageOf(DemoSp)}]
  BY DEF SeedDemoSp, At
<1>2. ~begun /\ begun' = FALSE
  <2>1. begun => Head(todo) \in Tables
    BY DEF MigrationInv, RestSound
  <2>2. begun \in BOOLEAN
    BY DEF MigrationInv, MigrationTypeOK
  <2> QED
    BY <1>0, <1>1, <2>1, <2>2
<1>3. /\ todo' \in Seq(Tables \cup {"demo"})
      /\ Len(todo) \in Nat \ {0} /\ Len(todo') = Len(todo) - 1
      /\ \A i \in 1..Len(todo') : i + 1 \in 1..Len(todo) /\ todo'[i] = todo[i + 1]
      /\ \A t : Pending(t)' => Pending(t)
      /\ \A t : Pending(t) => Pending(t)' \/ t = Head(todo)
  BY <1>1, TailPlan DEF MigrationInv
<1>4. target \in [Tables -> SUBSET Image]
  BY DEF MigrationInv, MigrationTypeOK
<1>5. ImageOf(DemoSp) = [row |-> DemoSp, id |-> NoId] /\ ImageOf(DemoSp) \in Image
  BY MigrationAssumption DEF ImageOf, Image
<1>6. /\ target'["service_providers"] = target["service_providers"] \cup {ImageOf(DemoSp)}
      /\ \A s \in Tables \ {"service_providers"} : target'[s] = target[s]
      /\ target' \in [Tables -> SUBSET Image]
  BY <1>0, <1>1, <1>4, <1>5
<1>7. MigrationTypeOK'
  BY <1>1, <1>3, <1>6 DEF MigrationInv, MigrationTypeOK
<1>8. PlanSound'
  BY <1>1, <1>2, PlanShrinks
<1>9. UserIds' = UserIds
  BY <1>0, <1>6 DEF UserIds
<1>10. IdsSound'
  <2>1. mode = "single" =>
          \/ idMap = NoIds /\ ~Pending("users")'
          \/ \A i \in 1..Len(todo') : todo'[i] = "users"
    BY <1>3 DEF MigrationInv, IdsSound
  <2>2. Pending("users") => Pending("users")'
    BY <1>1, <1>3
  <2>3. \A u \in People : idMap'[u] \in {NoId, <<runs', u>>}
    BY <1>1 DEF MigrationInv, IdsSound
  <2>4. mode = "full" /\ ~Pending("users")' =>
          \A u \in People : idMap[u] = <<runs, u>> /\ <<runs, u>> \in UserIds
    BY <2>2 DEF MigrationInv, IdsSound
  <2> QED
    BY <1>1, <1>9, <2>1, <2>3, <2>4 DEF IdsSound
<1>11. FilledSound'
  <2>1. ASSUME mode = "full", NEW t \in Tables, ~Pending(t)' PROVE Complete(t, {})'
    <3>1. Complete(t, {})
      BY <1>0, <1>1, <1>3, <2>1 DEF MigrationInv, FilledSound
    <3>2. target[t] \subseteq target'[t]
      BY <1>6
    <3> QED
      BY <3>1, <3>2 DEF Complete, StandsFor
  <2>2. mode # "reported"
    BY <1>1 DEF Working
  <2> QED
    BY <1>1, <1>2, <2>1, <2>2 DEF FilledSound
<1>12. RestSound' /\ ClearSound'
  BY <1>1, <1>2 DEF RestSound, ClearSound, Working
<1>13. ImagesSound'
  BY <1>0, <1>1, <1>5, <1>6 DEF MigrationInv, ImagesSound, Tables
<1>14. NoOrphans'
  BY <1>0, <1>6, <1>9 DEF MigrationInv, NoOrphans, Tables
<1>15. UniqueKept'
  <2>1. ASSUME NEW x \in target["service_providers"], x.row = DemoSp
        PROVE  x = ImageOf(DemoSp)
    <3>1. x.id = NoId
      BY <2>1 DEF MigrationInv, ImagesSound
    <3>2. x \in Image
      BY <1>0, <1>4
    <3>3. x = [row |-> x.row, id |-> x.id]
      BY <3>2 DEF Image
    <3> QED
      BY <2>1, <3>1, <3>3, <1>5
  <2>2. ImageOf(DemoSp).row = DemoSp
    BY <1>5
  <2> QED
    BY <1>0, <1>6, <2>1, <2>2 DEF MigrationInv, UniqueKept
<1>16. ColumnsSound'
  <2>1. \A t \in Columns : target'[t] = target[t] /\ t # Head(todo)
    BY <1>0, <1>1, <1>6
  <2> QED
    BY <1>1, <1>3, <2>1 DEF MigrationInv, ColumnsSound
<1> QED
  BY <1>7, <1>8, <1>10, <1>11, <1>12, <1>13, <1>14, <1>15, <1>16 DEF MigrationInv

LEMMA ValidateStep ==
  ASSUME MigrationInv, Validate
  PROVE  MigrationInv'
<1>1. /\ Working /\ todo = <<>> /\ mode' \in {"reported", "idle"}
      /\ mode' = "reported" => mode = "full"
      /\ UNCHANGED <<target, runs, todo, rest, begun, idMap>>
  BY DEF Validate
<1>2. ~begun /\ ~begun'
  BY <1>1 DEF MigrationInv, PlanSound
<1>3. MigrationTypeOK'
  BY <1>1 DEF MigrationInv, MigrationTypeOK
<1>4. Len(todo) = 0 /\ \A t : ~Pending(t)
  BY <1>1 DEF Pending
<1>5. PlanSound' /\ RestSound' /\ ClearSound' /\ ColumnsSound'
  BY <1>1, <1>2 DEF MigrationInv, PlanSound, RestSound, ClearSound, ColumnsSound, Working
<1>6. IdsSound'
  BY <1>1 DEF MigrationInv, IdsSound
<1>7. FilledSound'
  BY <1>1, <1>4 DEF MigrationInv, FilledSound, Complete, StandsFor
<1>8. ImagesSound' /\ NoOrphans' /\ UniqueKept'
  BY <1>1 DEF MigrationInv, ImagesSound, NoOrphans, UniqueKept, UserIds
<1> QED
  BY <1>3, <1>5, <1>6, <1>7, <1>8 DEF MigrationInv

LEMMA ClearStep ==
  ASSUME MigrationInv, Clear
  PROVE  MigrationInv'
<1>0. "users" \in Tables /\ "service_providers" \in Tables /\ Owned \subseteq Tables
  BY DEF Tables, Owned
<1>1. /\ mode = "reset" /\ todo # <<>> /\ todo' = Tail(todo)
      /\ UNCHANGED <<runs, mode, rest, begun, idMap>>
      /\ target' = [t \in Tables |-> IF Gone(t) THEN {} ELSE target[t]]
  BY DEF Clear
<1>2. ~begun /\ begun' = FALSE
  <2>1. begun \in BOOLEAN /\ ~begun
    BY <1>1 DEF MigrationInv, PlanSound, MigrationTypeOK, Working
  <2> QED
    BY <1>1, <2>1
<1>3. /\ todo' \in Seq(Tables \cup {"demo"})
      /\ Len(todo) \in Nat \ {0} /\ Len(todo') = Len(todo) - 1
      /\ Head(todo) = todo[1]
      /\ \A t : Pending(t) => Pending(t)' \/ t = Head(todo)
  BY <1>1, TailPlan DEF MigrationInv
<1>4. \A t \in Tables : target'[t] = {} \/ (target'[t] = target[t] /\ ~Gone(t))
  BY <1>1
<1>5. MigrationTypeOK'
  <2>1. target' \in [Tables -> SUBSET Image]
    BY <1>1 DEF MigrationInv, MigrationTypeOK
  <2> QED
    BY <1>1, <1>3, <2>1 DEF MigrationInv, MigrationTypeOK
<1>6. PlanSound'
  BY <1>1, <1>2, PlanShrinks
<1>7. IdsSound' /\ RestSound' /\ FilledSound'
  BY <1>1, <1>2 DEF MigrationInv, IdsSound, RestSound, FilledSound
<1>8. ClearSound'
  <2>1. ASSUME NEW t \in Owned \ ({"users"} \cup Columns), ~Pending(t)' PROVE target'[t] = {}
    <3>1. CASE t = Head(todo)
      BY <3>1, <1>0, <1>1 DEF Gone
    <3>2. CASE t # Head(todo)
      BY <3>2, <2>1, <1>0, <1>1, <1>3, <1>4 DEF MigrationInv, ClearSound
    <3> QED
      BY <3>1, <3>2
  <2> QED
    BY <2>1 DEF ClearSound
<1>9. ImagesSound' /\ UniqueKept' /\ ColumnsSound'
  BY <1>0, <1>1, <1>4 DEF MigrationInv, ImagesSound, UniqueKept, ColumnsSound, Owned
<1>10. NoOrphans'
  <2>1. CASE Head(todo) = "users"
    <3>1. Len(todo) = 1
      <4>1. 1 \in 1..Len(todo) /\ todo[1] = "users"
        BY <2>1, <1>3
      <4> QED
        BY <4>1, <1>1 DEF MigrationInv, PlanSound
    <3>2. \A t \in Owned \ ({"users"} \cup Columns) : target[t] = {}
      BY <3>1, <1>1, <1>3, <2>1 DEF MigrationInv, ClearSound, Pending
    <3>3. \A t \in Owned : target'[t] = {}
      BY <3>2, <2>1, <1>0, <1>4 DEF Gone
    <3> QED
      BY <3>3 DEF NoOrphans
  <2>2. CASE Head(todo) # "users"
    <3>1. UserIds' = UserIds
      BY <2>2, <1>0, <1>1 DEF UserIds, Gone, Columns
    <3> QED
      BY <3>1, <1>0, <1>4 DEF MigrationInv, NoOrphans
  <2> QED
    BY <2>1, <2>2
<1> QED
  BY <1>5, <1>6, <1>7, <1>8, <1>9, <1>10 DEF MigrationInv
-----------------------------------------------------------------------------
LEMMA MigrationNextInv ==
  ASSUME MigrationInv, [MigrationNext]_migrationVars
  PROVE  MigrationInv'
<1>1. CASE UNCHANGED migrationVars
  <2>1. UNCHANGED <<target, runs, mode, todo, rest, begun, idMap>>
    BY <1>1 DEF migrationVars
  <2>2. MigrationTypeOK' /\ PlanSound' /\ IdsSound' /\ RestSound'
    BY <2>1 DEF MigrationInv, MigrationTypeOK, PlanSound, IdsSound, RestSound, Working, Pending,
                Once, UserIds, Mapped
  <2>3. FilledSound' /\ ClearSound' /\ ColumnsSound'
    BY <2>1 DEF MigrationInv, FilledSound, ClearSound, ColumnsSound, Pending, Complete,
                StandsFor
  <2>4. ImagesSound' /\ NoOrphans' /\ UniqueKept'
    BY <2>1 DEF MigrationInv, ImagesSound, NoOrphans, UniqueKept, UserIds
  <2> QED
    BY <2>2, <2>3, <2>4 DEF MigrationInv
<1>2. CASE StartFull
  BY <1>2, StartFullStep
<1>3. CASE StartReset
  BY <1>3, StartResetStep
<1>4. CASE \E q \in Singles : StartSingle(q)
  BY <1>4, StartSingleStep
<1>5. CASE ReadUsers
  BY <1>5, ReadUsersStep
<1>6. CASE \/ ReadProfiles \/ ReadPhones \/ ReadEmails \/ ReadCredentials \/ ReadServiceProviders
           \/ ReadEvents \/ ReadBetterAuth
  <2>1. PICK t \in Tables \ {"users"} :
          /\ Read(t, IF t = "service_providers" THEN RowsIn[t] ELSE Mapped(RowsIn[t]))
          /\ UNCHANGED idMap
    BY <1>6 DEF ReadProfiles, ReadPhones, ReadEmails, ReadCredentials, ReadServiceProviders, ReadEvents,
                ReadBetterAuth, Tables, Owned, Columns
  <2> QED
    BY <2>1, ReadStep
<1>7. CASE \E t \in Tables : \E b \in SUBSET rest : WriteBatch(t, b)
  <2>1. PICK t \in Tables, b \in SUBSET rest : WriteBatch(t, b)
    BY <1>7
  <2>2. b # {}
    BY <2>1 DEF WriteBatch, Batch
  <2>3. CASE t = "users"
    BY <2>1, <2>3, WriteUsersStep
  <2>4. CASE t = "service_providers"
    BY <2>1, <2>4, WriteProvidersStep
  <2>5. CASE t \in Columns
    BY <2>1, <2>5, WriteColumnStep
  <2>6. CASE t \in Owned \ ({"users"} \cup Columns)
    BY <2>1, <2>2, <2>6, WriteOwnedStep
  <2> QED
    BY <2>3, <2>4, <2>5, <2>6 DEF Tables
<1>8. CASE StepDone
  BY <1>8, StepDoneStep
<1>9. CASE SeedDemoSp
  BY <1>9, SeedDemoStep
<1>10. CASE Validate
  BY <1>10, ValidateStep
<1>11. CASE Clear
  BY <1>11, ClearStep
<1>12. CASE End
  BY <1>12, EndStep
<1> QED
  BY <1>1, <1>2, <1>3, <1>4, <1>5, <1>6, <1>7, <1>8, <1>9, <1>10, <1>11, <1>12
     DEF MigrationNext
-----------------------------------------------------------------------------
(***************************************************************************)
(* The theorems.                                                           *)
(***************************************************************************)

\* Plan, map and rows agree in every state of every sequence of runs.
THEOREM MigrationInvariance ==
  MigrationSpec => []MigrationInv
<1>1. MigrationInit => MigrationInv
  BY MigrationInitInv
<1>2. MigrationInv /\ [MigrationNext]_migrationVars => MigrationInv'
  BY MigrationNextInv
<1> QED
  BY <1>1, <1>2, PTL DEF MigrationSpec

\* Tables hold images of source rows, and ids are of runs that were started.
THEOREM MigrationTypesHold ==
  MigrationSpec => []MigrationTypeOK
<1>1. MigrationInv => MigrationTypeOK
  BY DEF MigrationInv
<1> QED
  BY <1>1, MigrationInvariance, PTL

\* Two images of one source row would belong to two images of its user.
LEMMA OneImage ==
  ASSUME MigrationInv
  PROVE  NothingTwice
<1>0. target \in [Tables -> SUBSET Image] /\ "users" \in Tables
  BY DEF MigrationInv, MigrationTypeOK, Tables, Owned
<1>1. ASSUME NEW t \in Owned, NEW x \in target[t], NEW y \in target[t], x.row = y.row
      PROVE  x = y
  <2>1. PICK j \in 1..runs : x.id = <<j, OwnerOf[x.row]>>
    BY DEF MigrationInv, ImagesSound
  <2>2. PICK k \in 1..runs : y.id = <<k, OwnerOf[y.row]>>
    BY DEF MigrationInv, ImagesSound
  <2>3. PICK u \in target["users"] : u.id = x.id
    BY DEF MigrationInv, NoOrphans, UserIds
  <2>4. PICK v \in target["users"] : v.id = y.id
    BY DEF MigrationInv, NoOrphans, UserIds
  <2>5. u.row = OwnerOf[x.row] /\ v.row = OwnerOf[y.row]
    <3>1. "users" \in Owned
      BY DEF Owned
    <3>2. PICK m \in 1..runs : u.id = <<m, OwnerOf[u.row]>>
      BY <3>1 DEF MigrationInv, ImagesSound
    <3>3. PICK n \in 1..runs : v.id = <<n, OwnerOf[v.row]>>
      BY <3>1 DEF MigrationInv, ImagesSound
    <3>4. OwnerOf[u.row] = u.row /\ OwnerOf[v.row] = v.row
      BY DEF MigrationInv, ImagesSound
    <3> QED
      BY <2>1, <2>2, <2>3, <2>4, <3>2, <3>3, <3>4
  <2>6. u = v
    BY <1>1, <2>5 DEF MigrationInv, UniqueKept
  <2>7. x.id = y.id
    BY <2>3, <2>4, <2>6
  <2>8. x \in Image /\ y \in Image
    BY <1>0 DEF Tables
  <2>9. x = [row |-> x.row, id |-> x.id] /\ y = [row |-> y.row, id |-> y.id]
    BY <2>8 DEF Image
  <2> QED
    BY <1>1, <2>7, <2>9
<1>2. \A t \in Columns : \A x, y \in target[t] : x.id = y.id => x = y
  BY DEF MigrationInv, ColumnsSound
<1> QED
  BY <1>1, <1>2 DEF MigrationInv, UniqueKept, NothingTwice, Tables

\* However runs, runs for one table, resets and interruptions follow each
\* other, every row belongs to a user that is there, no source row has two
\* images and no user two profiles or phones, and a run that reports has written
\* every row that was due: of several profiles or phones of a user, the last.
THEOREM MigrationsAreSound ==
  MigrationSpec => []MigrationSound
<1>1. MigrationInv => MigrationSound
  <2> SUFFICES ASSUME MigrationInv PROVE MigrationSound
    OBVIOUS
  <2>1. ReportedComplete
    <3> SUFFICES ASSUME mode = "reported", NEW t \in Tables, NEW r \in Due(t)
                 PROVE  \E x \in target[t] : x.row = r
      BY DEF ReportedComplete
    <3>1. PICK x \in target[t] : StandsFor(t, x, r)
      BY DEF Due, MigrationInv, FilledSound, Complete
    <3>2. CASE t \in Columns
      <4>1. /\ x.row \in RowsIn[t] /\ OwnerOf[x.row] = OwnerOf[r] /\ IdOf[r] <= IdOf[x.row]
            /\ r \in RowsIn[t]
        BY <3>1, <3>2 DEF StandsFor, Due
      <4>2. IdOf[x.row] <= IdOf[r]
        BY <3>2, <4>1 DEF Due
      <4>3. RowsIn[t] \subseteq Sources
        BY MigrationAssumption
      <4>4. IdOf[r] \in Nat /\ IdOf[x.row] \in Nat
        BY <4>1, <4>3, MigrationAssumption
      <4>5. IdOf[x.row] = IdOf[r]
        BY <4>1, <4>2, <4>4
      <4> QED
        BY <3>2, <4>1, <4>5, MigrationAssumption
    <3>3. CASE t \notin Columns
      BY <3>1, <3>3 DEF StandsFor
    <3> QED
      BY <3>2, <3>3
  <2> QED
    BY <2>1, OneImage DEF MigrationInv, MigrationSound
<1> QED
  BY <1>1, MigrationInvariance, PTL
-----------------------------------------------------------------------------
(***************************************************************************)
(* The three together.                                                     *)
(***************************************************************************)

\* The specification the run checks is a behaviour of RiscFraud, of SpConfig
\* and of Migration at once, so that what is proved of the three holds of it.
THEOREM ServicesRefineParts ==
  ServicesSpec => RiscSpec /\ SpSpec /\ MigrationSpec
<1>1. ServicesInit => RiscInit /\ SpInit /\ MigrationInit
  BY DEF ServicesInit
<1>2. [ServicesNext]_<<riscVars, spVars, migrationVars, part>> =>
        [RiscNext]_riscVars /\ [SpNext]_spVars /\ [MigrationNext]_migrationVars
  BY DEF ServicesNext
<1> QED
  BY <1>1, <1>2, PTL DEF ServicesSpec, RiscSpec, SpSpec, MigrationSpec

\* Deliveries never exceed what the queue makes, copies never outlive their
\* time, and runs number their ids, whatever arrives and fails.
THEOREM ServicesTypesHold ==
  ServicesSpec => []ServicesTypeOK
<1>1. RiscTypeOK /\ SpTypeOK /\ MigrationTypeOK => ServicesTypeOK
  BY DEF ServicesTypeOK
<1> QED
  BY <1>1, ServicesRefineParts, TypesHold, SpTypesHold, MigrationTypesHold, PTL
=============================================================================
