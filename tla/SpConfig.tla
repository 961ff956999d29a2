------------------------------- MODULE SpConfig -------------------------------
(***************************************************************************)
(* The registration of one service provider: its row in service_providers, *)
(* the copy that auth-core and saml-bridge keep of it in KV for an hour    *)
(* (sp-lookup.ts), the admin routes that change the row and drop the copy  *)
(* (service-providers.ts) and agency-admin, which changes the row only     *)
(* (server.ts).                                                            *)
(*                                                                         *)
(* Each insert or update makes a new version of the row.  Requests are     *)
(* atomic between two calls to the database, KV or R2, and shorter than a  *)
(* tick of the clock.  Nothing reads the certificates in R2: only what     *)
(* follows when a write to R2 fails is modelled.                           *)
(***************************************************************************)
EXTENDS Naturals

CONSTANTS
  Lookups,     \* lookups running at a time
  Admins,      \* admin requests running at a time
  MaxVersion,  \* bound: versions of the row
  CacheTtl     \* KV_TTL.SP_CONFIG, one hour, in ticks

ASSUME SpConfigAssumption ==
  MaxVersion \in Nat \ {0} /\ CacheTtl \in Nat \ {0}

Versions == 1..MaxVersion

NoVersion == 0

Ops == {"create", "update", "upload", "delete"}

VARIABLES
  config,    \* the version in the row, NoVersion when there is none
  versions,  \* the versions made so far
  linked,    \* the row has the agency_id of the agency
  agency,    \* the agency's row exists
  cached,    \* the version in KV
  ttl,       \* ticks the copy has left
  lookup,    \* per lookup: the last step it completed
  found,     \* per lookup: the version it read
  admin,     \* per admin request: the last step it completed
  op,        \* per admin request: what it does
  agencyJob, \* the last step of agency-admin's request
  outdated,  \* history: per version, ticks since it was replaced
  excused    \* history: the copy was not dropped, or put after it was replaced

rowVars    == <<config, versions, linked, agency>>
cacheVars  == <<cached, ttl>>
lookupVars == <<lookup, found>>
adminVars  == <<admin, op>>
spVars     == <<rowVars, cacheVars, lookupVars, adminVars, agencyJob, outdated, excused>>

SpTypeOK ==
  /\ config \in Versions \cup {NoVersion}
  /\ versions \in 0..MaxVersion
  /\ linked \in BOOLEAN /\ agency \in BOOLEAN /\ excused \in BOOLEAN
  /\ cached \in Versions \cup {NoVersion}
  /\ ttl \in 0..CacheTtl
  /\ lookup \in [Lookups -> {"idle", "missed", "read"}]
  /\ found \in [Lookups -> Versions \cup {NoVersion}]
  /\ admin \in [Admins -> {"idle", "looked", "written", "stored"}]
  /\ op \in [Admins -> Ops]
  /\ agencyJob \in {"idle", "written", "unlinked"}
  /\ outdated \in [Versions -> Nat]

SpInit ==
  /\ config = NoVersion /\ versions = 0 /\ linked = FALSE /\ agency = FALSE
  /\ cached = NoVersion /\ ttl = 0
  /\ lookup = [l \in Lookups |-> "idle"] /\ found = [l \in Lookups |-> NoVersion]
  /\ admin = [a \in Admins |-> "idle"] /\ op = [a \in Admins |-> "create"]
  /\ agencyJob = "idle"
  /\ outdated = [v \in Versions |-> 0]
  /\ excused = FALSE
-----------------------------------------------------------------------------
(***************************************************************************)
(* lookupServiceProvider                                                   *)
(***************************************************************************)

\* The copy in KV is the answer...
GetCached(l) ==
  /\ lookup[l] = "idle"
  /\ IF cached = NoVersion THEN lookup' = [lookup EXCEPT ![l] = "missed"]
                           ELSE UNCHANGED lookup
  /\ UNCHANGED <<rowVars, cacheVars, found, adminVars, agencyJob, outdated, excused>>

\* ... or else the row, if there is one, ...
ReadRow(l) ==
  /\ lookup[l] = "missed"
  /\ lookup' = [lookup EXCEPT ![l] = IF config = NoVersion THEN "idle" ELSE "read"]
  /\ found' = [found EXCEPT ![l] = config]
  /\ UNCHANGED <<rowVars, cacheVars, adminVars, agencyJob, outdated, excused>>

\* ... which is put in KV.
PutCached(l) ==
  /\ lookup[l] = "read"
  /\ lookup' = [lookup EXCEPT ![l] = "idle"]
  /\ cached' = found[l] /\ ttl' = CacheTtl
  /\ found' = [found EXCEPT ![l] = NoVersion]
  /\ excused' = (found[l] # config)
  /\ UNCHANGED <<rowVars, adminVars, agencyJob, outdated>>

LookupFails(l) ==
  /\ lookup[l] # "idle"
  /\ lookup' = [lookup EXCEPT ![l] = "idle"]
  /\ found' = [found EXCEPT ![l] = NoVersion]
  /\ UNCHANGED <<rowVars, cacheVars, adminVars, agencyJob, outdated, excused>>
-----------------------------------------------------------------------------
(***************************************************************************)
(* The admin routes.                                                       *)
(***************************************************************************)
Step(a, from, to) ==
  /\ admin[a] = from
  /\ admin' = [admin EXCEPT ![a] = to]
  /\ UNCHANGED op

NewVersion ==
  /\ versions < MaxVersion
  /\ versions' = versions + 1 /\ config' = versions + 1

\* POST is for an id that has no row (409, after which demo-agency's /setup
\* sends a PUT), the others for one that has.
LookSp(a, o) ==
  /\ admin[a] = "idle"
  /\ (o = "create") <=> (config = NoVersion)
  /\ admin' = [admin EXCEPT ![a] = "looked"]
  /\ op' = [op EXCEPT ![a] = o]
  /\ UNCHANGED <<rowVars, cacheVars, lookupVars, agencyJob, outdated, excused>>

\* The row may have come or gone since: an insert fails, an update and a
\* delete find nothing.  The row may name the agency (body.agencyId).
InsertSp(a) ==
  /\ op[a] = "create" /\ config = NoVersion
  /\ Step(a, "looked", "written")
  /\ NewVersion
  /\ linked' \in BOOLEAN
  /\ UNCHANGED <<agency, cacheVars, lookupVars, agencyJob, outdated, excused>>

UpdateSp(a) ==
  /\ op[a] \in {"update", "upload"}
  /\ Step(a, "looked", "written")
  /\ IF config = NoVersion THEN UNCHANGED <<config, versions>> ELSE NewVersion
  /\ UNCHANGED <<linked, agency, cacheVars, lookupVars, agencyJob, outdated, excused>>

DeleteSp(a) ==
  /\ op[a] = "delete"
  /\ Step(a, "looked", "written")
  /\ config' = NoVersion /\ linked' = FALSE
  /\ UNCHANGED <<versions, agency, cacheVars, lookupVars, agencyJob, outdated, excused>>

\* Variant: an uploaded certificate does not drop the copy.
StoreWithoutDrop(a) ==
  /\ Step(a, "written", IF op[a] \in {"create", "upload"} THEN "idle" ELSE "stored")
  /\ UNCHANGED <<rowVars, cacheVars, lookupVars, agencyJob, outdated, excused>>

\* The certificate is put in R2 (a PUT without one skips this), or removed,
\* which may fail; a POST is done.
StoreCert(a) ==
  /\ Step(a, "written", IF op[a] = "create" THEN "idle" ELSE "stored")
  /\ UNCHANGED <<rowVars, cacheVars, lookupVars, agencyJob, outdated, excused>>

\* The copy in KV is dropped...
DropCached(a) ==
  /\ Step(a, "stored", "idle")
  /\ cached' = NoVersion /\ ttl' = 0 /\ excused' = FALSE
  /\ UNCHANGED <<rowVars, lookupVars, agencyJob, outdated>>

\* Requests that have changed the row and not yet dropped the copy.
Dropping(a) == admin[a] \in {"written", "stored"} /\ op[a] # "create"

\* ... unless that, or an earlier call, fails.
AdminFails(a) ==
  /\ admin[a] # "idle"
  /\ Step(a, admin[a], "idle")
  /\ excused' = (excused \/ (Dropping(a) /\ cached # NoVersion))
  /\ UNCHANGED <<rowVars, cacheVars, lookupVars, agencyJob, outdated>>

-----------------------------------------------------------------------------
(***************************************************************************)
(* agency-admin: the agency's row, then the row it is linked to.           *)
(***************************************************************************)

\* POST and PUT /api/agencies
WriteAgency ==
  /\ agencyJob = "idle"
  /\ agency' = TRUE /\ agencyJob' = "written"
  /\ UNCHANGED <<config, versions, linked, cacheVars, lookupVars, adminVars, outdated,
                 excused>>

SyncSp ==
  /\ agencyJob = "written"
  /\ linked \/ config = NoVersion
  /\ NewVersion
  /\ linked' = TRUE /\ agencyJob' = "idle"
  /\ excused' = (excused \/ cached # NoVersion)
  /\ UNCHANGED <<agency, cacheVars, lookupVars, adminVars, outdated>>

\* DELETE /api/agencies/:id
UnlinkSp ==
  /\ agencyJob = "idle" /\ agency
  /\ agencyJob' = "unlinked"
  /\ linked' = FALSE
  /\ config' = IF linked THEN NoVersion ELSE config
  /\ excused' = (excused \/ (linked /\ cached # NoVersion))
  /\ UNCHANGED <<versions, agency, cacheVars, lookupVars, adminVars, outdated>>

DeleteAgency ==
  /\ agencyJob = "unlinked"
  /\ agencyJob' = "idle" /\ agency' = FALSE
  /\ UNCHANGED <<config, versions, linked, cacheVars, lookupVars, adminVars, outdated,
                 excused>>

\* Nothing to register, the id is taken, or a call fails.
AgencyEnds ==
  /\ agencyJob # "idle"
  /\ agencyJob' = "idle"
  /\ UNCHANGED <<rowVars, cacheVars, lookupVars, adminVars, outdated, excused>>
-----------------------------------------------------------------------------
\* A tick of the clock, between requests.  Bound: the age of a version
\* stops one tick after a copy of it cannot exist.
ConfigTick ==
  /\ \A l \in Lookups : lookup[l] # "read"
  /\ ttl' = IF ttl > 0 THEN ttl - 1 ELSE 0
  /\ cached' = IF ttl > 1 THEN cached ELSE NoVersion
  /\ excused' = (excused /\ ttl > 1)
  /\ outdated' = [v \in Versions |->
       IF v # config /\ v <= versions /\ outdated[v] <= CacheTtl
         THEN outdated[v] + 1 ELSE outdated[v]]
  /\ UNCHANGED <<rowVars, lookupVars, adminVars, agencyJob>>
-----------------------------------------------------------------------------
SpNext ==
  \/ \E l \in Lookups : GetCached(l) \/ ReadRow(l) \/ PutCached(l) \/ LookupFails(l)
  \/ \E a \in Admins :
       \/ \E o \in Ops : LookSp(a, o)
       \/ InsertSp(a) \/ UpdateSp(a) \/ DeleteSp(a) \/ StoreCert(a)
       \/ DropCached(a) \/ AdminFails(a)
  \/ WriteAgency \/ SyncSp \/ UnlinkSp \/ DeleteAgency \/ AgencyEnds
  \/ ConfigTick

SpSpec == SpInit /\ [][SpNext]_spVars
-----------------------------------------------------------------------------
(***************************************************************************)
(* What the copy is worth.                                                 *)
(***************************************************************************)

\* A copy is of the row as it is, except while an admin request has written
\* the row and not yet dropped the copy, or when it was not dropped:
\* agency-admin has no binding to KV, a failed write to R2 ends the request,
\* a failed delete is ignored, and a lookup may put what it read before the
\* change (service-providers.ts, sp-lookup.ts).  Whatever went wrong, no
\* lookup answers from a row that was replaced more than an hour ago
\* (KV_TTL.SP_CONFIG; hits do not renew it).
StaleBounded ==
  cached \notin {NoVersion, config} =>
    /\ excused \/ \E a \in Admins : Dropping(a)
    /\ outdated[cached] < CacheTtl
=============================================================================
