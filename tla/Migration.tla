------------------------------- MODULE Migration -------------------------------
(***************************************************************************)
(* The migration of the Rails database into the new one, a command that is *)
(* run by hand, for all tables or for one, as often as it takes            *)
(* (test-migration/migrate.js, target-schema.sql).                         *)
(*                                                                         *)
(* Users get new ids, kept in a map in memory for the length of one run;   *)
(* every other row refers to its user by the new id.  Nothing is done in a *)
(* transaction: a run may be interrupted between any two statements, and   *)
(* the next one finds what is left of it.  One run goes on at a time.      *)
(***************************************************************************)
EXTENDS Naturals, Sequences, FiniteSets

CONSTANTS
  Sources,    \* rows of the source database
  RowsIn,     \* per table of the target: the source rows it is filled from
  OwnerOf,    \* the user each source row belongs to; a user row is its own
  IdOf,       \* the id each source row has in its table
  BatchSize,  \* BATCH_SIZE, 5000
  DemoSp,     \* the row seedDemoSP adds
  MaxRuns     \* bound: runs that may be started

\* Profiles and phones are rows of the source and columns of a user's row here.
Columns == {"profiles", "phones"}

Owned == {"users", "user_emails", "credentials", "identity_events", "user", "account"}
           \cup Columns

Tables == Owned \cup {"service_providers"}

ASSUME MigrationAssumption ==
  /\ RowsIn \in [Tables -> SUBSET Sources]
  /\ OwnerOf \in [Sources -> Sources]
  /\ \A u \in RowsIn["users"] : OwnerOf[u] = u
  /\ IdOf \in [Sources -> Nat]
  /\ \A t \in Columns : \A q, r \in RowsIn[t] : IdOf[q] = IdOf[r] => q = r
  /\ BatchSize \in Nat \ {0} /\ MaxRuns \in Nat
  /\ DemoSp \notin Sources

People == RowsIn["users"]

\* A uuid names the run that made it and the user it was made for; users no
\* map knows have none.
Ids  == (1..MaxRuns) \X People
NoId == <<0, DemoSp>>

Image == [row : Sources \cup {DemoSp}, id : Ids \cup {NoId}]

VARIABLES
  target,  \* per table: images of source rows
  runs,    \* runs started so far
  mode,    \* idle, full, single, reset, or reported: validate has been reached
  todo,    \* the tables still to fill, or to clear
  rest,    \* rows of the first of them still to write
  begun,   \* the first of them has been read from the source
  idMap    \* userIdMap

migrationVars == <<target, runs, mode, todo, rest, begun, idMap>>

MigrationTypeOK ==
  /\ target \in [Tables -> SUBSET Image]
  /\ runs \in 0..MaxRuns
  /\ mode \in {"idle", "full", "single", "reset", "reported"}
  /\ todo \in Seq(Tables \cup {"demo"})
  /\ rest \subseteq Sources \cup {DemoSp}
  /\ begun \in BOOLEAN
  /\ idMap \in [People -> Ids \cup {NoId}]

NoIds == [u \in People |-> NoId]

MigrationInit ==
  /\ target = [t \in Tables |-> {}]
  /\ runs = 0 /\ mode = "idle" /\ todo = <<>>
  /\ rest = {} /\ begun = FALSE
  /\ idMap = NoIds
-----------------------------------------------------------------------------
\* The steps of a run, in order; profiles and betterauth have two parts.
Steps ==
  <<"users", "profiles", "phones", "user_emails", "credentials", "service_providers",
    "identity_events", "user", "account", "demo">>

Singles ==
  {<<t>> : t \in {"users", "user_emails", "credentials", "service_providers",
                  "identity_events", "demo"}}
    \cup {<<"profiles", "phones">>, <<"user", "account">>}

ClearOrder ==
  <<"account", "identity_events", "credentials", "user_emails", "service_providers",
    "user", "users">>

Launch(m, tables, map) ==
  /\ mode = "idle" /\ runs < MaxRuns
  /\ runs' = runs + 1
  /\ mode' = m /\ todo' = tables /\ rest' = {} /\ begun' = FALSE
  /\ idMap' = map
  /\ UNCHANGED target

NewIds == [u \in People |-> <<runs', u>>]

StartFull == Launch("full", Steps, NoIds)

\* Variant: a dry run of the users fills the map too.
MapOfDryRun == NewIds

\* migrateUsers with dryRun returns before it has made an id.
IdsOfDryRun == NoIds

\* --table: the map is to be built first.
StartSingle(tables) ==
  Launch("single", tables, IF tables = <<"users">> THEN NoIds ELSE IdsOfDryRun)

StartReset == Launch("reset", ClearOrder, NoIds)
-----------------------------------------------------------------------------
(***************************************************************************)
(* One step: the rows are read, then written in batches.                   *)
(***************************************************************************)

Working == mode \in {"full", "single"}

At(t) == Working /\ todo # <<>> /\ Head(todo) = t

Read(t, rows) ==
  /\ At(t) /\ ~begun
  /\ begun' = TRUE /\ rest' = rows
  /\ UNCHANGED <<target, runs, mode, todo>>

\* Rows whose user has no id are passed over.
Mapped(rows) == {r \in rows : OwnerOf[r] \in People /\ idMap[OwnerOf[r]] # NoId}

ReadUsers ==
  /\ Read("users", People)
  /\ idMap' = [u \in People |-> <<runs, u>>]

ReadProfiles == Read("profiles", Mapped(RowsIn["profiles"])) /\ UNCHANGED idMap

ReadPhones == Read("phones", Mapped(RowsIn["phones"])) /\ UNCHANGED idMap

ReadEmails == Read("user_emails", Mapped(RowsIn["user_emails"])) /\ UNCHANGED idMap

ReadCredentials == Read("credentials", Mapped(RowsIn["credentials"])) /\ UNCHANGED idMap

ReadServiceProviders ==
  Read("service_providers", RowsIn["service_providers"]) /\ UNCHANGED idMap

ReadEvents == Read("identity_events", Mapped(RowsIn["identity_events"])) /\ UNCHANGED idMap

ReadBetterAuth ==
  /\ \E t \in {"user", "account"} : Read(t, Mapped(RowsIn[t]))
  /\ UNCHANGED idMap

\* Variant: a row that is not the next one.
AnyOf(rows) == rows

\* ORDER BY id
NextOf(rows) == {r \in rows : \A s \in rows : IdOf[r] <= IdOf[s]}

\* Rows of one statement: profiles and phones are written one by one in the order
\* of their ids, providers at once; a batch of events is read before those of
\* unknown users are passed over.
Batch(t) ==
  {b \in SUBSET rest :
     /\ b # {}
     /\ t \in Columns => \E r \in NextOf(rest) : b = {r}
     /\ t = "service_providers" => b = rest
     /\ t # "service_providers" => Cardinality(b) <= BatchSize
     /\ t \notin Columns \cup {"service_providers", "identity_events"} =>
          Cardinality(b) = BatchSize \/ b = rest}

ImageOf(r) ==
  [row |-> r, id |-> IF r \in Sources /\ OwnerOf[r] \in People THEN idMap[OwnerOf[r]] ELSE NoId]

\* The blind index of users, the id of service_providers and the address of
\* Better Auth's user are unique: a second image is an error.
Unique == {"users", "service_providers", "user"}

Clash(t, b) == t \in Unique /\ \E x \in target[t] : x.row \in b

UserIds == {x.id : x \in target["users"]}

\* A table after a statement: an INSERT adds rows; an UPDATE puts the columns of a
\* user over what an earlier row of that user put there, and changes none when the
\* user is not there.
Written(t, b) ==
  LET new == {ImageOf(r) : r \in b} IN
  IF t \in Columns
    THEN {x \in target[t] : \A y \in new : y.id # x.id} \cup {y \in new : y.id \in UserIds}
    ELSE target[t] \cup new

WriteBatch(t, b) ==
  /\ At(t) /\ begun /\ b \in Batch(t)
  /\ ~Clash(t, b)
  /\ target' = [target EXCEPT ![t] = Written(t, b)]
  /\ rest' = rest \ b
  /\ UNCHANGED <<runs, mode, todo, begun, idMap>>

StepDone ==
  /\ Working /\ begun /\ rest = {}
  /\ todo' = Tail(todo) /\ begun' = FALSE
  /\ UNCHANGED <<target, runs, mode, rest, idMap>>

\* seedDemoSP: INSERT IGNORE.
SeedDemoSp ==
  /\ At("demo")
  /\ target' = [target EXCEPT !["service_providers"] = @ \cup {ImageOf(DemoSp)}]
  /\ todo' = Tail(todo)
  /\ UNCHANGED <<runs, mode, rest, begun, idMap>>

\* A run for all tables, or for one, comes to validate, which only reads.
Validate ==
  /\ Working /\ todo = <<>>
  /\ mode' = IF mode = "full" THEN "reported" ELSE "idle"
  /\ UNCHANGED <<target, runs, todo, rest, begun, idMap>>
-----------------------------------------------------------------------------
\* Columns go with the row of their user.
Gone(t) == t = Head(todo) \/ (t \in Columns /\ Head(todo) = "users")

\* resetTarget, one DELETE at a time.
Clear ==
  /\ mode = "reset" /\ todo # <<>>
  /\ target' = [t \in Tables |-> IF Gone(t) THEN {} ELSE target[t]]
  /\ todo' = Tail(todo)
  /\ UNCHANGED <<runs, mode, rest, begun, idMap>>

\* The process ends: it is through, interrupted, or a statement failed, as
\* one with a second image must.
End ==
  /\ mode # "idle"
  /\ mode' = "idle" /\ todo' = <<>> /\ rest' = {} /\ begun' = FALSE
  /\ idMap' = NoIds
  /\ UNCHANGED <<target, runs>>
-----------------------------------------------------------------------------
MigrationNext ==
  \/ StartFull \/ StartReset
  \/ \E q \in Singles : StartSingle(q)
  \/ ReadUsers \/ ReadProfiles \/ ReadPhones \/ ReadEmails \/ ReadCredentials
  \/ ReadServiceProviders \/ ReadEvents \/ ReadBetterAuth
  \/ \E t \in Tables : \E b \in SUBSET rest : WriteBatch(t, b)
  \/ StepDone \/ SeedDemoSp \/ Validate
  \/ Clear \/ End

MigrationSpec == MigrationInit /\ [][MigrationNext]_migrationVars
-----------------------------------------------------------------------------
\* "Referential integrity": every row belongs to a user that is there.
NoOrphans == \A t \in Owned : \A x \in target[t] : x.id \in UserIds

\* No source row has two images, so a row and its user are of one run; and no
\* user has two profiles or phones.
NothingTwice ==
  \A t \in Tables : \A x, y \in target[t] :
    x.row = y.row \/ (t \in Columns /\ x.id = y.id) => x = y

\* The rows a table has to have in the end: not those of users that do not exist,
\* and of the profiles and phones of a user the last only, active or not.
Due(t) ==
  {r \in RowsIn[t] :
     /\ t \in Owned => OwnerOf[r] \in People
     /\ t \in Columns =>
          \A s \in RowsIn[t] : OwnerOf[s] = OwnerOf[r] => IdOf[s] <= IdOf[r]}

\* A run for all tables that comes to its report has left out nothing that was due.
ReportedComplete ==
  mode = "reported" => \A t \in Tables : \A r \in Due(t) : \E x \in target[t] : x.row = r

\* Whatever runs, runs for one table, resets and interruptions came before
\* (migrate.js; the ids are new in every run, and only the unique index of
\* users keeps a second run from adding to what the first one left).
MigrationSound == NoOrphans /\ NothingTwice /\ ReportedComplete
=============================================================================
