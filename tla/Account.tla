------------------------------- MODULE Account -------------------------------
(***************************************************************************)
(* The account of one user: its addresses (routes/email.ts of account),    *)
(* its password and the links that reset it (routes/password.ts) and its   *)
(* deletion (routes/account.ts).                                           *)
(*                                                                         *)
(* A request is atomic between two calls to the database, KV or a queue.   *)
(* The SETs these handlers send name no provider and are skipped by their  *)
(* consumer (RiscFraud): they are left out.                                *)
(***************************************************************************)
EXTENDS Naturals, FiniteSets

CONSTANTS
  Jobs,        \* requests running at a time
  Rows,        \* ids of user_emails
  First,       \* the row of the address the account was registered with
  Addresses,
  FirstAddress,
  Passwords,   \* ids of credentials of type password
  Links,       \* password reset tokens: their jti
  LinkLife,    \* the life of a link, one hour, in ticks
  NoTarget,
  NoLink

ASSUME AccountAssumption ==
  /\ First \in Rows /\ NoTarget \notin Rows
  /\ FirstAddress \in Addresses
  /\ NoLink \notin Links
  /\ LinkLife \in Nat \ {0}

VARIABLES
  job,       \* per job: the last step it completed
  target,    \* per job: the row of user_emails it is about
  brings,    \* per job: the address it brings or read
  link,      \* per job: the link it brings
  cred,      \* per job: the credentials it read
  emails,    \* per row: see EmailRow
  email,     \* users.email, see Stored
  exists,    \* the users row exists
  confirmed, \* users.email_verified_at is set
  mailed,    \* verification tokens sent: their row and address
  password,  \* credentials of type password
  age,       \* per link: ticks since it was sent, LinkLife when it is expired
  sentLinks, \* links sent
  usedMark,  \* per link: ticks its reset_token_used entry has left
  clicked,   \* history: rows whose verification token came back
  spent,     \* history: links a reset was finished with
  overlapped, \* history: jobs that change addresses beside others
  settled    \* history: the last change of the primary address ended, and was alone

jobVars      == <<job, target, brings, link, cred, overlapped>>
emailVars    == <<emails, email, exists, confirmed, mailed, clicked, settled>>
passwordVars == <<password, age, sentLinks, usedMark, spent>>
accountVars  == <<jobVars, emailVars, passwordVars>>

EmailRow ==
  [here : BOOLEAN, address : Addresses, primary : BOOLEAN, verified : BOOLEAN]

\* The address in users, encrypted (sealed) or as it is.
Stored == [sealed : BOOLEAN, address : Addresses]

Sealed(address) == [sealed |-> TRUE, address |-> address]
Plain(address)  == [sealed |-> FALSE, address |-> address]

\* Readers decrypt what is stored, and take what does not decrypt for the
\* address itself.
Reads(stored) == stored.address

NoEmail == [here |-> FALSE, address |-> FirstAddress, primary |-> FALSE, verified |-> FALSE]

AccountTypeOK ==
  /\ job \in [Jobs -> {"idle", "free", "deletable", "eligible", "unset", "set", "read",
                       "verified", "primary", "none", "known", "unused", "found", "written"}]
  /\ target \in [Jobs -> Rows \cup {NoTarget}]
  /\ brings \in [Jobs -> Addresses]
  /\ link \in [Jobs -> Links \cup {NoLink}]
  /\ cred \in [Jobs -> SUBSET Passwords]
  /\ emails \in [Rows -> EmailRow]
  /\ email \in Stored
  /\ exists \in BOOLEAN /\ confirmed \in BOOLEAN
  /\ overlapped \subseteq Jobs /\ settled \in BOOLEAN
  /\ mailed \subseteq Rows \X Addresses /\ clicked \subseteq Rows
  /\ password \subseteq Passwords
  /\ age \in [Links -> 0..LinkLife] /\ usedMark \in [Links -> 0..LinkLife]
  /\ sentLinks \subseteq Links /\ spent \subseteq Links

\* ensureSharedUser makes a users row, with the address encrypted, and no row
\* in user_emails.
Native ==
  /\ emails = [r \in Rows |-> NoEmail]
  /\ email = Sealed(FirstAddress)
  /\ confirmed = TRUE

\* The migration writes the address as it is, and a row for it, marked and
\* confirmed as it was in the old database.
Migrated(primary, verified) ==
  /\ emails = [r \in Rows |->
       IF r = First
         THEN [here |-> TRUE, address |-> FirstAddress, primary |-> primary,
               verified |-> verified]
         ELSE NoEmail]
  /\ email = Plain(FirstAddress)
  /\ confirmed \in BOOLEAN

AccountInit ==
  /\ job = [j \in Jobs |-> "idle"]
  /\ target = [j \in Jobs |-> NoTarget]
  /\ brings = [j \in Jobs |-> FirstAddress]
  /\ link = [j \in Jobs |-> NoLink]
  /\ cred = [j \in Jobs |-> {}]
  /\ Native \/ \E primary, verified \in BOOLEAN : Migrated(primary, verified)
  /\ exists = TRUE
  /\ mailed = {} /\ clicked = {r \in Rows : emails[r].verified}
  /\ overlapped = {} /\ settled = FALSE
  /\ password = {}
  /\ age = [l \in Links |-> 0] /\ usedMark = [l \in Links |-> 0]
  /\ sentLinks = {} /\ spent = {}
-----------------------------------------------------------------------------
\* Jobs that remove an address or change which one is primary...
Changing(j) == job[j] \in {"deletable", "eligible", "unset", "set", "read"}

\* ... and those that have done a part of it.
HalfWay(j) == job[j] \in {"unset", "set", "read"}

Enter(j, s, row, address) ==
  /\ job[j] = "idle"
  /\ job' = [job EXCEPT ![j] = s]
  /\ target' = [target EXCEPT ![j] = row]
  /\ brings' = [brings EXCEPT ![j] = address]
  /\ UNCHANGED <<link, cred>>

Begin(j, s, row, address) == Enter(j, s, row, address) /\ UNCHANGED overlapped

\* The look before a change, beside others or not.
BeginChange(j, s, row) ==
  LET others == {i \in Jobs : Changing(i)} IN
  /\ Enter(j, s, row, emails[row].address)
  /\ overlapped' = IF others = {} THEN overlapped ELSE overlapped \cup others \cup {j}
  /\ settled' = (settled /\ others = {})

Go(j, from, to) ==
  /\ job[j] = from
  /\ job' = [job EXCEPT ![j] = to]
  /\ UNCHANGED <<target, brings, link, cred, overlapped>>

End(j, from) ==
  /\ job[j] = from
  /\ job' = [job EXCEPT ![j] = "idle"]
  /\ target' = [target EXCEPT ![j] = NoTarget]
  /\ brings' = [brings EXCEPT ![j] = FirstAddress]
  /\ link' = [link EXCEPT ![j] = NoLink]
  /\ cred' = [cred EXCEPT ![j] = {}]
  /\ overlapped' = overlapped \ {j}

\* A call fails and the request ends where it is.
Fail(j) ==
  /\ job[j] # "idle"
  /\ End(j, job[j])
  /\ settled' = (settled /\ ~HalfWay(j))
  /\ UNCHANGED <<emails, email, exists, confirmed, mailed, clicked, passwordVars>>
-----------------------------------------------------------------------------
(***************************************************************************)
(* Addresses.                                                              *)
(***************************************************************************)

\* An id that was never used.
New(row) == row # First /\ \A t \in mailed : t[1] # row

\* POST /emails/:userId looks for the address among all users'...
LookAddress(j, row, address) ==
  /\ New(row)
  /\ \A r \in Rows : emails[r].here => emails[r].address # address
  /\ Begin(j, "free", row, address)
  /\ UNCHANGED <<emailVars, passwordVars>>

\* What the token of a row says, besides the user.
Token(row, address) == <<row, address>>

\* ... inserts it and sends a token.  The id is new.
InsertEmail(j) ==
  /\ job[j] = "free" /\ New(target[j])
  /\ emails' = [emails EXCEPT ![target[j]] =
       [here |-> TRUE, address |-> brings[j], primary |-> FALSE, verified |-> FALSE]]
  /\ mailed' = mailed \cup {Token(target[j], brings[j])}
  /\ End(j, "free")
  /\ UNCHANGED <<email, exists, confirmed, clicked, settled, passwordVars>>

\* DELETE /emails/:userId/:emailId is not for a primary address...
LookDeletable(j, row) ==
  /\ emails[row].here /\ ~emails[row].primary
  /\ BeginChange(j, "deletable", row)
  /\ UNCHANGED <<emails, email, exists, confirmed, mailed, clicked, passwordVars>>

\* ... at the time of the look.
DeleteEmail(j) ==
  /\ End(j, "deletable")
  /\ emails' = [emails EXCEPT ![target[j]] = NoEmail]
  /\ UNCHANGED <<email, exists, confirmed, mailed, clicked, settled, passwordVars>>

\* PATCH /emails/:userId/:emailId/primary: a verified address...
LookVerified(j, row) ==
  /\ emails[row].here /\ emails[row].verified
  /\ BeginChange(j, "eligible", row)
  /\ UNCHANGED <<emails, email, exists, confirmed, mailed, clicked, passwordVars>>

\* Variant: the primary address is not unset.
KeepPrimary(j) ==
  /\ Go(j, "eligible", "unset")
  /\ UNCHANGED <<emailVars, passwordVars>>

WithPrimary(r, p) ==
  [here |-> emails[r].here, address |-> emails[r].address, primary |-> p,
   verified |-> emails[r].verified]

\* ... replaces the primary one in two statements...
UnsetPrimary(j) ==
  /\ Go(j, "eligible", "unset")
  /\ emails' = [r \in Rows |-> WithPrimary(r, FALSE)]
  /\ UNCHANGED <<email, exists, confirmed, mailed, clicked, settled, passwordVars>>

SetPrimary(j) ==
  /\ Go(j, "unset", "set")
  /\ emails' = [emails EXCEPT ![target[j]] = WithPrimary(target[j], emails[target[j]].here)]
  /\ UNCHANGED <<email, exists, confirmed, mailed, clicked, settled, passwordVars>>

\* ... and, if it is still there, is written to the users row.
ReadPrimary(j) ==
  /\ job[j] = "set"
  /\ IF emails[target[j]].here THEN Go(j, "set", "read") ELSE End(j, "set")
  /\ UNCHANGED <<emailVars, passwordVars>>

\* The users row gets the address as it is, though it was registered encrypted.
WriteUser(j) ==
  /\ End(j, "read")
  /\ email' = IF exists THEN Plain(brings[j]) ELSE email
  /\ settled' = (j \notin overlapped)
  /\ UNCHANGED <<emails, exists, confirmed, mailed, clicked, passwordVars>>

\* Variant: the token is for any row with its address.
AddressClause(t) == {r \in Rows : emails[r].here /\ emails[r].address = t[2]}

\* The id, the user and the address in the token.
EmailIdClause(t) == {r \in {t[1]} : emails[r].here /\ emails[r].address = t[2]}

\* A token with a good signature was sent.
Genuine(t) == t \in mailed

\* POST /emails/verify
VerifyEmail(j, t) ==
  /\ Genuine(t)
  /\ emails' = [r \in Rows |->
       IF r \in EmailIdClause(t)
         THEN [here |-> TRUE, address |-> emails[r].address, primary |-> emails[r].primary,
               verified |-> TRUE]
         ELSE emails[r]]
  /\ clicked' = clicked \cup {t[1]}
  /\ Begin(j, "verified", t[1], t[2])
  /\ UNCHANGED <<email, exists, confirmed, mailed, settled, passwordVars>>

\* POST /emails/:userId/:emailId/resend-verification, for an address that
\* is not verified: the token is the one that was sent.
ResendToken(row) ==
  /\ emails[row].here /\ ~emails[row].verified
  /\ mailed' = mailed \cup {Token(row, emails[row].address)}
  /\ UNCHANGED <<jobVars, emails, email, exists, confirmed, clicked, settled, passwordVars>>

LookPrimary(j) ==
  /\ job[j] = "verified"
  /\ IF emails[target[j]].here /\ emails[target[j]].primary
       THEN Go(j, "verified", "primary") ELSE End(j, "verified")
  /\ UNCHANGED <<emailVars, passwordVars>>

ConfirmUser(j) ==
  /\ End(j, "primary")
  /\ confirmed' = exists
  /\ UNCHANGED <<emails, email, exists, mailed, clicked, settled, passwordVars>>
-----------------------------------------------------------------------------
(***************************************************************************)
(* The password.                                                           *)
(***************************************************************************)

\* POST /password/set, for a user without one.
LookNoPassword(j) ==
  /\ password = {}
  /\ Begin(j, "none", NoTarget, FirstAddress)
  /\ UNCHANGED <<emailVars, passwordVars>>

InsertPassword(j, c) ==
  /\ c \notin password
  /\ End(j, "none")
  /\ password' = password \cup {c}
  /\ UNCHANGED <<emailVars, age, sentLinks, usedMark, spent>>

\* POST /password/forgot finds the user by the blind index of the address
\* of registration and sends a link there.
Forgot(l) ==
  /\ exists /\ l \notin sentLinks
  /\ sentLinks' = sentLinks \cup {l}
  /\ UNCHANGED <<jobVars, emailVars, password, age, usedMark, spent>>

\* A link with a good signature that is not expired.
Valid(l) == l \in sentLinks /\ age[l] < LinkLife

\* POST /password/reset with a valid link that is not marked as used...
LookLink(j, l) ==
  /\ Valid(l) /\ usedMark[l] = 0
  /\ job[j] = "idle"
  /\ job' = [job EXCEPT ![j] = "unused"]
  /\ link' = [link EXCEPT ![j] = l]
  /\ UNCHANGED <<target, brings, cred, overlapped, emailVars, passwordVars>>

\* ... looks for a password, ...
LookPassword(j) ==
  /\ job[j] = "unused"
  /\ job' = [job EXCEPT ![j] = "found"]
  /\ \E c \in SUBSET password :
       /\ Cardinality(c) = IF password = {} THEN 0 ELSE 1
       /\ cred' = [cred EXCEPT ![j] = c]
  /\ UNCHANGED <<target, brings, link, overlapped, emailVars, passwordVars>>

\* ... updates it or inserts one, ...
WritePassword(j) ==
  /\ Go(j, "found", "written")
  /\ IF cred[j] = {} THEN \E c \in Passwords \ password : password' = password \cup {c}
                     ELSE UNCHANGED password
  /\ UNCHANGED <<emailVars, age, sentLinks, usedMark, spent>>

\* Variant: the mark lasts for half the life of a link.
HalfLife == LinkLife \div 2

UsedMarkTtl == LinkLife

\* ... and marks the link.
MarkUsed(j) ==
  /\ End(j, "written")
  /\ usedMark' = [usedMark EXCEPT ![link[j]] = UsedMarkTtl]
  /\ spent' = spent \cup {link[j]}
  /\ UNCHANGED <<emailVars, password, age, sentLinks>>

\* A tick of the clock: links age, marks run out.
Hour ==
  /\ \E l \in sentLinks : age[l] < LinkLife
  /\ age' = [l \in Links |-> IF l \in sentLinks /\ age[l] < LinkLife THEN age[l] + 1
                             ELSE age[l]]
  /\ usedMark' = [l \in Links |-> IF usedMark[l] = 0 THEN 0 ELSE usedMark[l] - 1]
  /\ UNCHANGED <<jobVars, emailVars, password, sentLinks, spent>>
-----------------------------------------------------------------------------
\* DELETE /account/:userId: one transaction.
DeleteAccount ==
  /\ exists
  /\ exists' = FALSE /\ confirmed' = FALSE
  /\ emails' = [r \in Rows |-> NoEmail]
  /\ password' = {}
  /\ UNCHANGED <<jobVars, email, mailed, clicked, settled, age, sentLinks, usedMark,
                 spent>>
-----------------------------------------------------------------------------
EmailNext ==
  \/ \E j \in Jobs :
       \/ \E row \in Rows :
            \/ \E address \in Addresses : LookAddress(j, row, address)
            \/ LookDeletable(j, row) \/ LookVerified(j, row)
       \/ \E t \in Rows \X Addresses : VerifyEmail(j, t)
       \/ InsertEmail(j) \/ DeleteEmail(j)
       \/ UnsetPrimary(j) \/ SetPrimary(j) \/ ReadPrimary(j) \/ WriteUser(j)
       \/ LookPrimary(j) \/ ConfirmUser(j)
  \/ \E row \in Rows : ResendToken(row)

PasswordNext ==
  \/ \E j \in Jobs :
       \/ LookNoPassword(j) \/ \E c \in Passwords : InsertPassword(j, c)
       \/ \E l \in Links : LookLink(j, l)
       \/ LookPassword(j) \/ WritePassword(j) \/ MarkUsed(j)
  \/ \E l \in Links : Forgot(l)
  \/ Hour

AccountNext ==
  \/ EmailNext \/ PasswordNext
  \/ \E j \in Jobs : Fail(j)
  \/ DeleteAccount

AccountSpec == AccountInit /\ [][AccountNext]_accountVars
-----------------------------------------------------------------------------
(***************************************************************************)
(* What is promised about an account.                                      *)
(***************************************************************************)

Primaries == {r \in Rows : emails[r].here /\ emails[r].primary}

\* The registered address and those whose token came back.
Proven == {FirstAddress} \cup {t[2] : t \in {u \in mailed : u[1] \in clicked}}

\* The primary address is changed by five statements without a transaction
\* (email.ts:178-209), of an account registered without any row in user_emails
\* or migrated with one.  Once a change ran to its end and was alone, also
\* after others that overlapped or failed half-way, there is exactly one
\* primary address, verified and the one readers of the users row get, until
\* a change overlaps with another one or fails half-way.  And whatever
\* overlaps or fails, the users row has no address that nobody proved.
PrimaryKept ==
  /\ Reads(email) \in Proven
  /\ exists /\ settled /\ (\A j \in Jobs : ~HalfWay(j)) =>
       \E r \in Rows :
         Primaries = {r} /\ emails[r].verified /\ emails[r].address = Reads(email)

\* A verification token proves its own row only: not another row with the
\* same address, as after the address was removed and added again
\* (emailIdClause in email.ts).
TokenProvesItsRow == \A r \in Rows : emails[r].verified => r \in clicked

Resetting(l) ==
  {j \in Jobs : link[j] = l /\ job[j] \in {"unused", "found", "written"}}

\* A link resets a password once: when a reset with it is finished and none
\* is in progress, no other begins, however long the link lives
\* (password.ts: the mark is put last and has to outlive the link).
LinkResetsOnce ==
  [][\A l \in Links :
       l \in spent /\ Resetting(l) = {} => Resetting(l)' = {}]_accountVars
=============================================================================
