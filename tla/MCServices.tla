------------------------------- MODULE MCServices -------------------------------
(***************************************************************************)
(* What service providers send, what is kept of them, and how the data of  *)
(* the old system came in, in one run: "part" says which of the three      *)
(* moves, for they share no state.                                         *)
(*                                                                         *)
(* Events: two posts of one token, a proofing, and a limit of two          *)
(* attempts where the queue has three.                                     *)
(* Providers: two admin requests beside a lookup, and a copy that lives    *)
(* for two ticks.                                                          *)
(* Migration: two users, one with two profiles, batches of one row, an     *)
(* address of a user who does not exist, four runs.                        *)
(***************************************************************************)
EXTENDS RiscFraud, SpConfig, Migration

CONSTANTS
  u1, u2, nobody, profile1, profile2, phone, email1, email2, password, event, user1,
  account1, provider

VARIABLE part

SourceInstance ==
  {u1, u2, nobody, profile1, profile2, phone, email1, email2, password, event, user1,
   account1, provider}

RowsInInstance ==
  [t \in Tables |->
     CASE t = "users" -> {u1, u2}
       [] t = "profiles" -> {profile1, profile2} [] t = "phones" -> {phone}
       [] t = "user_emails" -> {email1, email2}  [] t = "credentials" -> {password}
       [] t = "identity_events" -> {event}       [] t = "user" -> {user1}
       [] t = "account" -> {account1}            [] t = "service_providers" -> {provider}]

OwnerInstance ==
  [r \in SourceInstance |->
     CASE r \in {u1, profile1, profile2, email1} -> u1
       [] r \in {u2, phone, password, event, user1, account1} -> u2
       [] OTHER -> nobody]

IdInstance == [r \in SourceInstance |-> IF r \in {u2, profile2, email2} THEN 2 ELSE 1]

ContentsInstance ==
  {<<"identity">>, <<"authorization", "identity">>, <<"other">>, <<>>}

ServicesTypeOK == RiscTypeOK /\ SpTypeOK /\ MigrationTypeOK

ServicesInit ==
  /\ RiscInit /\ SpInit /\ MigrationInit
  /\ part \in {"events", "providers", "migration"}
  /\ part # "events" =>
       user.ial = 1 /\ events \in [Tokens -> {<<>>}] /\ asks \in [Proofings -> {"verify"}]

ServicesNext ==
  /\ \/ part = "events" /\ RiscNext /\ UNCHANGED <<spVars, migrationVars>>
     \/ part = "providers" /\ SpNext /\ UNCHANGED <<riscVars, migrationVars>>
     \/ part = "migration" /\ MigrationNext /\ UNCHANGED <<riscVars, spVars>>
  /\ UNCHANGED part

ServicesSpec ==
  ServicesInit /\ [][ServicesNext]_<<riscVars, spVars, migrationVars, part>> /\ RiscFairness
=============================================================================
