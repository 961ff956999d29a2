-------------------------------- MODULE SignIn --------------------------------
(***************************************************************************)
(* What signing in through an identity provider promises a relying party:  *)
(* it takes somebody for a user only in an attempt the party began itself, *)
(* and only if the provider vouched for that user, which it does for       *)
(* whoever is logged in at that moment and for nobody else, or if a client *)
(* of the provider that completes attempts claimed the user.  The provider *)
(* vouches by itself; for what a client claims, the client answers.        *)
(***************************************************************************)

CONSTANTS
  Flows,   \* attempts to sign in
  Users,
  None

VARIABLES
  login,     \* the user logged in at the provider, or None
  started,   \* attempts the relying party has begun
  vouched,   \* <<f, u>>: the provider stands by user u in attempt f
  claimed,   \* <<f, u>>: a client completes attempt f for user u
  account    \* the <<f, u>> the relying party acts on, or None

vars == <<login, started, vouched, claimed, account>>

Init ==
  /\ login = None
  /\ started = {}
  /\ vouched = {}
  /\ claimed = {}
  /\ account = None

Start(f) ==
  /\ started' = started \cup {f}
  /\ UNCHANGED <<login, vouched, claimed, account>>

LogIn(u) ==
  /\ login' = u
  /\ UNCHANGED <<started, vouched, claimed, account>>

\* The login ends, and with it the relying party's session or not.
LogOut ==
  /\ login' = None
  /\ UNCHANGED <<started, vouched, claimed, account>>

Vouch(f) ==
  /\ f \in started
  /\ login # None
  /\ vouched' = vouched \cup {<<f, login>>}
  /\ UNCHANGED <<login, started, claimed, account>>

Claim(f, u) ==
  /\ f \in started
  /\ claimed' = claimed \cup {<<f, u>>}
  /\ UNCHANGED <<login, started, vouched, account>>

\* An attempt that fails after all.
Withdraw(f, u) ==
  /\ vouched' = vouched \ {<<f, u>>}
  /\ UNCHANGED <<login, started, claimed, account>>

Disclaim(f, u) ==
  /\ claimed' = claimed \ {<<f, u>>}
  /\ UNCHANGED <<login, started, vouched, account>>

Accept(f, u) ==
  /\ <<f, u>> \in vouched \cup claimed
  /\ account' = <<f, u>>
  /\ UNCHANGED <<login, started, vouched, claimed>>

Leave ==
  /\ account' = None
  /\ UNCHANGED <<login, started, vouched, claimed>>

Next ==
  \/ \E f \in Flows : Start(f) \/ Vouch(f)
  \/ \E u \in Users : LogIn(u)
  \/ \E f \in Flows, u \in Users :
       Claim(f, u) \/ Withdraw(f, u) \/ Disclaim(f, u) \/ Accept(f, u)
  \/ LogOut
  \/ Leave

Spec == Init /\ [][Next]_vars
=============================================================================
