--------------------------- MODULE SingleUseGrant ---------------------------
(***************************************************************************)
(* What an authorization code promises, whoever redeems it and however     *)
(* often: it is held by one redeemer at most, it yields tokens at most     *)
(* once, only to the service provider it was issued to, and it does not    *)
(* stay redeemable for ever.                                               *)
(***************************************************************************)

CONSTANTS
  Codes,
  SpOf,     \* the service provider each code is issued to
  Nobody    \* no client

VARIABLES
  grant,  \* none, live, held by a redeemer, granted or void
  payee   \* the client that was given tokens, Nobody before

vars == <<grant, payee>>

Init ==
  /\ grant = [c \in Codes |-> "none"]
  /\ payee = [c \in Codes |-> Nobody]

Move(c, from, to) == grant[c] = from /\ grant' = [grant EXCEPT ![c] = to]

Issue(c) == Move(c, "none", "live") /\ UNCHANGED payee

\* A redeemer takes the code.
Take(c) == Move(c, "live", "held") /\ UNCHANGED payee

\* Codes lapse untouched, any number of them at once.
Lapse(expired) ==
  /\ \A c \in expired : grant[c] = "live"
  /\ grant' = [c \in Codes |-> IF c \in expired THEN "void" ELSE grant[c]]
  /\ UNCHANGED payee

\* The redeemer is given tokens, or the code is burned.
Give(c) ==
  /\ Move(c, "held", "granted")
  /\ payee' = [payee EXCEPT ![c] = SpOf[c]]

Burn(c) == Move(c, "held", "void") /\ UNCHANGED payee

Next ==
  \/ \E c \in Codes : Issue(c) \/ Take(c) \/ Give(c) \/ Burn(c)
  \/ \E expired \in SUBSET Codes : Lapse(expired)

\* A code stops being redeemable.
Leave(c) == Take(c) \/ \E expired \in SUBSET Codes : c \in expired /\ Lapse(expired)

\* A code does not stay redeemable, and a redeemer does not hold it, for ever.
Fairness ==
  \A c \in Codes : WF_vars(Leave(c)) /\ WF_vars(Give(c) \/ Burn(c))

Safety == Init /\ [][Next]_vars

Spec == Safety /\ Fairness
=============================================================================
