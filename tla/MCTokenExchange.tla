--------------------------- MODULE MCTokenExchange ---------------------------
(***************************************************************************)
(* An instance of TokenExchange for TLC: two codes of two providers, and   *)
(* an assertion of the first provider, which may present either code.      *)
(***************************************************************************)
EXTENDS TokenExchange, TLC

CONSTANTS c1, c2, sp1, sp2, a1

SpOfInstance == (c1 :> sp1) @@ (c2 :> sp2)
IssuerInstance == (a1 :> sp1)
=============================================================================
