------------------------------ MODULE MCAuthFlow ------------------------------
(***************************************************************************)
(* Two tabs, a pushed request of a service provider without IAL2 and a     *)
(* plain request of one with it.                                           *)
(***************************************************************************)
EXTENDS AuthFlow

CONSTANTS f1, f2

PushedInstance == {f1}

IalMaxInstance == [f \in Flows |-> IF f = f1 THEN 1 ELSE 2]

AcrsInstance ==
  [f \in Flows |->
     IF f = f1 THEN {<<"auth-only">>, <<"verified">>}
               ELSE {<<"loa/1">>, <<"loa/3", "aal/2">>, <<"duo">>}]

\* Requests that ask for AAL2, with IAL1 and with IAL2.
AcrsWithMfa ==
  [f \in Flows |->
     IF f = f1 THEN {<<"duo", "auth-only">>} ELSE {<<"loa/3", "aal/2">>}]
=============================================================================
