------------------------------- MODULE MCFactors -------------------------------
(***************************************************************************)
(* The factors of one user and the account they belong to, in one run:     *)
(* "part" says which of them moves.  They share nothing but the users row, *)
(* and the addresses and the password of an account share only whether the *)
(* account exists.                                                         *)
(*                                                                         *)
(* Factors: three requests with the same method, two of them wrong or with *)
(* the same secret, or with two methods; codes 1 and 2 are of the first    *)
(* generation, 3 of the second; a lockout after two failures, texts that   *)
(* are tried twice.  WebAuthn: two requests with one challenge and one     *)
(* with another, or one beside a wrong and a good backup code; counts      *)
(* that are not kept, lower, the same and higher.  Cards: beside one       *)
(* WebAuthn request.                                                       *)
(* Account: two requests, three rows for two addresses, one link that      *)
(* lives for two ticks.                                                    *)
(***************************************************************************)
EXTENDS Mfa, Account, TLC

CONSTANTS q1, q2, q3

ASSUME FactorsAssumption == q1 \in Requests

VARIABLE part

Values == {<<0, 0, 1>>, <<1, 1, 2>>}

Uniform(m, v) ==
  [r \in Requests |->
     [method |-> m, value |-> IF r = q1 THEN v[1] ELSE IF r = q2 THEN v[2] ELSE v[3]]]

Mixed ==
  [r \in Requests |-> IF r = q3 THEN [method |-> "webauthn", value |-> 1]
                      ELSE [method |-> "backup", value |-> IF r = q1 THEN 1 ELSE 0]]

Assertions == Uniform("webauthn", <<1, 1, 2>>)

PlansInstance ==
  {Uniform(m, v) : m \in Methods \ {"webauthn"}, v \in Values} \cup {Assertions, Mixed}

StampInstance == [r \in Requests |-> IF r = q1 THEN 1 ELSE IF r = q2 THEN 2 ELSE 3]

GenInstance == [v \in Secrets |-> IF v = 3 THEN 2 ELSE 1]

\* Jobs, and the rows of added addresses, differ in name only.
Symmetric == Permutations(Jobs) \cup Permutations(Rows \ {First})

FactorsTypeOK == MfaTypeOK /\ AccountTypeOK

FactorsInit ==
  /\ Init /\ AccountInit
  /\ part \in {"factors", "cards", "emails", "password"}
  /\ part = "cards" => body = Assertions
  /\ part \in {"emails", "password"} => body = CHOOSE plan \in Plans : TRUE
  /\ part # "emails" => Native
  /\ confirmed \/ emails[First].primary
  /\ confirmed => Native

FactorsNext ==
  /\ \/ part = "factors" /\ Next /\ UNCHANGED <<cardVars, accountVars>>
     \/ part = "cards" /\ Cards /\ UNCHANGED <<vars, accountVars>>
     \/ /\ part = "cards"
        /\ Advance(q1) \/ Provide \/ RequireAal2
        /\ UNCHANGED <<cardVars, accountVars>>
     \/ part = "emails" /\ EmailNext /\ UNCHANGED <<vars, cardVars>>
     \/ part = "password" /\ PasswordNext /\ UNCHANGED <<vars, cardVars>>
     \/ /\ part \in {"emails", "password"}
        /\ DeleteAccount \/ \E j \in Jobs : Fail(j)
        /\ UNCHANGED <<vars, cardVars>>
  /\ UNCHANGED part

FactorsSpec == FactorsInit /\ [][FactorsNext]_<<vars, cardVars, accountVars, part>>
=============================================================================
