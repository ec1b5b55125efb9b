------------------------------- MODULE MCAccess -------------------------------
(***************************************************************************)
(* One run over three components that share no state: a behaviour starts   *)
(* in one of them and stays there, so that TLC explores the three state    *)
(* spaces one beside the other and not their product.                      *)
(***************************************************************************)
EXTENDS Accounts, Logins, Cases

CONSTANTS a, b, d1, d2, m, n, c1, c2

VARIABLE part

vars == <<part, accountVars, loginVars, caseVars>>

Init ==
  /\ part \in {"accounts", "logins", "cases"}
  /\ AccountsInit /\ LoginsInit /\ CasesInit
  /\ part # "cases" => caseStatus = "open"

Next ==
  \/ part = "accounts" /\ AccountsNext /\ UNCHANGED <<part, loginVars, caseVars>>
  \/ part = "logins" /\ LoginsNext /\ UNCHANGED <<part, accountVars, caseVars>>
  \/ part = "cases" /\ CasesNext /\ UNCHANGED <<part, accountVars, loginVars>>

Spec == Init /\ [][Next]_vars /\ LoginsFairness

\* Every variable of the three components has its type.
TypeOK == AccountsTypeOK /\ LoginsTypeOK /\ CasesTypeOK
=============================================================================
