----------------------------- MODULE MCAccounts -----------------------------
(***************************************************************************)
(* Accounts on small instances.  Ids and request slots are interchangeable;  *)
(* of the addresses one is the admin's.                                     *)
(***************************************************************************)
EXTENDS Accounts

Symmetry == Permutations(Account) \cup Permutations(Place)
              \cup Permutations(Request)
=============================================================================
