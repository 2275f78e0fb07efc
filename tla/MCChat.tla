------------------------------- MODULE MCChat --------------------------------
(***************************************************************************)
(* Chat on a small instance: two users, two messages, pages of one message,  *)
(* a clock of three ticks, two of them in one millisecond.                   *)
(***************************************************************************)
EXTENDS Chat

Symmetry == Permutations(User)
=============================================================================
