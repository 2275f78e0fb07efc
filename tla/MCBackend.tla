----------------------------- MODULE MCBackend ------------------------------
(***************************************************************************)
(* Backend on small instances.  Each cfg gives model values to the users,   *)
(* the UUIDs and the request slots, and names the operations it enables.    *)
(***************************************************************************)
EXTENDS Promises, TLC

\* Users are interchangeable but for the admins; UUIDs and slots always are.
Symmetry == Permutations(User \ Admin) \cup Permutations(Event)
              \cup Permutations(Request)
=============================================================================
