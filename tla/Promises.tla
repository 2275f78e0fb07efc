------------------------------ MODULE Promises ------------------------------
(***************************************************************************)
(* What the documentation, the comments and the tests of the repository say  *)
(* of the lead of an event and the code does not keep.  Each is violated by a *)
(* run of its own.                                                         *)
(***************************************************************************)
EXTENDS Backend

\* docs/features.md: when the creator leaves, the next participant becomes the
\* lead; so the lead of an active event takes part in it.  The heir that
\* handleCreatorLeave has read may leave before the transfer is written.
LeadTakesPart ==
  \A e \in DOMAIN events : events[e].active => HasRow(e, events[e].creator)

\* The comment of leave: the event is deleted if its creator is alone.
\* Somebody may join between the SELECT of the others and the DELETE.
ErasedWhenAlone ==
  [][\A r \in Request :
       (HasCascaded(r) /\ At(r, "tx:commit") /\ req'[r].status = OK)
         => participations[req[r].event] = <<req[r].user>>]_vars
=============================================================================
