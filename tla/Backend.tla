------------------------------ MODULE Backend -------------------------------
(***************************************************************************)
(* The backend: as many requests in flight as there are slots, each running *)
(* one handler of the four services over the same tables.                  *)
(***************************************************************************)
EXTENDS Participations, Events, Invitations, Messages

Serve(r) ==
  \/ Join(r) \/ Leave(r)
  \/ Create(r) \/ Update(r) \/ Removal(r)
  \/ Invite(r) \/ AnswerInvitation(r)
  \/ Message(r)
  \/ Release(r)

Next == \E r \in Request : \/ Begin(r) \/ BeginCreate(r)
                           \/ Serve(r)
                           \/ StatementFails(r) \/ DeadlockAbort(r)

Spec == TablesInit /\ [][Next]_vars

\* Node runs the continuation of every settled await, the pool and PostgreSQL
\* run every statement; PostgreSQL queues the waiters of a row in the order
\* they came, so a statement whose row is free again and again gets it, and it
\* looks for a deadlock whenever a statement has waited deadlock_timeout.
FairSpec == /\ Spec
            /\ \A r \in Request : /\ SF_vars(Serve(r))
                                  /\ WF_vars(DeadlockAbort(r))

-----------------------------------------------------------------------------
(* Types *)

\* Every variable has its type, every request the locals of its place, and no
\* user has two rows in one event (UNIQUE (user_id, event_id)).
TypeOK ==
  /\ spent \subseteq Event
  /\ DOMAIN events \subseteq Event
  /\ \A e \in DOMAIN events : events[e] \in Row
  /\ participations \in [Event -> Seq(User)]
  /\ \A e \in Event : IsInjective(participations[e])
  /\ invitations \in [Event -> [User -> Status]]
  /\ senders \in [Event -> SUBSET User]
  /\ announced \in [Event -> Nat]
  /\ req \in [Request -> Slot]
  /\ \A r \in Request : WellFormed(req[r])
  /\ failures \in 0..MaxFailures

-----------------------------------------------------------------------------
(* Properties of the tables under any interleaving *)

\* The requests that have found room in e and not inserted yet.
Inserting(e) == {r \in Request : At(r, "join:insert") /\ req[r].event = e}

\* checkCapacity and insertParticipation are two statements, so joins that
\* overlap may oversell an event; but never by more than the other requests in
\* flight, and the ones about to insert count against the same allowance.
OvershootBounded ==
  \A e \in Event :
    Len(participations[e]) + Cardinality(Inserting(e))
      <= MaxCapacity + Cardinality(Request) - 1

\* The row a creator's leave has deleted stays pinned until the transaction
\* ends: nobody removes the event or takes the row meanwhile, so that the
\* commit applies to the event and the row the transaction read.
OpenTransactionHoldsRow ==
  \A r \in Request :
    InTransaction(r) => /\ Exists(req[r].event)
                        /\ HasRow(req[r].event, req[r].user)

\* Two requests never both have changed or deleted the same row without having
\* committed: neither the row of an event nor a participation.
LocksExclusive ==
  \A r, s \in Request : r # s =>
    /\ \A e \in Event : ~(HoldsEvent(r, e) /\ HoldsEvent(s, e))
    /\ \A e \in Event, u \in User : ~(HoldsRow(r, u, e) /\ HoldsRow(s, u, e))

\* ON DELETE CASCADE and the foreign keys leave nothing of a removed event,
\* whatever was being inserted while it was removed.
NoOrphans ==
  \A e \in Event \ DOMAIN events :
    /\ participations[e] = <<>>
    /\ senders[e] = {}
    /\ \A u \in User : invitations[e][u] = "NONE"

\* r's next statement meets a row that another has changed or deleted, and waits.
Waits(r) ==
  LET e == req[r].event
      u == req[r].user
  IN  \/ req[r].pc \in {"join:insert", "leave:delete", "tx:delete"} /\ RowHeld(u, e)
      \/ At(r, "join:insert") /\ ~HasRow(e, u) /\ BeingDeleted(e)
      \/ /\ req[r].pc \in {"tx:transfer", "tx:deactivate", "tx:drop",
                           "update:scalars", "update:location", "remove:delete"}
         /\ EventHeld(e)
      \/ req[r].pc \in {"tx:cascade", "remove:cascade"} /\ CascadeBlocked(r)
      \/ req[r].pc \in {"invite:insert", "answer:write"} /\ InvitationsHeld(e)
      \/ /\ At(r, "invite:insert") /\ BeingDeleted(e)
         /\ invitations[e][req[r].peer] = "NONE"
      \/ At(r, "message:insert") /\ BeingDeleted(e)

\* s has rows of e that others wait for.
Holds(s, e) ==
  req[s].event = e /\ (InTransaction(s) \/ At(s, "remove:cascade"))

\* Whoever waits does so for an open transaction or a removal of his event, one
\* of which goes on or is in a deadlock of exactly two: however many requests
\* there are, no longer cycle of waits comes about, and what is taken for a
\* deadlock is one.
WaitsEnd ==
  \A r \in Request :
    /\ Waits(r) =>
         \E s \in Request :
           /\ Holds(s, req[r].event)
           /\ ~Waits(s) \/ \E q \in Request : Deadlocked(s, q) \/ Deadlocked(q, s)
    /\ \A s \in Request : Deadlocked(r, s) => Waits(r) /\ Waits(s)

\* As long as no event changes its visibility: who attends a private event
\* without leading it has accepted an invitation to it (and may have declined
\* it since, when two answers overlapped).
GuestsWereInvited ==
  \A e \in DOMAIN events : events[e].visibility = "PRIVATE" =>
    \A u \in User : HasRow(e, u) =>
      events[e].creator = u \/ invitations[e][u] \in {"ACCEPTED", "DECLINED"}

\* Every call is answered: no handler waits for ever, in a queue for a row or
\* in a cycle of requests that wait for each other.
EveryRequestAnswered ==
  \A r \in Request : req[r].pc \in Serving ~> At(r, "done")

-----------------------------------------------------------------------------
(* Properties of one request at a time *)

A == INSTANCE Attendance

\* Served one at a time, the calls have the effect that Attendance gives them,
\* at once and whole, also when a statement of theirs fails.
ImplementsAttendance == A!Spec

\* Between two calls the room of an active event has last been told the count of
\* the table, whatever joined, left, handed over or was updated before.  (Calls
\* that overlap may emit in another order than they count.)
RoomsAreCurrent ==
  (failures = 0 /\ \A r \in Request : At(r, "idle")) =>
    \A e \in DOMAIN events :
      events[e].active => announced[e] = CountParticipants(e)

\* The lead passes to whoever has attended the longest, so that the creator of
\* an active event has the oldest row of it; who leads a closed one has left.
CreatorIsOldest ==
  \A e \in DOMAIN events :
    IF events[e].active
    THEN participations[e] # <<>> /\ Head(participations[e]) = events[e].creator
    ELSE participations[e] = <<>>
=============================================================================
