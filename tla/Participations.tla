--------------------------- MODULE Participations ---------------------------
(***************************************************************************)
(* ParticipationsService: POST /events/:id/join and DELETE                  *)
(* /events/:id/leave.  Each action is one await of the handler, with the    *)
(* code that runs before the next one.                                     *)
(***************************************************************************)
EXTENDS Tables

\* getEventOrThrow's SELECT names the column active: PostgreSQL refuses the
\* statement when the table has no such column.
GetEventOrThrow(e) ==
  IF ~EventsHasActive THEN 500
  ELSE IF Exists(e) /\ events[e].active THEN OK ELSE 404

-----------------------------------------------------------------------------
(* join *)

JoinEvent(r) ==
  LET e == req[r].event
      found == GetEventOrThrow(e)
  IN  /\ At(r, "join:event")
      /\ \/ found # OK /\ Answer(r, found)
         \/ found = OK /\ events[e].creator = req[r].user /\ Answer(r, 403)
         \/ /\ found = OK
            /\ events[e].creator # req[r].user
            /\ Become(r, [req[r] EXCEPT
                 !.pc = IF events[e].visibility = "PRIVATE"
                        THEN "join:access" ELSE "join:capacity",
                 !.cap = events[e].capacity])
      /\ UNCHANGED <<tables, spent, announced, failures>>

\* A mutant: any invitation lets its user in.
JoinAccessInvited(r) ==
  /\ At(r, "join:access")
  /\ IF invitations[req[r].event][req[r].user] # "NONE"
     THEN Goto(r, "join:capacity") ELSE Answer(r, 403)
  /\ UNCHANGED <<tables, spent, announced, failures>>

\* checkPrivateAccess
JoinAccess(r) ==
  LET accepted == invitations[req[r].event][req[r].user] = "ACCEPTED"
  IN  /\ At(r, "join:access")
      /\ \/ accepted /\ Goto(r, "join:capacity")
         \/ ~accepted /\ Answer(r, 403)
      /\ UNCHANGED <<tables, spent, announced, failures>>

\* A mutant: one more than the capacity is let in.
JoinCapacityOneMore(r) ==
  /\ At(r, "join:capacity")
  /\ IF CountParticipants(req[r].event) <= req[r].cap
     THEN Goto(r, "join:insert") ELSE Answer(r, 400)
  /\ UNCHANGED <<tables, spent, announced, failures>>

\* A mutant: a user waits for a place to come free.
JoinCapacityWaits(r) ==
  /\ At(r, "join:capacity")
  /\ Goto(r, IF CountParticipants(req[r].event) < req[r].cap
             THEN "join:insert" ELSE "join:capacity")
  /\ UNCHANGED <<tables, spent, announced, failures>>

\* checkCapacity
JoinCapacity(r) ==
  LET free == CountParticipants(req[r].event) < req[r].cap
  IN  /\ At(r, "join:capacity")
      /\ \/ free /\ Goto(r, "join:insert")
         \/ ~free /\ Answer(r, 400)
      /\ UNCHANGED <<tables, spent, announced, failures>>

\* A mutant: participations has neither UNIQUE nor REFERENCES.
JoinInsertUnconstrained(r) ==
  LET e == req[r].event
  IN  /\ At(r, "join:insert")
      /\ participations' = [participations EXCEPT ![e] = Append(@, req[r].user)]
      /\ Become(r, [req[r] EXCEPT !.pc = "join:count", !.cap = 0])
      /\ UNCHANGED <<events, invitations, senders, spent, announced, failures>>

\* insertParticipation.  UNIQUE (user_id, event_id) is checked first and waits
\* for a transaction that is deleting the same row; the foreign key is checked
\* next and waits for one that is deleting the event.
JoinInsert(r) ==
  LET e == req[r].event
      u == req[r].user
  IN  /\ At(r, "join:insert")
      /\ ~RowHeld(u, e)
      /\ \/ HasRow(e, u) /\ Answer(r, 409) /\ UNCHANGED participations
         \/ /\ ~HasRow(e, u)
            /\ ~BeingDeleted(e)
            /\ ~Exists(e)
            /\ Answer(r, 404)
            /\ UNCHANGED participations
         \/ /\ ~HasRow(e, u)
            /\ ~BeingDeleted(e)
            /\ Exists(e)
            /\ participations' = [participations EXCEPT ![e] = Append(@, u)]
            /\ Become(r, [req[r] EXCEPT !.pc = "join:count", !.cap = 0])
      /\ UNCHANGED <<events, invitations, senders, spent, announced, failures>>

\* A mutant: the participants are counted before the INSERT.
JoinCountEarly(r) ==
  /\ At(r, "join:count")
  /\ Become(r, [req[r] EXCEPT !.pc = "join:emit",
                              !.count = CountParticipants(req[r].event) - 1])
  /\ UNCHANGED <<tables, spent, announced, failures>>

JoinCount(r) ==
  /\ At(r, "join:count")
  /\ Become(r, [req[r] EXCEPT !.pc = "join:emit",
                              !.count = CountParticipants(req[r].event)])
  /\ UNCHANGED <<tables, spent, announced, failures>>

\* emitJoined
JoinEmit(r) ==
  /\ At(r, "join:emit")
  /\ announced' = [announced EXCEPT ![req[r].event] = req[r].count]
  /\ Answer(r, OK)
  /\ UNCHANGED <<tables, spent, failures>>

-----------------------------------------------------------------------------
(* leave, by a user who is not the creator *)

LeaveEvent(r) ==
  LET e == req[r].event
      found == GetEventOrThrow(e)
  IN  /\ At(r, "leave:event")
      /\ \/ found # OK /\ Answer(r, found)
         \/ /\ found = OK
            /\ Goto(r, IF events[e].creator = req[r].user
                       THEN "tx:delete" ELSE "leave:delete")
      /\ UNCHANGED <<tables, spent, announced, failures>>

\* deleteParticipation
LeaveDelete(r) ==
  LET e == req[r].event
      u == req[r].user
  IN  /\ At(r, "leave:delete")
      /\ ~RowHeld(u, e)
      /\ \/ ~HasRow(e, u) /\ Answer(r, 404) /\ UNCHANGED participations
         \/ /\ HasRow(e, u)
            /\ participations' =
                 [participations EXCEPT ![e] = WithoutRow(@, u)]
            /\ Goto(r, "leave:count")
      /\ UNCHANGED <<events, invitations, senders, spent, announced, failures>>

LeaveCount(r) ==
  /\ At(r, "leave:count")
  /\ Become(r, [req[r] EXCEPT !.pc = "leave:emit",
                              !.count = CountParticipants(req[r].event)])
  /\ UNCHANGED <<tables, spent, announced, failures>>

\* kickFromChat reads this.server.sockets.sockets.  On a Namespace, sockets is
\* already the map of sockets, its own member "sockets" is undefined, and the
\* call of forEach throws; on a Server it is the map of the root namespace.
KickFromChat == IF ChatServer = "Namespace" THEN 500 ELSE OK

\* emitLeft, then kickFromChat
LeaveEmit(r) ==
  /\ At(r, "leave:emit")
  /\ announced' = [announced EXCEPT ![req[r].event] = req[r].count]
  /\ Answer(r, KickFromChat)
  /\ UNCHANGED <<tables, spent, failures>>

-----------------------------------------------------------------------------
(* leave, by the creator: handleCreatorLeave.  Until TxCommit the tables     *)
(* keep what the other requests see; the transaction's own writes are its    *)
(* place in the handler, its heir (peer) and its write.                      *)

\* A mutant: the DELETE is sent to the pool and not to the transaction's client.
TxDeletePooled(r) ==
  LET e == req[r].event
      u == req[r].user
  IN  /\ At(r, "tx:delete")
      /\ ~RowHeld(u, e)
      /\ participations' = [participations EXCEPT ![e] = WithoutRow(@, u)]
      /\ IF HasRow(e, u) THEN Goto(r, "tx:next") ELSE Answer(r, 404)
      /\ UNCHANGED <<events, invitations, senders, spent, announced, failures>>

\* A mutant: a SELECT looks for the row, which the commit is to delete.
TxDeleteLater(r) ==
  /\ At(r, "tx:delete")
  /\ IF HasRow(req[r].event, req[r].user)
     THEN Goto(r, "tx:next") ELSE Answer(r, 404)
  /\ UNCHANGED <<tables, spent, announced, failures>>

TxDelete(r) ==
  LET e == req[r].event
      u == req[r].user
  IN  /\ At(r, "tx:delete")
      /\ ~RowHeld(u, e)
      /\ \/ ~HasRow(e, u) /\ Answer(r, 404)
         \/ HasRow(e, u) /\ Goto(r, "tx:next")
      /\ UNCHANGED <<tables, spent, announced, failures>>

\* A mutant: ORDER BY joined_at DESC.
TxNextNewest(r) ==
  LET others == WithoutRow(participations[req[r].event], req[r].user)
  IN  /\ At(r, "tx:next")
      /\ IF others = <<>> THEN Goto(r, "tx:messages")
         ELSE Become(r, [req[r] EXCEPT !.pc = "tx:transfer",
                                       !.peer = Last(others)])
      /\ UNCHANGED <<tables, spent, announced, failures>>

\* SELECT the oldest of the other rows
TxNext(r) ==
  LET others == WithoutRow(participations[req[r].event], req[r].user)
  IN  /\ At(r, "tx:next")
      /\ \/ others = <<>> /\ Goto(r, "tx:messages")
         \/ /\ others # <<>>
            /\ Become(r, [req[r] EXCEPT !.pc = "tx:transfer",
                                        !.peer = Head(others)])
      /\ UNCHANGED <<tables, spent, announced, failures>>

TxMessages(r) ==
  /\ At(r, "tx:messages")
  /\ Goto(r, IF senders[req[r].event] # {} THEN "tx:deactivate" ELSE "tx:drop")
  /\ UNCHANGED <<tables, spent, announced, failures>>

\* UPDATE events SET creator_id, or SET active = false: waits for the row.
TxWrite(r) ==
  /\ ~EventHeld(req[r].event)
  /\ \/ /\ At(r, "tx:transfer")
        /\ Become(r, [req[r] EXCEPT !.pc = "tx:commit", !.write = "transfer"])
     \/ /\ At(r, "tx:deactivate")
        /\ Become(r, [req[r] EXCEPT !.pc = "tx:commit", !.write = "deactivate"])
     \/ /\ At(r, "tx:drop")
        /\ Become(r, [req[r] EXCEPT !.pc = "tx:cascade", !.write = "drop"])
  /\ UNCHANGED <<tables, spent, announced, failures>>

\* DELETE FROM events goes on to the rows that refer to the event.
TxCascade(r) ==
  /\ At(r, "tx:cascade")
  /\ ~CascadeBlocked(r)
  /\ Goto(r, "tx:commit")
  /\ UNCHANGED <<tables, spent, announced, failures>>

\* A mutant: the COMMIT is forgotten, and its locks are kept.
TxCommitForgotten(r) ==
  /\ At(r, "tx:commit")
  /\ Goto(r, "leave:count")
  /\ UNCHANGED <<tables, spent, announced, failures>>

TxCommit(r) ==
  LET e == req[r].event
      leaves == participations' =
        [participations EXCEPT ![e] = WithoutRow(@, req[r].user)]
  IN  /\ At(r, "tx:commit")
      /\ \/ /\ req[r].write = "transfer"
            /\ events' = [events EXCEPT ![e].creator = req[r].peer]
            /\ leaves
            /\ Become(r, [req[r] EXCEPT !.pc = "leave:count", !.peer = Nobody,
                                        !.write = "none"])
            /\ UNCHANGED <<invitations, senders>>
         \/ /\ req[r].write = "deactivate"
            /\ events' = [events EXCEPT ![e].active = FALSE]
            /\ leaves
            /\ Answer(r, OK)
            /\ UNCHANGED <<invitations, senders>>
         \/ req[r].write = "drop" /\ DeleteEvent(e) /\ Answer(r, OK)
      /\ UNCHANGED <<spent, announced, failures>>

-----------------------------------------------------------------------------
Join(r)  == \/ JoinEvent(r) \/ JoinAccess(r) \/ JoinCapacity(r)
            \/ JoinInsert(r) \/ JoinCount(r) \/ JoinEmit(r)

Leave(r) == \/ LeaveEvent(r) \/ LeaveDelete(r) \/ LeaveCount(r) \/ LeaveEmit(r)
            \/ TxDelete(r) \/ TxNext(r) \/ TxMessages(r) \/ TxWrite(r)
            \/ TxCascade(r) \/ TxCommit(r)
=============================================================================
