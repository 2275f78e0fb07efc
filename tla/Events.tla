------------------------------- MODULE Events -------------------------------
(***************************************************************************)
(* EventsService and EventsCrudService: POST /events, PATCH /events/:id and *)
(* DELETE /events/:id.  Title, dates, address and location are not kept:    *)
(* no guard of the backend reads them.                                     *)
(***************************************************************************)
EXTENDS Tables

\* findById, then the check shared by update and remove; it reads the row
\* whether it is active or not.
MayChange(u, e) ==
  IF ~Exists(e) THEN 404
  ELSE IF events[e].creator = u \/ u \in Admin THEN OK ELSE 403

-----------------------------------------------------------------------------
(* create *)

\* buildCreateSQL: one statement inserts the event and its creator's row.
CreateInsert(r) ==
  LET u == req[r].user
      e == req[r].event
  IN  /\ At(r, "create:insert")
      /\ \E c \in 1..MaxCapacity, v \in Visibility :
           events' = [x \in DOMAIN events \cup {e} |->
                        IF x = e THEN [creator |-> u, capacity |-> c,
                                       visibility |-> v, active |-> TRUE]
                        ELSE events[x]]
      /\ participations' = [participations EXCEPT ![e] = <<u>>]
      /\ Goto(r, "create:emit")
      /\ UNCHANGED <<invitations, senders, spent, announced, failures>>

\* emitCreated: participantCount is the literal 1 of the SQL.
CreateEmit(r) ==
  /\ At(r, "create:emit")
  /\ announced' = [announced EXCEPT ![req[r].event] = 1]
  /\ Answer(r, OK)
  /\ UNCHANGED <<tables, spent, failures>>

-----------------------------------------------------------------------------
(* update *)

\* applyUpdate sends the scalar columns, then the location, each only if the
\* dto has it.
UpdateEvent(r) ==
  LET allowed == MayChange(req[r].user, req[r].event)
  IN  /\ At(r, "update:event")
      /\ \/ allowed # OK /\ Answer(r, allowed)
         \/ /\ allowed = OK
            /\ \E pc \in {"update:scalars", "update:location", "update:reread"} :
                 Goto(r, pc)
      /\ UNCHANGED <<tables, spent, announced, failures>>

\* Any subset of capacity and visibility: keeping the old value is choosing it.
UpdateScalars(r) ==
  LET e == req[r].event
  IN  /\ At(r, "update:scalars")
      /\ ~EventHeld(e)
      /\ \E c \in 1..MaxCapacity, v \in Visibility :
           events' = [events EXCEPT ![e].capacity = c, ![e].visibility = v]
      /\ \E pc \in {"update:location", "update:reread"} : Goto(r, pc)
      /\ UNCHANGED <<participations, invitations, senders, spent, announced,
                     failures>>

UpdateLocation(r) ==
  /\ At(r, "update:location")
  /\ ~EventHeld(req[r].event)
  /\ Goto(r, "update:reread")
  /\ UNCHANGED <<tables, spent, announced, failures>>

\* The second findById answers 404 if the event has gone meanwhile.
UpdateReread(r) ==
  LET e == req[r].event
  IN  /\ At(r, "update:reread")
      /\ \/ ~Exists(e) /\ Answer(r, 404)
         \/ /\ Exists(e)
            /\ Become(r, [req[r] EXCEPT !.pc = "update:emit",
                                        !.count = CountParticipants(e)])
      /\ UNCHANGED <<tables, spent, announced, failures>>

\* emitUpdated, with the participantCount the second findById read
UpdateEmit(r) ==
  /\ At(r, "update:emit")
  /\ announced' = [announced EXCEPT ![req[r].event] = req[r].count]
  /\ Answer(r, OK)
  /\ UNCHANGED <<tables, spent, failures>>

-----------------------------------------------------------------------------
(* remove *)

RemoveEvent(r) ==
  LET allowed == MayChange(req[r].user, req[r].event)
  IN  /\ At(r, "remove:event")
      /\ \/ allowed # OK /\ Answer(r, allowed)
         \/ allowed = OK /\ Goto(r, "remove:delete")
      /\ UNCHANGED <<tables, spent, announced, failures>>

\* DELETE FROM events takes the row, if it is still there; rowCount is unread.
RemoveDelete(r) ==
  LET e == req[r].event
  IN  /\ At(r, "remove:delete")
      /\ ~EventHeld(e)
      /\ Goto(r, IF Exists(e) THEN "remove:cascade" ELSE "remove:emit")
      /\ UNCHANGED <<tables, spent, announced, failures>>

\* ... and then the rows that refer to it, which commits the statement.
RemoveCascade(r) ==
  /\ At(r, "remove:cascade")
  /\ ~CascadeBlocked(r)
  /\ DeleteEvent(req[r].event)
  /\ Goto(r, "remove:emit")
  /\ UNCHANGED <<spent, announced, failures>>

\* emitDeleted
RemoveEmit(r) ==
  /\ At(r, "remove:emit")
  /\ announced' = [announced EXCEPT ![req[r].event] = 0]
  /\ Answer(r, OK)
  /\ UNCHANGED <<tables, spent, failures>>

-----------------------------------------------------------------------------
Create(r) == CreateInsert(r) \/ CreateEmit(r)

Update(r) == \/ UpdateEvent(r) \/ UpdateScalars(r) \/ UpdateLocation(r)
             \/ UpdateReread(r) \/ UpdateEmit(r)

Removal(r) == \/ RemoveEvent(r) \/ RemoveDelete(r) \/ RemoveCascade(r)
                \/ RemoveEmit(r)
=============================================================================
