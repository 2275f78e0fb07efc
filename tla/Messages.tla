------------------------------ MODULE Messages ------------------------------
(***************************************************************************)
(* MessagesService.saveMessage, called by MessagesGateway.handleSendMessage *)
(* for the WebSocket message chat:send.  A message's content and date are   *)
(* not kept: the events tables depend only on who has one.                  *)
(***************************************************************************)
EXTENDS Tables

\* assertEventExists
MessageEvent(r) ==
  LET e == req[r].event
  IN  /\ At(r, "message:event")
      /\ \/ ~Exists(e) /\ Answer(r, 404)
         \/ Exists(e) /\ Goto(r, "message:creator")
      /\ UNCHANGED <<tables, spent, announced, failures>>

\* assertParticipant lets the creator through before it looks for a row.
MessageCreator(r) ==
  LET e == req[r].event
      creates == Exists(e) /\ events[e].creator = req[r].user
  IN  /\ At(r, "message:creator")
      /\ Goto(r, IF creates THEN "message:insert" ELSE "message:participant")
      /\ UNCHANGED <<tables, spent, announced, failures>>

MessageParticipant(r) ==
  LET takesPart == HasRow(req[r].event, req[r].user)
  IN  /\ At(r, "message:participant")
      /\ \/ ~takesPart /\ Answer(r, 403)
         \/ takesPart /\ Goto(r, "message:insert")
      /\ UNCHANGED <<tables, spent, announced, failures>>

\* The INSERT's foreign key waits for a pending deletion of the event; its
\* violation is not translated.
MessageInsert(r) ==
  LET e == req[r].event
  IN  /\ At(r, "message:insert")
      /\ ~BeingDeleted(e)
      /\ \/ ~Exists(e) /\ Answer(r, 500) /\ UNCHANGED senders
         \/ /\ Exists(e)
            /\ senders' = [senders EXCEPT ![e] = @ \cup {req[r].user}]
            /\ Answer(r, OK)
      /\ UNCHANGED <<events, participations, invitations, spent, announced,
                     failures>>

Message(r) == \/ MessageEvent(r) \/ MessageCreator(r)
              \/ MessageParticipant(r) \/ MessageInsert(r)
=============================================================================
