----------------------------- MODULE Invitations ----------------------------
(***************************************************************************)
(* InvitationsService: POST /events/:id/invite and PATCH /invitations/:id.  *)
(* An invitation's id stands for its (event, invited user), which is UNIQUE. *)
(* No user is removed in this model, so findUserOrFail always finds one.    *)
(***************************************************************************)
EXTENDS Tables

\* create's checks on the event, in the code's order
MayInvite(inviter, invited, e) ==
  IF ~Exists(e) THEN 404
  ELSE IF events[e].visibility # "PRIVATE" THEN 400
  ELSE IF events[e].creator # inviter THEN 403
  ELSE IF invited = inviter THEN 400 ELSE OK

InviteEvent(r) ==
  /\ At(r, "invite:event")
  /\ \E invited \in User :
       LET allowed == MayInvite(req[r].user, invited, req[r].event)
       IN  \/ allowed # OK /\ Answer(r, allowed)
           \/ /\ allowed = OK
              /\ Become(r, [req[r] EXCEPT !.pc = "invite:insert",
                                          !.peer = invited])
  /\ UNCHANGED <<tables, spent, announced, failures>>

\* A transaction has deleted the event's invitations and not committed.
InvitationsHeld(e) ==
  \E s \in Request : req[s].event = e /\ HasCascaded(s)

\* insertInvitation; emitInvitation follows in the same step.
InviteInsert(r) ==
  LET e == req[r].event
      u == req[r].peer
      invited == invitations[e][u] # "NONE"
  IN  /\ At(r, "invite:insert")
      /\ ~InvitationsHeld(e)
      /\ \/ invited /\ Answer(r, 409) /\ UNCHANGED invitations
         \/ /\ ~invited
            /\ ~BeingDeleted(e)
            /\ ~Exists(e)
            /\ Answer(r, 404)
            /\ UNCHANGED invitations
         \/ /\ ~invited
            /\ ~BeingDeleted(e)
            /\ Exists(e)
            /\ invitations' = [invitations EXCEPT ![e][u] = "PENDING"]
            /\ Answer(r, OK)
      /\ UNCHANGED <<events, participations, senders, spent, announced,
                     failures>>

-----------------------------------------------------------------------------
(* updateStatus *)

\* The checks on the invitation read, in the code's order
MayAnswer(u, invited, e) ==
  IF invitations[e][invited] = "NONE" THEN 404
  ELSE IF invited # u THEN 403
  ELSE IF invitations[e][invited] # "PENDING" THEN 400 ELSE OK

AnswerRead(r) ==
  /\ At(r, "answer:read")
  /\ \E invited \in User :
       LET allowed == MayAnswer(req[r].user, invited, req[r].event)
       IN  \/ allowed # OK /\ Answer(r, allowed)
           \/ allowed = OK /\ Goto(r, "answer:write")
  /\ UNCHANGED <<tables, spent, announced, failures>>

\* UPDATE invitations ... WHERE id = $2: whatever the status is by now, and
\* no row if the event's cascade has taken it, which is answered alike.
AnswerWrite(r) ==
  LET e == req[r].event
      u == req[r].user
  IN  /\ At(r, "answer:write")
      /\ ~InvitationsHeld(e)
      /\ \/ /\ invitations[e][u] = "NONE"
            /\ UNCHANGED invitations
         \/ /\ invitations[e][u] # "NONE"
            /\ \E status \in {"ACCEPTED", "DECLINED"} :
                 invitations' = [invitations EXCEPT ![e][u] = status]
      /\ Answer(r, OK)
      /\ UNCHANGED <<events, participations, senders, spent, announced,
                     failures>>

-----------------------------------------------------------------------------
Invite(r) == InviteEvent(r) \/ InviteInsert(r)

AnswerInvitation(r) == AnswerRead(r) \/ AnswerWrite(r)
=============================================================================
