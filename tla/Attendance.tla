----------------------------- MODULE Attendance -----------------------------
(***************************************************************************)
(* What the backend promises about who attends which event, as if every     *)
(* call took effect at once: the abstract specification that Backend         *)
(* implements when it serves one request at a time.                        *)
(***************************************************************************)
EXTENDS Integers, Sequences

CONSTANTS User, Admin, Event, MaxCapacity

VARIABLES events, participations, invitations, senders

attendance == <<events, participations, invitations, senders>>

Attends(u, e) == \E i \in DOMAIN participations[e] : participations[e][i] = u

\* The rows of e without that of u, in the order they came.
Others(u, e) ==
  LET rows  == participations[e]
      place == CHOOSE i \in DOMAIN rows : rows[i] = u
  IN  [i \in 1..Len(rows)-1 |-> rows[IF i < place THEN i ELSE i + 1]]

Open(e) == e \in DOMAIN events /\ events[e].active

Leads(u, e) == e \in DOMAIN events /\ events[e].creator = u

Erase(e) ==
  /\ events' = [x \in DOMAIN events \ {e} |-> events[x]]
  /\ participations' = [participations EXCEPT ![e] = <<>>]
  /\ invitations' = [invitations EXCEPT ![e] = [u \in User |-> "NONE"]]
  /\ senders' = [senders EXCEPT ![e] = {}]

-----------------------------------------------------------------------------
Create(u, e, c, v) ==
  /\ e \notin DOMAIN events
  /\ events' = [x \in DOMAIN events \cup {e} |->
                  IF x = e THEN [creator |-> u, capacity |-> c,
                                 visibility |-> v, active |-> TRUE]
                  ELSE events[x]]
  /\ participations' = [participations EXCEPT ![e] = <<u>>]
  /\ UNCHANGED <<invitations, senders>>

\* A user attends an open event that has room and, if it is private, to which
\* he has accepted an invitation; its creator attends it already.
Join(u, e) ==
  /\ Open(e) /\ ~Leads(u, e) /\ ~Attends(u, e)
  /\ events[e].visibility = "PRIVATE" => invitations[e][u] = "ACCEPTED"
  /\ Len(participations[e]) < events[e].capacity
  /\ participations' = [participations EXCEPT ![e] = Append(@, u)]
  /\ UNCHANGED <<events, invitations, senders>>

Leave(u, e) ==
  /\ Open(e) /\ ~Leads(u, e) /\ Attends(u, e)
  /\ participations' = [participations EXCEPT ![e] = Others(u, e)]
  /\ UNCHANGED <<events, invitations, senders>>

\* A creator who leaves hands the event to who has attended it the longest ...
HandOver(u, e) ==
  /\ Open(e) /\ Leads(u, e) /\ Attends(u, e) /\ Others(u, e) # <<>>
  /\ participations' = [participations EXCEPT ![e] = Others(u, e)]
  /\ events' = [events EXCEPT ![e].creator = Others(u, e)[1]]
  /\ UNCHANGED <<invitations, senders>>

\* ... and, alone, closes an event that was talked about and erases another.
Close(u, e) ==
  /\ Open(e) /\ participations[e] = <<u>> /\ Leads(u, e)
  /\ \/ /\ senders[e] # {}
        /\ events' = [events EXCEPT ![e].active = FALSE]
        /\ participations' = [participations EXCEPT ![e] = <<>>]
        /\ UNCHANGED <<invitations, senders>>
     \/ senders[e] = {} /\ Erase(e)

Change(u, e, c, v) ==
  /\ e \in DOMAIN events /\ (Leads(u, e) \/ u \in Admin)
  /\ events' = [events EXCEPT ![e].capacity = c, ![e].visibility = v]
  /\ UNCHANGED <<participations, invitations, senders>>

Remove(u, e) ==
  /\ e \in DOMAIN events /\ (Leads(u, e) \/ u \in Admin)
  /\ Erase(e)

Invite(u, e, w) ==
  /\ Leads(u, e) /\ events[e].visibility = "PRIVATE"
  /\ w # u /\ invitations[e][w] = "NONE"
  /\ invitations' = [invitations EXCEPT ![e][w] = "PENDING"]
  /\ UNCHANGED <<events, participations, senders>>

\* An invitation is answered once.
Reply(u, e, status) ==
  /\ invitations[e][u] = "PENDING"
  /\ invitations' = [invitations EXCEPT ![e][u] = status]
  /\ UNCHANGED <<events, participations, senders>>

Talk(u, e) ==
  /\ Leads(u, e) \/ (e \in DOMAIN events /\ Attends(u, e))
  /\ senders' = [senders EXCEPT ![e] = @ \cup {u}]
  /\ UNCHANGED <<events, participations, invitations>>

-----------------------------------------------------------------------------
Init ==
  /\ events = [e \in {} |-> {}]
  /\ participations = [e \in Event |-> <<>>]
  /\ invitations = [e \in Event |-> [u \in User |-> "NONE"]]
  /\ senders = [e \in Event |-> {}]

Next ==
  \E u \in User, e \in Event :
    \/ Join(u, e) \/ Leave(u, e) \/ HandOver(u, e) \/ Close(u, e)
    \/ Remove(u, e) \/ Talk(u, e)
    \/ \E c \in 1..MaxCapacity, v \in {"PUBLIC", "PRIVATE"} :
         Create(u, e, c, v) \/ Change(u, e, c, v)
    \/ \E w \in User : Invite(u, e, w)
    \/ \E status \in {"ACCEPTED", "DECLINED"} : Reply(u, e, status)

Spec == Init /\ [][Next]_attendance
=============================================================================
