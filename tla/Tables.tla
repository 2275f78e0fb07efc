------------------------------- MODULE Tables -------------------------------
(***************************************************************************)
(* The PostgreSQL tables the backend keeps its events in, and the requests  *)
(* the backend is serving.                                                 *)
(*                                                                         *)
(* Every SQL statement the services send is one step.  The pool runs a      *)
(* statement outside any transaction (database.service.ts:28-42), so it     *)
(* commits at once; ParticipationsService.handleCreatorLeave alone opens a  *)
(* transaction (database.service.ts:52-65).  The isolation level is         *)
(* PostgreSQL's default, READ COMMITTED: a statement sees what is committed *)
(* when it starts, and one that meets a row another transaction is changing *)
(* waits.  Between two statements of a request any other request may run.   *)
(***************************************************************************)
EXTENDS Integers, SequencesExt, FiniteSetsExt

CONSTANTS
  User,             \* the rows of users
  Admin,            \* the users whose role is ADMIN
  Nobody,           \* no user: a request slot that serves nobody
  Event,            \* the UUIDs create may draw
  NoEvent,          \* no event: a request that has drawn no UUID yet
  Request,          \* one slot for each request served at the same time
  MaxCapacity,      \* the greatest capacity a dto asks for
  Operation,        \* the operations the clients call
  MaxFailures,      \* how many statements may fail
  EventsHasActive,  \* has the events table an "active" column?
  ChatServer        \* what Nest injects as the chat gateway's server

ASSUME UsersAssumption   == Nobody \notin User /\ Admin \subseteq User
ASSUME EventsAssumption  == NoEvent \notin Event
ASSUME RequestAssumption == IsFiniteSet(Request) /\ Request # {}
ASSUME BoundsAssumption  == MaxCapacity \in Nat \ {0} /\ MaxFailures \in Nat
ASSUME DeployAssumption  ==
  EventsHasActive \in BOOLEAN /\ ChatServer \in {"Namespace", "Server"}

VARIABLES
  events,          \* the rows of events, by id
  spent,           \* the UUIDs drawn so far: no UUID is drawn twice
  participations,  \* the users of each event's rows, in the order of their
                   \* INSERTs: joined_at's, but for INSERTs that overlap
  invitations,     \* the status of each user's invitation to each event
  senders,         \* the users who have a message in each event's chat
  announced,       \* the last participantCount emitted to each event's room
  req,             \* what each request slot is doing, with its locals
  failures         \* how many statements have failed

tables == <<events, participations, invitations, senders>>
vars   == <<tables, spent, announced, req, failures>>

-----------------------------------------------------------------------------
(* Rows and requests. *)

Visibility == {"PUBLIC", "PRIVATE"}
Status     == {"NONE", "PENDING", "ACCEPTED", "DECLINED"}

Row == [creator : User, capacity : 1..MaxCapacity,
        visibility : Visibility, active : BOOLEAN]

\* The write of the events row that an open transaction has made.
Write == {"none", "transfer", "deactivate", "drop"}

JoinPc    == {"join:event", "join:access", "join:capacity", "join:insert",
              "join:count", "join:emit"}
LeavePc   == {"leave:event", "leave:delete", "leave:count", "leave:emit"}
\* The transaction is open and has deleted the leaver's row.
OpenPc    == {"tx:next", "tx:transfer", "tx:messages", "tx:deactivate",
              "tx:drop", "tx:cascade", "tx:commit"}
EventPc   == {"create:insert", "create:emit", "update:event", "update:scalars",
              "update:location", "update:reread", "update:emit",
              "remove:event", "remove:delete", "remove:cascade", "remove:emit"}
InvitePc  == {"invite:event", "invite:insert", "answer:read", "answer:write"}
MessagePc == {"message:event", "message:creator", "message:participant",
              "message:insert"}
Serving   == JoinPc \cup LeavePc \cup OpenPc \cup {"tx:delete"} \cup EventPc
               \cup InvitePc \cup MessagePc

OK == 200
Code == {0, OK, 400, 403, 404, 409, 500}

Slot == [pc : Serving \cup {"idle", "done"},
         user   : User \cup {Nobody},
         event  : Event \cup {NoEvent},
         cap    : 0..MaxCapacity,       \* event.capacity, as join read it
         count  : Nat,                  \* countParticipants' answer
         peer   : User \cup {Nobody},   \* the heir, or the invited user
         write  : Write,
         status : Code]                 \* the HTTP status answered

\* A request keeps the locals that the rest of its handler reads.
WellFormed(s) ==
  /\ s.pc \in Serving => s.user \in User /\ s.event \in Event
  /\ s.pc \in {"tx:transfer", "invite:insert"} \/ s.write = "transfer"
       => s.peer \in User
  /\ s.write # "none" <=> s.pc \in {"tx:cascade", "tx:commit"}
  /\ s.pc = "tx:cascade" => s.write = "drop"

Idle == [pc |-> "idle", user |-> Nobody, event |-> NoEvent, cap |-> 0,
         count |-> 0, peer |-> Nobody, write |-> "none", status |-> 0]

Done(status) == [Idle EXCEPT !.pc = "done", !.status = status]

At(r, pc)         == req[r].pc = pc
Become(r, slot)   == req' = [req EXCEPT ![r] = slot]
Goto(r, pc)       == req' = [req EXCEPT ![r].pc = pc]
Answer(r, status) == Become(r, Done(status))

-----------------------------------------------------------------------------
(* Statements. *)

Exists(e) == e \in DOMAIN events

HasRow(e, u) == Contains(participations[e], u)

\* SELECT COUNT(*) FROM participations WHERE event_id = e
CountParticipants(e) == Len(participations[e])

\* What DELETE ... WHERE user_id = u leaves of an event's rows.
WithoutRow(rows, u) ==
  IF Contains(rows, u)
  THEN RemoveAt(rows, CHOOSE i \in 1..Len(rows) : rows[i] = u)
  ELSE rows

\* DELETE FROM events WHERE id = e, with its ON DELETE CASCADEs.
DeleteEvent(e) ==
  /\ events' = [x \in DOMAIN events \ {e} |-> events[x]]
  /\ participations' = [participations EXCEPT ![e] = <<>>]
  /\ invitations' = [invitations EXCEPT ![e] = [u \in User |-> "NONE"]]
  /\ senders' = [senders EXCEPT ![e] = {}]

-----------------------------------------------------------------------------
(* Row locks.  Each is a fact about a request's place in its handler.        *)

InTransaction(r) == req[r].pc \in OpenPc

\* The transaction has deleted the event and all the rows that refer to it.
HasCascaded(r) == At(r, "tx:commit") /\ req[r].write = "drop"

\* r has deleted u's participation in e and has not committed.
HoldsRow(r, u, e) ==
  InTransaction(r) /\ req[r].event = e /\ (req[r].user = u \/ HasCascaded(r))

RowHeld(u, e) == \E r \in Request : HoldsRow(r, u, e)

\* r has deleted the events row of e and has not committed.
Deletes(r, e) ==
  req[r].event = e /\ (At(r, "remove:cascade") \/ req[r].write = "drop")

BeingDeleted(e) == \E r \in Request : Deletes(r, e)

\* r has changed or deleted the events row of e and has not committed.
HoldsEvent(r, e) ==
  req[r].event = e /\ (At(r, "remove:cascade") \/ req[r].write # "none")

EventHeld(e) == \E r \in Request : HoldsEvent(r, e)

\* A cascade of r's waits for the rows other transactions have deleted.
CascadeBlocked(r) ==
  \E s \in Request \ {r} : InTransaction(s) /\ req[s].event = req[r].event

\* Each waits for a row the other holds.
Deadlocked(r, s) ==
  /\ req[r].event = req[s].event
  /\ req[r].pc \in {"remove:cascade", "tx:cascade"}
  /\ req[s].pc \in {"tx:transfer", "tx:deactivate", "tx:drop"}

-----------------------------------------------------------------------------
(* The life of a request. *)

FirstPc ==
  [join |-> "join:event", leave |-> "leave:event", update |-> "update:event",
   remove |-> "remove:event", invite |-> "invite:event",
   answer |-> "answer:read", message |-> "message:event"]

\* The ids the clients have: of events, removed or not, that were inserted.  (An
\* event whose insertion failed stands for any UUID that names nothing.)
Known == spent \ {req[r].event : r \in {s \in Request : At(s, "create:insert")}}

\* A controller receives a call that names an event.
Begin(r) ==
  /\ At(r, "idle")
  /\ \E op \in Operation \cap DOMAIN FirstPc, u \in User, e \in Known :
       Become(r, [Idle EXCEPT !.pc = FirstPc[op], !.user = u, !.event = e])
  /\ UNCHANGED <<tables, spent, announced, failures>>

\* A controller receives a call that creates one: create draws its UUID.
BeginCreate(r) ==
  /\ At(r, "idle")
  /\ "create" \in Operation
  /\ \E u \in User, e \in Event \ spent :
       /\ Become(r, [Idle EXCEPT !.pc = "create:insert", !.user = u, !.event = e])
       /\ spent' = spent \cup {e}
  /\ UNCHANGED <<tables, announced, failures>>

\* The response has left.
Release(r) ==
  /\ At(r, "done")
  /\ Become(r, Idle)
  /\ UNCHANGED <<tables, spent, announced, failures>>

\* Emissions are calls of the gateway, not statements: they never fail.
Emitting == {"join:emit", "leave:emit", "create:emit", "update:emit",
             "remove:emit"}

\* A statement fails: PostgreSQL refuses it, or none of the pool's connections
\* is free within connectionTimeoutMillis.  It rejects, an open transaction is
\* rolled back, and the exception filter answers 500.  (What a lost connection
\* does to a unit of work, and to the process, is module Pool's.)
StatementFails(r) ==
  /\ failures < MaxFailures
  /\ req[r].pc \in Serving \ Emitting
  /\ failures' = failures + 1
  /\ Answer(r, 500)
  /\ UNCHANGED <<tables, spent, announced>>

\* PostgreSQL breaks a deadlock by failing a statement of either party.
DeadlockAbort(r) ==
  /\ \E s \in Request \ {r} : Deadlocked(r, s) \/ Deadlocked(s, r)
  /\ Answer(r, 500)
  /\ UNCHANGED <<tables, spent, announced, failures>>

-----------------------------------------------------------------------------
TablesInit ==
  /\ events = [e \in {} |-> {}]
  /\ spent = {}
  /\ participations = [e \in Event |-> <<>>]
  /\ invitations = [e \in Event |-> [u \in User |-> "NONE"]]
  /\ senders = [e \in Event |-> {}]
  /\ announced = [e \in Event |-> 0]
  /\ req = [r \in Request |-> Idle]
  /\ failures = 0
=============================================================================
