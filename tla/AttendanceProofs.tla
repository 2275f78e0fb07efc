-------------------------- MODULE AttendanceProofs --------------------------
(***************************************************************************)
(* The backend served one request at a time implements Attendance: the      *)
(* statements of each handler add up to one atomic step of it, for every    *)
(* set of users and UUIDs, every capacity and every number of failures.     *)
(***************************************************************************)
EXTENDS BackendProofs

-----------------------------------------------------------------------------
(* The inductive invariant *)

OneSlot == \A r, s \in Request : r = s

Active(e) == Exists(e) /\ events[e].active

Leads(u, e) == Exists(e) /\ events[e].creator = u

Invited(u, e) ==
  events[e].visibility = "PRIVATE" => invitations[e][u] = "ACCEPTED"

OthersOf(r) == WithoutRow(participations[req[r].event], req[r].user)

\* What each handler has found out of its event so far and still holds, because
\* nothing else has run since: join ...
JoinFinds(r) ==
  LET e == req[r].event
      u == req[r].user
  IN  /\ req[r].pc \in {"join:access", "join:capacity", "join:insert"} =>
           Active(e) /\ ~Leads(u, e) /\ req[r].cap = events[e].capacity
      /\ req[r].pc \in {"join:capacity", "join:insert"} => Invited(u, e)
      /\ At(r, "join:insert") => CountParticipants(e) < req[r].cap

\* ... leave ...
LeaveFinds(r) ==
  LET e == req[r].event
      u == req[r].user
  IN  /\ At(r, "leave:delete") => Active(e) /\ ~Leads(u, e)
      /\ req[r].pc \in OpenPc \cup {"tx:delete"} => Active(e) /\ Leads(u, e)
      /\ At(r, "tx:transfer") \/ req[r].write = "transfer" =>
           OthersOf(r) # <<>> /\ req[r].peer = Head(OthersOf(r))
      /\ req[r].pc \in {"tx:messages", "tx:deactivate", "tx:drop"}
           \/ req[r].write \in {"deactivate", "drop"} =>
           OthersOf(r) = <<>>
      /\ At(r, "tx:deactivate") \/ req[r].write = "deactivate" => senders[e] # {}
      /\ At(r, "tx:drop") \/ req[r].write = "drop" => senders[e] = {}

\* ... create, update and remove ...
EventFinds(r) ==
  LET e == req[r].event
      u == req[r].user
  IN  /\ At(r, "create:insert") => ~Exists(e)
      /\ At(r, "create:emit") => CountParticipants(e) = 1
      /\ req[r].pc \in {"update:scalars", "update:location", "update:reread",
                        "remove:delete", "remove:cascade"} =>
           Exists(e) /\ (Leads(u, e) \/ u \in Admin)
      /\ req[r].pc \in {"join:emit", "leave:emit", "update:emit"} =>
           req[r].count = CountParticipants(e)
      /\ At(r, "remove:emit") => ~Exists(e)

\* ... invitations and messages.
OtherFinds(r) ==
  LET e == req[r].event
      u == req[r].user
  IN  /\ At(r, "invite:insert") =>
           Leads(u, e) /\ events[e].visibility = "PRIVATE" /\ req[r].peer # u
      /\ At(r, "answer:write") => invitations[e][u] = "PENDING"
      /\ req[r].pc \in {"message:creator", "message:participant"} => Exists(e)
      /\ At(r, "message:insert") => Exists(e) /\ (Leads(u, e) \/ HasRow(e, u))

Finds(r) == JoinFinds(r) /\ LeaveFinds(r) /\ EventFinds(r) /\ OtherFinds(r)

\* The places between a change of an event's rows and the word of it.
Telling == {"join:count", "join:emit", "leave:count", "leave:emit", "create:emit"}

\* The room of an active event has the count, or is about to.
RoomsTold ==
  failures = 0 => \A e \in DOMAIN events : events[e].active =>
    \/ announced[e] = CountParticipants(e)
    \/ \E r \in Request : req[r].event = e /\ req[r].pc \in Telling

SoloInv ==
  /\ LockInv /\ OneSlot
  /\ CreatorIsOldest
  /\ RoomsTold
  /\ \A r \in Request : Finds(r)

-----------------------------------------------------------------------------
(* Steps that only read *)

\* The places at which a handler has found nothing out yet, or has no use for it
\* any more.
Blank == {"idle", "done", "join:event", "join:count", "leave:event",
          "leave:count", "update:event", "remove:event", "invite:event",
          "answer:read", "message:event"}

\* Finds says nothing there.
LEMMA BlankFinds ==
  ASSUME NEW r \in Request, req[r].pc \in Blank, req[r].write = "none"
  PROVE  Finds(r)
BY DEF Blank, Finds, JoinFinds, LeaveFinds, EventFinds, OtherFinds, At, OpenPc

\* The only slot is the one that moves.
LEMMA SoloStep ==
  ASSUME SoloInv, LockInv', NEW r \in Request, CreatorIsOldest', RoomsTold', Finds(r)'
  PROVE  SoloInv'
<1>1. \A q \in Request : q = r
  BY DEF SoloInv, OneSlot
<1> QED BY <1>1 DEF SoloInv, OneSlot

\* The lead is where it was if the tables are.
LEMMA OldestKept ==
  ASSUME SoloInv, UNCHANGED <<events, participations>>
  PROVE  CreatorIsOldest'
BY DEF SoloInv, CreatorIsOldest

\* Each room has the count, or is about to, if nothing happened to its event, or
\* it has just been told, or its event's rows have just changed.
LEMMA RoomsKept ==
  ASSUME SoloInv, NEW r \in Request, failures' = 0 => failures = 0,
         \A e \in DOMAIN events' : events'[e].active =>
           \/ /\ Active(e)
              /\ participations'[e] = participations[e]
              /\ announced'[e] = announced[e]
              /\ req[r].event = e /\ req[r].pc \in Telling =>
                   req'[r].event = e /\ req'[r].pc \in Telling
           \/ announced'[e] = Len(participations'[e])
           \/ req'[r].event = e /\ req'[r].pc \in Telling
  PROVE  RoomsTold'
<1> SUFFICES ASSUME failures' = 0, NEW e \in DOMAIN events', events'[e].active
             PROVE  \/ announced'[e] = Len(participations'[e])
                    \/ \E q \in Request : req'[q].event = e /\ req'[q].pc \in Telling
  BY DEF RoomsTold, CountParticipants
<1>1. CASE /\ Active(e)
           /\ participations'[e] = participations[e]
           /\ announced'[e] = announced[e]
           /\ req[r].event = e /\ req[r].pc \in Telling =>
                req'[r].event = e /\ req'[r].pc \in Telling
  <2>1. \/ announced[e] = Len(participations[e])
        \/ \E q \in Request : req[q].event = e /\ req[q].pc \in Telling
    BY <1>1 DEF SoloInv, RoomsTold, Active, Exists, CountParticipants
  <2>2. \A q \in Request : q = r
    BY DEF SoloInv, OneSlot
  <2> QED BY <1>1, <2>1, <2>2
<1> QED BY <1>1

\* A step that reads keeps the invariant if what it finds out is so.
LEMMA ReadingSolo ==
  ASSUME SoloInv, LockInv', NEW r \in Request,
         UNCHANGED <<tables, announced>>, failures' = 0 => failures = 0,
         \/ req[r].pc \notin Telling \/ failures' # 0
         \/ req'[r].pc \in Telling /\ req'[r].event = req[r].event,
         Finds(r)'
  PROVE  SoloInv'
<1>1. CreatorIsOldest'
  BY OldestKept DEF tables
<1>2. RoomsTold'
  <2>1. CASE failures' # 0
    BY <2>1 DEF RoomsTold
  <2>2. CASE failures' = 0
    BY <2>2, RoomsKept DEF tables, Active, Exists
  <2> QED BY <2>1, <2>2
<1> QED BY <1>1, <1>2, SoloStep

\* A request that answers has nothing to hold.
LEMMA AnswerSolo ==
  ASSUME SoloInv, LockInv', NEW r \in Request, NEW status, Answer(r, status),
         UNCHANGED <<tables, announced>>, failures' = 0 => failures = 0,
         req[r].pc \notin Telling \/ failures' # 0
  PROVE  SoloInv'
<1>1. req'[r].pc = "done" /\ req'[r].write = "none"
  BY AnswerPc, AnswerQuiet DEF SoloInv, LockInv, Quiet
<1>2. Finds(r)'
  BY <1>1, BlankFinds
     DEF Blank, Finds, JoinFinds, LeaveFinds, EventFinds, OtherFinds, At, OpenPc
<1> QED BY <1>2, ReadingSolo

-----------------------------------------------------------------------------
(* join *)

\* What join finds out before it inserts.
LEMMA JoinReadsSolo ==
  ASSUME SoloInv, NEW r \in Request, JoinEvent(r) \/ JoinAccess(r) \/ JoinCapacity(r)
  PROVE  SoloInv'
<1> DEFINE e == req[r].event
           u == req[r].user
<1>1. /\ LockInv' /\ TypeOK /\ Finds(r)
      /\ UNCHANGED <<tables, announced, failures>>
      /\ req[r].pc \notin Telling
  BY JoinLocks DEF SoloInv, LockInv, Join, JoinEvent, JoinAccess, JoinCapacity, At,
                   Telling
<1>2. CASE \E status : Answer(r, status)
  BY <1>1, <1>2, AnswerSolo
<1>3. CASE JoinEvent(r) /\ ~\E status : Answer(r, status)
  <2>1. /\ GetEventOrThrow(e) = OK /\ events[e].creator # u
        /\ req' = [req EXCEPT ![r] = [req[r] EXCEPT
             !.pc = IF events[e].visibility = "PRIVATE"
                    THEN "join:access" ELSE "join:capacity",
             !.cap = events[e].capacity]]
    BY <1>3 DEF JoinEvent, Become
  <2>2. /\ req'[r].pc = IF events[e].visibility = "PRIVATE"
                        THEN "join:access" ELSE "join:capacity"
        /\ req'[r].cap = events[e].capacity
        /\ req'[r].event = e /\ req'[r].user = u /\ req'[r].write = req[r].write
    BY <1>1, <2>1 DEF TypeOK, Slot
  <2>3. req[r].write = "none"
    BY <1>1, <1>3 DEF TypeOK, WellFormed, JoinEvent, At
  <2>4. Active(e)
    BY <2>1 DEF GetEventOrThrow, OK, Active
  <2>5. Finds(r)'
    BY <1>1, <2>1, <2>2, <2>3, <2>4
       DEF Finds, JoinFinds, LeaveFinds, EventFinds, OtherFinds, At, OpenPc, tables,
           Active, Exists, Leads, Invited
  <2> QED BY <1>1, <2>5, ReadingSolo
<1>4. CASE JoinAccess(r) /\ ~\E status : Answer(r, status)
  <2>1. /\ invitations[e][u] = "ACCEPTED" /\ Goto(r, "join:capacity")
        /\ req[r].pc = "join:access" /\ req[r].write = "none"
    BY <1>1, <1>4 DEF JoinAccess, At, TypeOK, WellFormed
  <2>2. Finds(r)'
    BY <1>1, <2>1, GotoPc
       DEF Finds, JoinFinds, LeaveFinds, EventFinds, OtherFinds, At, OpenPc, tables,
           Active, Exists, Leads, Invited, Goto, TypeOK, Slot
  <2> QED BY <1>1, <2>2, ReadingSolo
<1>5. CASE JoinCapacity(r) /\ ~\E status : Answer(r, status)
  <2>1. /\ CountParticipants(e) < req[r].cap /\ Goto(r, "join:insert")
        /\ req[r].pc = "join:capacity" /\ req[r].write = "none"
    BY <1>1, <1>5 DEF JoinCapacity, At, TypeOK, WellFormed
  <2>2. Finds(r)'
    BY <1>1, <2>1, GotoPc
       DEF Finds, JoinFinds, LeaveFinds, EventFinds, OtherFinds, At, OpenPc, tables,
           Active, Exists, Leads, Invited, CountParticipants, Goto, TypeOK, Slot
  <2> QED BY <1>1, <2>2, ReadingSolo
<1> QED BY <1>2, <1>3, <1>4, <1>5

\* A join that gets in goes to the end of the rows, and not in front of the lead.
LEMMA JoinInsertSolo ==
  ASSUME SoloInv, NEW r \in Request, JoinInsert(r)
  PROVE  SoloInv'
<1> DEFINE e == req[r].event
           u == req[r].user
<1>1. /\ LockInv' /\ TypeOK /\ Finds(r) /\ req[r].pc = "join:insert"
      /\ UNCHANGED <<events, announced, failures>>
  BY JoinLocks DEF SoloInv, LockInv, Join, JoinInsert, At
<1>2. CASE \E status : Answer(r, status) /\ UNCHANGED participations
  BY <1>1, <1>2, AnswerSolo DEF Telling, JoinInsert, tables
<1>3. CASE /\ participations' = [participations EXCEPT ![e] = Append(@, u)]
           /\ Become(r, [req[r] EXCEPT !.pc = "join:count", !.cap = 0])
  <2>1. /\ e \in Event /\ u \in User /\ req[r].write = "none"
        /\ participations[e] \in Seq(User)
    BY <1>1, ServedTypes DEF TypeOK, WellFormed, Serving, JoinPc
  <2>2. /\ participations'[e] = Append(participations[e], u)
        /\ \A x \in Event : x # e => participations'[x] = participations[x]
    BY <1>1, <1>3, <2>1 DEF TypeOK
  <2>3. /\ req'[r].pc = "join:count" /\ req'[r].event = e /\ req'[r].write = "none"
    BY <1>1, <1>3, <2>1 DEF Become, TypeOK, Slot
  <2>4. CreatorIsOldest'
    <3>1. Active(e)
      BY <1>1 DEF Finds, JoinFinds
    <3>2. /\ participations[e] # <<>>
          /\ Head(participations[e]) = events[e].creator
      BY <3>1 DEF SoloInv, CreatorIsOldest, Active, Exists
    <3>3. /\ Append(participations[e], u) # <<>>
          /\ Head(Append(participations[e], u)) = Head(participations[e])
      BY <2>1, <3>2, HeadTailAppend, AppendProperties, EmptySeq
    <3>4. DOMAIN events \subseteq Event
      BY <1>1 DEF TypeOK
    <3> QED BY <1>1, <2>2, <3>1, <3>2, <3>3, <3>4
            DEF SoloInv, CreatorIsOldest, Active, Exists
  <2>5. RoomsTold'
    <3>1. DOMAIN events \subseteq Event
      BY <1>1 DEF TypeOK
    <3> QED BY <1>1, <2>2, <2>3, <3>1, RoomsKept DEF Telling, Active, Exists
  <2>6. Finds(r)'
    BY <2>3 DEF Finds, JoinFinds, LeaveFinds, EventFinds, OtherFinds, At, OpenPc
  <2> QED BY <1>1, <2>4, <2>5, <2>6, SoloStep
<1> QED BY <1>2, <1>3 DEF JoinInsert

\* join, leave, create, update and remove tell the room what they have counted.
LEMMA TellingSolo ==
  ASSUME SoloInv, LockInv', NEW r \in Request, NEW status, Answer(r, status),
         UNCHANGED <<tables, failures>>,
         NEW n, announced' = [announced EXCEPT ![req[r].event] = n],
         Active(req[r].event) => n = CountParticipants(req[r].event)
  PROVE  SoloInv'
<1>1. TypeOK /\ req'[r].pc = "done" /\ req'[r].write = "none"
  BY AnswerPc, AnswerQuiet DEF SoloInv, LockInv, Quiet
<1>2. Finds(r)'
  BY <1>1 DEF Finds, JoinFinds, LeaveFinds, EventFinds, OtherFinds, At, OpenPc
<1>3. RoomsTold'
  <2>1. ASSUME NEW x \in DOMAIN events', events'[x].active
        PROVE  \/ /\ Active(x) /\ participations'[x] = participations[x]
                  /\ announced'[x] = announced[x] /\ req[r].event # x
               \/ announced'[x] = Len(participations'[x])
    BY <1>1, <2>1 DEF TypeOK, tables, Active, Exists, CountParticipants
  <2> QED BY <2>1, RoomsKept
<1>4. CreatorIsOldest'
  BY OldestKept DEF tables
<1> QED BY <1>2, <1>3, <1>4, SoloStep

\* A handler that counts is about to tell the room what the table has.
LEMMA CountingSolo ==
  ASSUME SoloInv, LockInv', NEW r \in Request,
         req[r].pc \in {"join:count", "leave:count", "update:reread"},
         NEW pc \in {"join:emit", "leave:emit", "update:emit"},
         pc = "update:emit" <=> req[r].pc = "update:reread",
         Become(r, [req[r] EXCEPT !.pc = pc,
                                  !.count = CountParticipants(req[r].event)]),
         UNCHANGED <<tables, announced, failures>>
  PROVE  SoloInv'
<1>1. TypeOK /\ req[r].write = "none"
  BY DEF SoloInv, LockInv, TypeOK, WellFormed
<1>2. /\ req'[r].pc = pc /\ req'[r].event = req[r].event /\ req'[r].write = "none"
      /\ req'[r].count = CountParticipants(req[r].event)
  BY <1>1 DEF Become, TypeOK, Slot
<1>3. Finds(r)'
  BY <1>2 DEF Finds, JoinFinds, LeaveFinds, EventFinds, OtherFinds, At, OpenPc,
              CountParticipants, tables
<1>4. req[r].pc \in Telling => req'[r].pc \in Telling
  BY <1>2 DEF Telling
<1> QED BY <1>2, <1>3, <1>4, ReadingSolo

\* join keeps the invariant.
LEMMA JoinSolo ==
  ASSUME SoloInv, NEW r \in Request, Join(r)
  PROVE  SoloInv'
<1>1. LockInv' /\ Finds(r)
  BY JoinLocks DEF SoloInv
<1>2. CASE JoinCount(r)
  BY <1>1, <1>2, CountingSolo DEF JoinCount, At
<1>3. CASE JoinEmit(r)
  <2>1. req[r].count = CountParticipants(req[r].event)
    BY <1>1, <1>3 DEF JoinEmit, At, Finds, EventFinds
  <2> QED BY <1>1, <1>3, <2>1, TellingSolo DEF JoinEmit
<1> QED BY <1>2, <1>3, JoinReadsSolo, JoinInsertSolo DEF Join

-----------------------------------------------------------------------------
(* leave *)

\* A DELETE that is not of the first row leaves the first row first.
LEMMA WithoutRowHead ==
  ASSUME NEW rows \in Seq(User), rows # <<>>, NEW u, Head(rows) # u
  PROVE  WithoutRow(rows, u) # <<>> /\ Head(WithoutRow(rows, u)) = Head(rows)
<1>1. CASE ~Contains(rows, u)
  BY <1>1 DEF WithoutRow
<1>2. CASE Contains(rows, u)
  <2> DEFINE w == WithoutRow(rows, u)
  <2>1. PICK k \in 1..Len(rows) :
          /\ rows[k] = u
          /\ w \in Seq(User)
          /\ Len(w) = Len(rows) - 1
          /\ \A i \in 1..Len(rows)-1 :
               w[i] = IF i < k THEN rows[i] ELSE rows[i+1]
    BY <1>2, WithoutRowElements
  <2> HIDE DEF w
  <2>2. Len(rows) \in Nat \ {0} /\ Head(rows) = rows[1]
    BY EmptySeq, LenProperties
  <2>3. k # 1 /\ 1 \in 1..Len(rows)-1
    BY <2>1, <2>2
  <2>4. w[1] = rows[1] /\ Len(w) # 0
    BY <2>1, <2>2, <2>3
  <2>5. w # <<>> /\ Head(w) = w[1]
    BY <2>1, <2>4, EmptySeq
  <2> QED BY <2>2, <2>4, <2>5 DEF w
<1> QED BY <1>1, <1>2

\* A leave by who does not lead keeps the lead's row the first.
LEMMA LeaveDeleteSolo ==
  ASSUME SoloInv, NEW r \in Request, LeaveDelete(r)
  PROVE  SoloInv'
<1> DEFINE e == req[r].event
           u == req[r].user
<1>1. /\ LockInv' /\ TypeOK /\ Finds(r) /\ req[r].pc = "leave:delete"
      /\ UNCHANGED <<events, invitations, senders, announced, failures>>
  BY LeaveLocks DEF SoloInv, LockInv, Leave, LeaveDelete, At
<1>2. CASE \E status : Answer(r, status) /\ UNCHANGED participations
  BY <1>1, <1>2, AnswerSolo DEF Telling, tables
<1>3. CASE /\ participations' = [participations EXCEPT ![e] = WithoutRow(@, u)]
           /\ Goto(r, "leave:count")
  <2>1. /\ e \in Event /\ u \in User /\ req[r].write = "none"
        /\ participations[e] \in Seq(User)
    BY <1>1, ServedTypes DEF TypeOK, WellFormed, Serving, LeavePc
  <2>2. /\ participations'[e] = WithoutRow(participations[e], u)
        /\ \A x \in Event : x # e => participations'[x] = participations[x]
        /\ DOMAIN events \subseteq Event
    BY <1>1, <1>3, <2>1 DEF TypeOK
  <2>3. req'[r].pc = "leave:count" /\ req'[r].event = e /\ req'[r].write = "none"
    BY <1>1, <1>3, <2>1, GotoPc
  <2>4. CreatorIsOldest'
    <3>1. Active(e) /\ events[e].creator # u
      BY <1>1 DEF Finds, LeaveFinds, At, Leads, Active
    <3>2. /\ participations[e] # <<>>
          /\ Head(participations[e]) = events[e].creator
      BY <3>1 DEF SoloInv, CreatorIsOldest, Active, Exists
    <3>3. /\ participations'[e] # <<>>
          /\ Head(participations'[e]) = events[e].creator
      BY <2>1, <2>2, <3>1, <3>2, WithoutRowHead
    <3> QED BY <1>1, <2>2, <3>1, <3>3 DEF SoloInv, CreatorIsOldest, Active, Exists
  <2>5. RoomsTold'
    BY <1>1, <2>2, <2>3, RoomsKept DEF Telling, Active, Exists
  <2>6. Finds(r)'
    BY <2>3 DEF Finds, JoinFinds, LeaveFinds, EventFinds, OtherFinds, At, OpenPc
  <2> QED BY <1>1, <2>4, <2>5, <2>6, SoloStep
<1> QED BY <1>2, <1>3 DEF LeaveDelete

\* A creator's leave finds who is to lead, or that nobody is left.
LEMMA TxReadsSolo ==
  ASSUME SoloInv, NEW r \in Request,
         \/ LeaveEvent(r) \/ TxDelete(r) \/ TxNext(r) \/ TxMessages(r)
  PROVE  SoloInv'
<1> DEFINE e == req[r].event
           u == req[r].user
<1>1. /\ LockInv' /\ TypeOK /\ Finds(r)
      /\ UNCHANGED <<tables, announced, failures>>
      /\ req[r].pc \notin Telling /\ req[r].write = "none"
  BY LeaveLocks
     DEF SoloInv, LockInv, Leave, LeaveEvent, TxDelete, TxNext, TxMessages, At, Telling,
         TypeOK, WellFormed
<1>2. CASE \E status : Answer(r, status)
  BY <1>1, <1>2, AnswerSolo
<1>3. CASE LeaveEvent(r) /\ ~\E status : Answer(r, status)
  <2>1. /\ GetEventOrThrow(e) = OK
        /\ Goto(r, IF events[e].creator = u THEN "tx:delete" ELSE "leave:delete")
    BY <1>3 DEF LeaveEvent
  <2>2. Active(e)
    BY <2>1 DEF GetEventOrThrow, OK, Active
  <2>3. Finds(r)'
    BY <1>1, <2>1, <2>2, GotoPc
       DEF Finds, JoinFinds, LeaveFinds, EventFinds, OtherFinds, At, OpenPc, tables,
           Active, Exists, Leads
  <2> QED BY <1>1, <2>3, ReadingSolo
<1>4. CASE TxDelete(r) /\ ~\E status : Answer(r, status)
  <2>1. Goto(r, "tx:next") /\ req[r].pc = "tx:delete"
    BY <1>4 DEF TxDelete, At
  <2>2. Finds(r)'
    BY <1>1, <2>1, GotoPc
       DEF Finds, JoinFinds, LeaveFinds, EventFinds, OtherFinds, At, OpenPc, tables,
           Active, Exists, Leads
  <2> QED BY <1>1, <2>2, ReadingSolo
<1>5. CASE TxNext(r) /\ OthersOf(r) = <<>>
  <2>1. Goto(r, "tx:messages") /\ req[r].pc = "tx:next"
    BY <1>5 DEF TxNext, At, OthersOf
  <2>2. OthersOf(r)' = <<>>
    BY <1>1, <1>5, <2>1, GotoPc DEF OthersOf, tables
  <2>3. Finds(r)'
    BY <1>1, <2>1, <2>2, GotoPc
       DEF Finds, JoinFinds, LeaveFinds, EventFinds, OtherFinds, At, OpenPc, tables,
           Active, Exists, Leads
  <2> QED BY <1>1, <2>3, ReadingSolo
<1>6. CASE TxNext(r) /\ OthersOf(r) # <<>>
  <2>1. /\ req[r].pc = "tx:next"
        /\ req'[r].pc = "tx:transfer" /\ req'[r].event = e /\ req'[r].user = u
        /\ req'[r].peer = Head(OthersOf(r)) /\ req'[r].write = "none"
    <3>1. /\ req[r].pc = "tx:next"
          /\ Become(r, [req[r] EXCEPT !.pc = "tx:transfer", !.peer = Head(OthersOf(r))])
      BY <1>6 DEF TxNext, At, OthersOf
    <3> QED BY <1>1, <3>1 DEF Become, TypeOK, Slot
  <2>2. OthersOf(r)' = OthersOf(r)
    BY <1>1, <2>1 DEF OthersOf, tables
  <2>3. Finds(r)'
    BY <1>1, <1>6, <2>1, <2>2
       DEF Finds, JoinFinds, LeaveFinds, EventFinds, OtherFinds, At, OpenPc, tables,
           Active, Exists, Leads
  <2> QED BY <1>1, <2>3, ReadingSolo
<1>7. CASE TxMessages(r)
  <2>1. /\ Goto(r, IF senders[e] # {} THEN "tx:deactivate" ELSE "tx:drop")
        /\ req[r].pc = "tx:messages"
    BY <1>7 DEF TxMessages, At
  <2>2. OthersOf(r)' = OthersOf(r)
    BY <1>1, <2>1, GotoPc DEF OthersOf, tables
  <2>3. Finds(r)'
    BY <1>1, <2>1, <2>2, GotoPc
       DEF Finds, JoinFinds, LeaveFinds, EventFinds, OtherFinds, At, OpenPc, tables,
           Active, Exists, Leads
  <2> QED BY <1>1, <2>3, ReadingSolo
<1> QED BY <1>2, <1>3, <1>4, <1>5, <1>6, <1>7 DEF TxDelete

\* Its writes stay in the transaction and hold what it found.
LEMMA TxWritesSolo ==
  ASSUME SoloInv, NEW r \in Request, TxWrite(r) \/ TxCascade(r)
  PROVE  SoloInv'
<1> DEFINE e == req[r].event
           u == req[r].user
<1>1. /\ LockInv' /\ TypeOK /\ Finds(r) /\ req[r] \in Slot
      /\ UNCHANGED <<tables, announced, failures>>
      /\ req[r].pc \notin Telling
  BY LeaveLocks
     DEF SoloInv, LockInv, Leave, TxWrite, TxCascade, At, Telling, TypeOK
<1>2. Active(e) /\ Leads(u, e)
  BY DEF SoloInv, Finds, LeaveFinds, TxWrite, TxCascade, At, OpenPc
<1>3. /\ req'[r].event = e /\ req'[r].user = u /\ req'[r].peer = req[r].peer
      /\ \/ At(r, "tx:transfer") /\ req'[r].pc = "tx:commit" /\ req'[r].write = "transfer"
         \/ At(r, "tx:deactivate") /\ req'[r].pc = "tx:commit" /\ req'[r].write = "deactivate"
         \/ At(r, "tx:drop") /\ req'[r].pc = "tx:cascade" /\ req'[r].write = "drop"
         \/ At(r, "tx:cascade") /\ req'[r].pc = "tx:commit" /\ req'[r].write = "drop"
              /\ req[r].write = "drop"
  <2>1. CASE At(r, "tx:transfer")
    <3>1. Become(r, [req[r] EXCEPT !.pc = "tx:commit", !.write = "transfer"])
      BY <2>1 DEF TxWrite, TxCascade, At
    <3> QED BY <1>1, <2>1, <3>1 DEF Become, TypeOK, Slot
  <2>2. CASE At(r, "tx:deactivate")
    <3>1. Become(r, [req[r] EXCEPT !.pc = "tx:commit", !.write = "deactivate"])
      BY <2>2 DEF TxWrite, TxCascade, At
    <3> QED BY <1>1, <2>2, <3>1 DEF Become, TypeOK, Slot
  <2>3. CASE At(r, "tx:drop")
    <3>1. Become(r, [req[r] EXCEPT !.pc = "tx:cascade", !.write = "drop"])
      BY <2>3 DEF TxWrite, TxCascade, At
    <3> QED BY <1>1, <2>3, <3>1 DEF Become, TypeOK, Slot
  <2>4. CASE At(r, "tx:cascade")
    <3>1. Goto(r, "tx:commit")
      BY <2>4 DEF TxWrite, TxCascade, At
    <3>2. req[r].write = "drop"
      BY <1>1, <2>4 DEF TypeOK, WellFormed, At
    <3> QED BY <1>1, <2>4, <3>1, <3>2, GotoPc
  <2> QED BY <2>1, <2>2, <2>3, <2>4 DEF TxWrite, TxCascade
<1>4. OthersOf(r)' = OthersOf(r)
  BY <1>1, <1>3 DEF OthersOf, tables
<1>5. (Active(e) /\ Leads(u, e))'
  BY <1>1, <1>2, <1>3 DEF Active, Leads, Exists, tables
<1>6. LeaveFinds(r)'
  <2>1. LeaveFinds(r) /\ senders'[e] = senders[e]
    BY <1>1 DEF Finds, tables
  <2> DEFINE pc == req[r].pc
             write == req[r].write
  <2>2. /\ pc = "tx:transfer" => OthersOf(r) # <<>> /\ req[r].peer = Head(OthersOf(r))
        /\ pc \in {"tx:deactivate", "tx:drop"} \/ write = "drop" => OthersOf(r) = <<>>
        /\ pc = "tx:deactivate" => senders[e] # {}
        /\ pc = "tx:drop" \/ write = "drop" => senders[e] = {}
    BY <2>1 DEF LeaveFinds, At
  <2>3. /\ pc' # "leave:delete"
        /\ pc' \in {"tx:commit", "tx:cascade"}
        /\ write' = "transfer" => pc = "tx:transfer"
        /\ write' = "deactivate" => pc = "tx:deactivate"
        /\ write' = "drop" => pc = "tx:drop" \/ write = "drop"
    BY <1>3 DEF At
  <2>4. /\ write' = "transfer" => OthersOf(r)' # <<>> /\ req'[r].peer = Head(OthersOf(r)')
        /\ write' \in {"deactivate", "drop"} => OthersOf(r)' = <<>>
        /\ write' = "deactivate" => senders'[e] # {}
        /\ write' = "drop" => senders'[e] = {}
    BY <1>3, <1>4, <2>1, <2>2, <2>3
  <2>5. (Active(req[r].event) /\ Leads(req[r].user, req[r].event))'
    BY <1>3, <1>5
  <2> QED BY <1>3, <2>3, <2>4, <2>5 DEF LeaveFinds, At
<1>7. Finds(r)'
  BY <1>3, <1>6 DEF Finds, JoinFinds, EventFinds, OtherFinds, At
<1> QED BY <1>1, <1>7, ReadingSolo

\* Its commit passes the lead to the oldest of the others, or empties the event.
LEMMA TxCommitSolo ==
  ASSUME SoloInv, NEW r \in Request, TxCommit(r)
  PROVE  SoloInv'
<1> DEFINE e == req[r].event
           u == req[r].user
<1>1. /\ LockInv' /\ TypeOK /\ Finds(r) /\ req[r].pc = "tx:commit"
      /\ UNCHANGED <<announced, failures>>
  BY LeaveLocks DEF SoloInv, LockInv, Leave, TxCommit, At
<1>2. /\ e \in Event /\ u \in User /\ Active(e) /\ e \in DOMAIN events
      /\ DOMAIN events \subseteq Event
      /\ OthersOf(r) = WithoutRow(participations[e], u)
  BY <1>1, ServedTypes
     DEF Finds, LeaveFinds, OpenPc, TypeOK, Serving, OthersOf, Active, Exists
<1>3. CASE req[r].write = "transfer"
  <2>1. /\ events' = [events EXCEPT ![e].creator = req[r].peer]
        /\ participations' = [participations EXCEPT ![e] = OthersOf(r)]
        /\ Become(r, [req[r] EXCEPT !.pc = "leave:count", !.peer = Nobody,
                                    !.write = "none"])
    BY <1>3 DEF TxCommit, OthersOf
  <2>2. /\ DOMAIN events' = DOMAIN events
        /\ events'[e].creator = req[r].peer
        /\ \A x \in DOMAIN events : /\ events'[x].active = events[x].active
                                    /\ x # e => events'[x] = events[x]
        /\ participations'[e] = OthersOf(r)
        /\ \A x \in Event : x # e => participations'[x] = participations[x]
    BY <1>1, <1>2, <2>1 DEF TypeOK, Row
  <2>3. /\ req'[r].pc = "leave:count" /\ req'[r].event = e /\ req'[r].write = "none"
    BY <1>1, <2>1 DEF Become, TypeOK, Slot
  <2>4. OthersOf(r) # <<>> /\ req[r].peer = Head(OthersOf(r))
    BY <1>1, <1>3 DEF Finds, LeaveFinds
  <2>5. CreatorIsOldest'
    BY <1>2, <2>2, <2>4 DEF SoloInv, CreatorIsOldest, Active
  <2>6. RoomsTold'
    BY <1>1, <1>2, <2>2, <2>3, RoomsKept DEF Telling, Active, Exists
  <2>7. Finds(r)'
    BY <2>3 DEF Finds, JoinFinds, LeaveFinds, EventFinds, OtherFinds, At, OpenPc
  <2> QED BY <1>1, <2>5, <2>6, <2>7, SoloStep
<1>4. CASE req[r].write # "transfer"
  <2>1. req'[r].pc = "done" /\ req'[r].write = "none"
    BY <1>1, <1>4, AnswerPc, AnswerQuiet DEF TxCommit, Quiet
  <2>2. \A x \in DOMAIN events' :
          \/ /\ x # e /\ x \in DOMAIN events /\ events'[x] = events[x]
             /\ participations'[x] = participations[x]
          \/ /\ x = e /\ ~events'[x].active /\ participations'[x] = <<>>
    <3>1. CASE req[r].write = "deactivate"
      <4>1. OthersOf(r) = <<>>
        BY <1>1, <3>1 DEF Finds, LeaveFinds
      <4>2. /\ events' = [events EXCEPT ![e].active = FALSE]
            /\ participations' = [participations EXCEPT ![e] = <<>>]
        BY <1>2, <3>1, <4>1 DEF TxCommit
      <4> QED BY <1>1, <1>2, <4>2 DEF TypeOK, Row
    <3>2. CASE req[r].write = "drop"
      <4>1. DeleteEvent(e)
        BY <3>2 DEF TxCommit
      <4> QED BY <1>1, <1>2, <4>1 DEF DeleteEvent, TypeOK
    <3> QED BY <1>4, <3>1, <3>2 DEF TxCommit
  <2>3. CreatorIsOldest'
    BY <2>2 DEF SoloInv, CreatorIsOldest
  <2>4. RoomsTold'
    BY <1>1, <2>2, RoomsKept DEF Telling, Active, Exists
  <2>5. Finds(r)'
    BY <2>1 DEF Finds, JoinFinds, LeaveFinds, EventFinds, OtherFinds, At, OpenPc
  <2> QED BY <1>1, <2>3, <2>4, <2>5, SoloStep
<1> QED BY <1>3, <1>4

\* leave keeps the invariant.
LEMMA LeaveSolo ==
  ASSUME SoloInv, NEW r \in Request, Leave(r)
  PROVE  SoloInv'
<1>1. LockInv' /\ Finds(r)
  BY LeaveLocks DEF SoloInv
<1>2. CASE LeaveCount(r)
  BY <1>1, <1>2, CountingSolo DEF LeaveCount, At
<1>3. CASE LeaveEmit(r)
  <2>1. req[r].count = CountParticipants(req[r].event)
    BY <1>1, <1>3 DEF LeaveEmit, At, Finds, EventFinds
  <2> QED BY <1>1, <1>3, <2>1, TellingSolo DEF LeaveEmit
<1> QED BY <1>2, <1>3, LeaveDeleteSolo, TxReadsSolo, TxWritesSolo, TxCommitSolo
        DEF Leave
-----------------------------------------------------------------------------
(* create, update and remove *)

\* create puts its creator in front of no rows.
LEMMA CreateSolo ==
  ASSUME SoloInv, NEW r \in Request, Create(r)
  PROVE  SoloInv'
<1> DEFINE e == req[r].event
           u == req[r].user
<1>1. LockInv' /\ TypeOK /\ Finds(r)
  BY CreateLocks DEF SoloInv, LockInv
<1>2. CASE CreateEmit(r)
  <2>1. CountParticipants(e) = 1
    BY <1>1, <1>2 DEF CreateEmit, At, Finds, EventFinds
  <2> QED BY <1>1, <1>2, <2>1, TellingSolo DEF CreateEmit
<1>3. CASE CreateInsert(r)
  <2>1. /\ req[r].pc = "create:insert" /\ ~Exists(e) /\ e \in Event
        /\ req[r].write = "none" /\ DOMAIN events \subseteq Event
        /\ UNCHANGED <<announced, failures>>
    BY <1>1, <1>3, ServedTypes
       DEF CreateInsert, At, TypeOK, WellFormed, Serving, EventPc, Finds, EventFinds
  <2>2. /\ DOMAIN events' = DOMAIN events \cup {e}
        /\ events'[e].creator = u /\ events'[e].active
        /\ \A x \in DOMAIN events : events'[x] = events[x]
    <3>1. PICK c \in 1..MaxCapacity, v \in Visibility :
            events' = [x \in DOMAIN events \cup {e} |->
                         IF x = e THEN [creator |-> u, capacity |-> c,
                                        visibility |-> v, active |-> TRUE]
                         ELSE events[x]]
      BY <1>3 DEF CreateInsert
    <3> QED BY <2>1, <3>1 DEF Exists
  <2>3. /\ participations'[e] = <<u>>
        /\ \A x \in Event : x # e => participations'[x] = participations[x]
    BY <1>1, <1>3, <2>1 DEF CreateInsert, TypeOK
  <2>4. /\ req'[r].pc = "create:emit" /\ req'[r].event = e /\ req'[r].write = "none"
    BY <1>1, <1>3, <2>1, GotoPc DEF CreateInsert
  <2>5. <<u>> # <<>> /\ Head(<<u>>) = u /\ Len(<<u>>) = 1
    OBVIOUS
  <2>6. CreatorIsOldest'
    BY <2>1, <2>2, <2>3, <2>5 DEF SoloInv, CreatorIsOldest
  <2>7. RoomsTold'
    BY <2>1, <2>2, <2>3, <2>4, RoomsKept DEF Telling, Active, Exists
  <2>8. Finds(r)'
    BY <2>3, <2>4, <2>5
       DEF Finds, JoinFinds, LeaveFinds, EventFinds, OtherFinds, At, OpenPc,
           CountParticipants
  <2> QED BY <1>1, <2>6, <2>7, <2>8, SoloStep
<1> QED BY <1>2, <1>3 DEF Create

\* update changes neither who leads nor who attends.
LEMMA UpdateSolo ==
  ASSUME SoloInv, NEW r \in Request, Update(r)
  PROVE  SoloInv'
<1> DEFINE e == req[r].event
           u == req[r].user
<1>1. LockInv' /\ TypeOK /\ Finds(r)
  BY UpdateLocks DEF SoloInv, LockInv
<1>2. CASE UpdateEvent(r)
  <2>1. /\ UNCHANGED <<tables, announced, failures>>
        /\ req[r].pc \notin Telling /\ req[r].write = "none"
    BY <1>1, <1>2 DEF UpdateEvent, At, Telling, TypeOK, WellFormed
  <2>2. CASE \E status : Answer(r, status)
    BY <1>1, <2>1, <2>2, AnswerSolo
  <2>3. CASE ~\E status : Answer(r, status)
    <3>1. PICK pc \in {"update:scalars", "update:location", "update:reread"} :
            Goto(r, pc)
      BY <1>2, <2>3 DEF UpdateEvent
    <3>2. Exists(e) /\ (Leads(u, e) \/ u \in Admin)
      BY <1>2, <2>3 DEF UpdateEvent, MayChange, OK, Leads
    <3>3. Finds(r)'
      BY <1>1, <2>1, <3>1, <3>2, GotoPc
         DEF Finds, JoinFinds, LeaveFinds, EventFinds, OtherFinds, At, OpenPc, tables,
             Exists, Leads
    <3> QED BY <1>1, <2>1, <3>3, ReadingSolo
  <2> QED BY <2>2, <2>3
<1>3. CASE UpdateScalars(r)
  <2>1. /\ req[r].pc = "update:scalars" /\ req[r].write = "none"
        /\ Exists(e) /\ (Leads(u, e) \/ u \in Admin)
        /\ UNCHANGED <<participations, announced, failures>>
    BY <1>1, <1>3
       DEF UpdateScalars, At, TypeOK, WellFormed, Finds, EventFinds
  <2>2. /\ DOMAIN events' = DOMAIN events
        /\ \A x \in DOMAIN events : /\ events'[x].creator = events[x].creator
                                    /\ events'[x].active = events[x].active
    BY <1>1, <1>3 DEF UpdateScalars, TypeOK, Row
  <2>3. PICK pc \in {"update:location", "update:reread"} : Goto(r, pc)
    BY <1>3 DEF UpdateScalars
  <2>4. /\ req'[r].pc = pc /\ req'[r].event = e /\ req'[r].user = u
        /\ req'[r].write = "none"
    BY <1>1, <2>1, <2>3, GotoPc
  <2>5. CreatorIsOldest'
    BY <2>1, <2>2 DEF SoloInv, CreatorIsOldest
  <2>6. RoomsTold'
    BY <2>1, <2>2, RoomsKept DEF Telling, Active, Exists
  <2>7. Finds(r)'
    BY <2>1, <2>2, <2>3, <2>4
       DEF Finds, JoinFinds, LeaveFinds, EventFinds, OtherFinds, At, OpenPc,
           Exists, Leads
  <2> QED BY <1>1, <2>5, <2>6, <2>7, SoloStep
<1>4. CASE UpdateLocation(r)
  <2>1. /\ UNCHANGED <<tables, announced, failures>>
        /\ req[r].pc = "update:location" /\ req[r].write = "none"
        /\ Goto(r, "update:reread")
    BY <1>1, <1>4 DEF UpdateLocation, At, TypeOK, WellFormed
  <2>2. Finds(r)'
    BY <1>1, <2>1, GotoPc
       DEF Finds, JoinFinds, LeaveFinds, EventFinds, OtherFinds, At, OpenPc, tables,
           Exists, Leads
  <2> QED BY <1>1, <2>1, <2>2, ReadingSolo DEF Telling
<1>5. CASE UpdateReread(r)
  <2>1. Exists(e)
    BY <1>1, <1>5 DEF UpdateReread, At, Finds, EventFinds
  <2> QED BY <1>1, <1>5, <2>1, CountingSolo DEF UpdateReread, At
<1>6. CASE UpdateEmit(r)
  <2>1. req[r].count = CountParticipants(e)
    BY <1>1, <1>6 DEF UpdateEmit, At, Finds, EventFinds
  <2> QED BY <1>1, <1>6, <2>1, TellingSolo DEF UpdateEmit
<1> QED BY <1>2, <1>3, <1>4, <1>5, <1>6 DEF Update

\* remove leaves the other events as they were.
LEMMA RemovalSolo ==
  ASSUME SoloInv, NEW r \in Request, Removal(r)
  PROVE  SoloInv'
<1> DEFINE e == req[r].event
           u == req[r].user
<1>1. LockInv' /\ TypeOK /\ Finds(r)
  BY RemovalLocks DEF SoloInv, LockInv
<1>2. CASE RemoveEvent(r)
  <2>1. /\ UNCHANGED <<tables, announced, failures>>
        /\ req[r].pc \notin Telling /\ req[r].write = "none"
    BY <1>1, <1>2 DEF RemoveEvent, At, Telling, TypeOK, WellFormed
  <2>2. CASE \E status : Answer(r, status)
    BY <1>1, <2>1, <2>2, AnswerSolo
  <2>3. CASE ~\E status : Answer(r, status)
    <3>1. Goto(r, "remove:delete")
      BY <1>2, <2>3 DEF RemoveEvent
    <3>2. Exists(e) /\ (Leads(u, e) \/ u \in Admin)
      BY <1>2, <2>3 DEF RemoveEvent, MayChange, OK, Leads
    <3>3. Finds(r)'
      BY <1>1, <2>1, <3>1, <3>2, GotoPc
         DEF Finds, JoinFinds, LeaveFinds, EventFinds, OtherFinds, At, OpenPc, tables,
             Exists, Leads
    <3> QED BY <1>1, <2>1, <3>3, ReadingSolo
  <2> QED BY <2>2, <2>3
<1>3. CASE RemoveDelete(r)
  <2>1. /\ UNCHANGED <<tables, announced, failures>>
        /\ req[r].pc = "remove:delete" /\ req[r].write = "none"
        /\ Goto(r, IF Exists(e) THEN "remove:cascade" ELSE "remove:emit")
    BY <1>1, <1>3 DEF RemoveDelete, At, TypeOK, WellFormed
  <2>2. Finds(r)'
    BY <1>1, <2>1, GotoPc
       DEF Finds, JoinFinds, LeaveFinds, EventFinds, OtherFinds, At, OpenPc, tables,
           Exists, Leads
  <2> QED BY <1>1, <2>1, <2>2, ReadingSolo DEF Telling
<1>4. CASE RemoveCascade(r)
  <2>1. /\ req[r].pc = "remove:cascade" /\ req[r].write = "none"
        /\ e \in Event /\ DOMAIN events \subseteq Event
        /\ DeleteEvent(e) /\ Goto(r, "remove:emit")
        /\ UNCHANGED <<announced, failures>>
    BY <1>1, <1>4, ServedTypes
       DEF RemoveCascade, At, TypeOK, WellFormed, Serving, EventPc
  <2>2. \A x \in DOMAIN events' :
          /\ x # e /\ x \in DOMAIN events /\ events'[x] = events[x]
          /\ participations'[x] = participations[x]
    BY <1>1, <2>1 DEF DeleteEvent, TypeOK
  <2>3. /\ req'[r].pc = "remove:emit" /\ req'[r].event = e /\ req'[r].write = "none"
    BY <1>1, <2>1, GotoPc
  <2>4. CreatorIsOldest'
    BY <2>2 DEF SoloInv, CreatorIsOldest
  <2>5. RoomsTold'
    BY <2>1, <2>2, RoomsKept DEF Telling, Active, Exists
  <2>6. Finds(r)'
    BY <2>2, <2>3
       DEF Finds, JoinFinds, LeaveFinds, EventFinds, OtherFinds, At, OpenPc, Exists
  <2> QED BY <1>1, <2>4, <2>5, <2>6, SoloStep
<1>5. CASE RemoveEmit(r)
  <2>1. ~Active(e)
    BY <1>1, <1>5 DEF RemoveEmit, At, Finds, EventFinds, Active
  <2> QED BY <1>1, <1>5, <2>1, TellingSolo DEF RemoveEmit
<1> QED BY <1>2, <1>3, <1>4, <1>5 DEF Removal

-----------------------------------------------------------------------------
(* The other handlers, and the life of a request *)

\* A handler that answers as it writes an invitation or a message.
LEMMA ReplySolo ==
  ASSUME SoloInv, LockInv', NEW r \in Request, NEW status, Answer(r, status),
         UNCHANGED <<events, participations, announced, failures>>,
         req[r].pc \notin Telling
  PROVE  SoloInv'
<1>1. req'[r].pc = "done" /\ req'[r].write = "none"
  BY AnswerPc, AnswerQuiet DEF SoloInv, LockInv, Quiet
<1>2. Finds(r)'
  BY <1>1 DEF Finds, JoinFinds, LeaveFinds, EventFinds, OtherFinds, At, OpenPc
<1>3. RoomsTold'
  BY RoomsKept DEF Active, Exists
<1> QED BY <1>2, <1>3, OldestKept, SoloStep

\* invite and updateStatus find the invitation as they have read it.
LEMMA InvitationSolo ==
  ASSUME SoloInv, NEW r \in Request, Invite(r) \/ AnswerInvitation(r)
  PROVE  SoloInv'
<1> DEFINE e == req[r].event
           u == req[r].user
<1>1. LockInv' /\ TypeOK
  BY InvitationLocks DEF SoloInv, LockInv
<1>2. CASE InviteInsert(r) \/ AnswerWrite(r)
  BY <1>1, <1>2, ReplySolo DEF InviteInsert, AnswerWrite, At, Telling
<1>3. CASE InviteEvent(r) \/ AnswerRead(r)
  <2>1. /\ UNCHANGED <<tables, announced, failures>>
        /\ req[r].pc \notin Telling /\ req[r].write = "none"
    BY <1>1, <1>3 DEF InviteEvent, AnswerRead, At, Telling, TypeOK, WellFormed
  <2>2. CASE \E status : Answer(r, status)
    BY <1>1, <2>1, <2>2, AnswerSolo
  <2>3. CASE InviteEvent(r) /\ ~\E status : Answer(r, status)
    <3>1. PICK invited \in User :
            /\ MayInvite(u, invited, e) = OK
            /\ Become(r, [req[r] EXCEPT !.pc = "invite:insert", !.peer = invited])
      BY <2>3 DEF InviteEvent
    <3>2. Leads(u, e) /\ events[e].visibility = "PRIVATE" /\ invited # u
      BY <3>1 DEF MayInvite, OK, Leads
    <3>3. /\ req'[r].pc = "invite:insert" /\ req'[r].peer = invited
          /\ req'[r].event = e /\ req'[r].user = u /\ req'[r].write = "none"
      BY <1>1, <2>1, <3>1 DEF Become, TypeOK, Slot
    <3>4. Finds(r)'
      BY <2>1, <3>2, <3>3
         DEF Finds, JoinFinds, LeaveFinds, EventFinds, OtherFinds, At, OpenPc, tables,
             Exists, Leads
    <3> QED BY <1>1, <2>1, <3>4, ReadingSolo
  <2>4. CASE AnswerRead(r) /\ ~\E status : Answer(r, status)
    <3>1. PICK invited \in User :
            MayAnswer(u, invited, e) = OK /\ Goto(r, "answer:write")
      BY <2>4 DEF AnswerRead
    <3>2. invitations[e][u] = "PENDING"
      BY <3>1 DEF MayAnswer, OK
    <3>3. Finds(r)'
      BY <1>1, <2>1, <3>1, <3>2, GotoPc
         DEF Finds, JoinFinds, LeaveFinds, EventFinds, OtherFinds, At, OpenPc, tables
    <3> QED BY <1>1, <2>1, <3>3, ReadingSolo
  <2> QED BY <1>3, <2>2, <2>3, <2>4
<1> QED BY <1>2, <1>3 DEF Invite, AnswerInvitation

\* saveMessage finds its sender still entitled to write.
LEMMA MessageSolo ==
  ASSUME SoloInv, NEW r \in Request, Message(r)
  PROVE  SoloInv'
<1> DEFINE e == req[r].event
           u == req[r].user
<1>1. LockInv' /\ TypeOK /\ Finds(r)
  BY MessageLocks DEF SoloInv, LockInv
<1>2. CASE MessageInsert(r)
  BY <1>1, <1>2, ReplySolo DEF MessageInsert, At, Telling
<1>3. CASE MessageEvent(r) \/ MessageCreator(r) \/ MessageParticipant(r)
  <2>1. /\ UNCHANGED <<tables, announced, failures>>
        /\ req[r].pc \notin Telling /\ req[r].write = "none"
    BY <1>1, <1>3
       DEF MessageEvent, MessageCreator, MessageParticipant, At, Telling, TypeOK,
           WellFormed
  <2>2. CASE \E status : Answer(r, status)
    BY <1>1, <2>1, <2>2, AnswerSolo
  <2>3. CASE ~\E status : Answer(r, status)
    <3>1. PICK pc \in {"message:creator", "message:participant", "message:insert"} :
            Goto(r, pc)
      BY <1>3, <2>3 DEF MessageEvent, MessageCreator, MessageParticipant
    <3>2. /\ req'[r].pc = pc /\ req'[r].event = e /\ req'[r].user = u
          /\ req'[r].write = "none"
      BY <1>1, <2>1, <3>1, GotoPc
    <3>3. Exists(e)
      BY <1>1, <1>3, <2>3
         DEF MessageEvent, MessageCreator, MessageParticipant, At, Finds, OtherFinds
    <3>4. pc = "message:insert" => Leads(u, e) \/ HasRow(e, u)
      <4>1. CASE MessageEvent(r)
        <5>1. Goto(r, "message:creator")
          BY <2>3, <4>1 DEF MessageEvent
        <5> QED BY <1>1, <3>2, <5>1, GotoPc
      <4>2. CASE MessageCreator(r)
        <5>1. CASE Leads(u, e)
          BY <5>1
        <5>2. CASE ~Leads(u, e)
          <6>1. Goto(r, "message:participant")
            BY <4>2, <5>2 DEF MessageCreator, Leads
          <6> QED BY <1>1, <3>2, <6>1, GotoPc
        <5> QED BY <5>1, <5>2
      <4>3. CASE MessageParticipant(r)
        BY <2>3, <4>3 DEF MessageParticipant
      <4> QED BY <1>3, <4>1, <4>2, <4>3
    <3>5. Finds(r)'
      BY <2>1, <3>2, <3>3, <3>4
         DEF Finds, JoinFinds, LeaveFinds, EventFinds, OtherFinds, At, OpenPc, tables,
             Exists, Leads, HasRow
    <3> QED BY <1>1, <2>1, <3>5, ReadingSolo
  <2> QED BY <2>2, <2>3
<1> QED BY <1>2, <1>3 DEF Message

\* Only drawn UUIDs name events, so that a fresh one names none.
EventsDrawn == DOMAIN events \subseteq spent

\* create alone inserts an event, under the UUID it has drawn.
LEMMA DrawnNext == LockInv /\ EventsDrawn /\ [Next]_vars => EventsDrawn'
<1> SUFFICES ASSUME LockInv, EventsDrawn, [Next]_vars PROVE EventsDrawn'
  OBVIOUS
<1>1. CASE UNCHANGED vars
  BY <1>1 DEF vars, tables, EventsDrawn
<1>2. ASSUME NEW r \in Request, Begin(r) \/ BeginCreate(r)
      PROVE  EventsDrawn'
  BY <1>2 DEF Begin, BeginCreate, tables, EventsDrawn
<1>3. ASSUME NEW r \in Request, StatementFails(r) \/ DeadlockAbort(r) \/ Release(r)
      PROVE  EventsDrawn'
  BY <1>3 DEF StatementFails, DeadlockAbort, Release, tables, EventsDrawn
<1>4. ASSUME NEW r \in Request, Create(r)
      PROVE  EventsDrawn'
  <2>1. CASE CreateEmit(r)
    BY <2>1 DEF CreateEmit, tables, EventsDrawn
  <2>2. CASE CreateInsert(r)
    <3>1. req[r].event \in spent
      BY <2>2 DEF CreateInsert, At, LockInv, DrawnOnce, Serving, EventPc
    <3>2. DOMAIN events' = DOMAIN events \cup {req[r].event} /\ UNCHANGED spent
      BY <2>2 DEF CreateInsert
    <3> QED BY <3>1, <3>2 DEF EventsDrawn
  <2> QED BY <1>4, <2>1, <2>2 DEF Create
<1>5. ASSUME NEW r \in Request, Join(r) \/ Leave(r) \/ Update(r) \/ Removal(r)
      PROVE  EventsDrawn'
  <2>1. UNCHANGED spent /\ DOMAIN events' \subseteq DOMAIN events
    <3>1. CASE Join(r)
      BY <3>1 DEF Join, JoinEvent, JoinAccess, JoinCapacity, JoinInsert, JoinCount,
                  JoinEmit, tables
    <3>2. CASE TxCommit(r)
      BY <3>2 DEF TxCommit, DeleteEvent
    <3>3. CASE Leave(r) /\ ~TxCommit(r)
      BY <3>3 DEF Leave, LeaveEvent, LeaveDelete, LeaveCount, LeaveEmit, TxDelete,
                  TxNext, TxMessages, TxWrite, TxCascade, tables
    <3>4. CASE Update(r)
      BY <3>4 DEF Update, UpdateEvent, UpdateScalars, UpdateLocation, UpdateReread,
                  UpdateEmit, tables
    <3>5. CASE Removal(r)
      BY <3>5 DEF Removal, RemoveEvent, RemoveDelete, RemoveCascade, RemoveEmit,
                  DeleteEvent, tables
    <3> QED BY <1>5, <3>1, <3>2, <3>3, <3>4, <3>5
  <2> QED BY <2>1 DEF EventsDrawn
<1>6. ASSUME NEW r \in Request, Invite(r) \/ AnswerInvitation(r) \/ Message(r)
      PROVE  EventsDrawn'
  BY <1>6 DEF Invite, InviteEvent, InviteInsert, AnswerInvitation, AnswerRead,
              AnswerWrite, Message, MessageEvent, MessageCreator,
              MessageParticipant, MessageInsert, tables, EventsDrawn
<1> QED BY <1>1, <1>2, <1>3, <1>4, <1>5, <1>6 DEF Next, Serve

\* A request that begins has found nothing out, but that its UUID is fresh.
LEMMA BeginSolo ==
  ASSUME SoloInv, EventsDrawn, NEW r \in Request, Begin(r) \/ BeginCreate(r)
  PROVE  SoloInv'
<1>1. /\ LockInv' /\ TypeOK /\ req[r].pc = "idle"
      /\ UNCHANGED <<tables, announced, failures>>
  BY BeginLocks DEF SoloInv, LockInv, Begin, BeginCreate, At
<1>2. PICK pc, u, e :
        /\ req' = [req EXCEPT ![r] =
                     [Idle EXCEPT !.pc = pc, !.user = u, !.event = e]]
        /\ \/ pc \in Blank
           \/ pc = "create:insert" /\ ~Exists(e)
  <2>1. CASE Begin(r)
    <3>1. PICK op \in Operation \cap DOMAIN FirstPc, u \in User, e \in Known :
            Become(r, [Idle EXCEPT !.pc = FirstPc[op], !.user = u, !.event = e])
      BY <2>1 DEF Begin
    <3>2. FirstPc[op] \in Blank
      BY DEF FirstPc, Blank
    <3> QED BY <3>1, <3>2 DEF Become
  <2>2. CASE BeginCreate(r)
    <3>1. PICK u \in User, e \in Event \ spent :
            Become(r, [Idle EXCEPT !.pc = "create:insert", !.user = u, !.event = e])
      BY <2>2 DEF BeginCreate
    <3>2. ~Exists(e)
      BY <3>1 DEF EventsDrawn, Exists
    <3> QED BY <3>1, <3>2 DEF Become
  <2> QED BY <1>1, <2>1, <2>2
<1>3. req'[r].pc = pc /\ req'[r].event = e /\ req'[r].write = "none"
  BY <1>1, <1>2, IdleType DEF TypeOK, Idle, Slot
<1>4. Finds(r)'
  BY <1>1, <1>2, <1>3
     DEF Blank, Finds, JoinFinds, LeaveFinds, EventFinds, OtherFinds, At, OpenPc,
         Exists, tables
<1> QED BY <1>1, <1>4, ReadingSolo DEF Telling

\* Nor has one that has ended; and a statement that fails ends its handler, if
\* after it has changed the tables then without a word to the room.
LEMMA EndSolo ==
  ASSUME SoloInv, NEW r \in Request,
         Release(r) \/ StatementFails(r) \/ DeadlockAbort(r)
  PROVE  SoloInv'
<1>1. /\ LockInv' /\ TypeOK /\ UNCHANGED <<tables, announced>>
  <2>1. TypeOK /\ TypeOK' /\ Quiet(r)
    BY LifeType, OthersQuiet DEF SoloInv, LockInv
  <2> QED BY <2>1, ReadingStep DEF SoloInv, Release, StatementFails, DeadlockAbort
<1>2. CASE Release(r)
  <2>1. req'[r].pc = "idle" /\ req'[r].write = "none"
    BY <1>1, <1>2 DEF Release, Become, TypeOK, Idle
  <2>2. Finds(r)'
    BY <2>1 DEF Finds, JoinFinds, LeaveFinds, EventFinds, OtherFinds, At, OpenPc
  <2> QED BY <1>1, <1>2, <2>2, ReadingSolo DEF Release, At, Telling
<1>3. CASE StatementFails(r)
  <2>1. failures' # 0 /\ Answer(r, 500)
    BY <1>1, <1>3, BoundsAssumption DEF StatementFails, TypeOK
  <2> QED BY <1>1, <2>1, AnswerSolo
<1>4. CASE DeadlockAbort(r)
  BY <1>4 DEF DeadlockAbort, SoloInv, OneSlot
<1> QED BY <1>2, <1>3, <1>4

-----------------------------------------------------------------------------
(* What holds of the backend served one request at a time *)

\* Nothing has been found out at first.
LEMMA SoloInit == OneSlot /\ TablesInit => SoloInv /\ EventsDrawn
<1> SUFFICES ASSUME OneSlot, TablesInit PROVE SoloInv /\ EventsDrawn
  OBVIOUS
<1>1. LockInv
  BY LocksInit
<1>2. DOMAIN events = {}
  BY DEF TablesInit
<1>3. \A r \in Request : Finds(r)
  BY BlankFinds DEF TablesInit, Idle, Blank
<1> QED BY <1>1, <1>2, <1>3
        DEF SoloInv, CreatorIsOldest, RoomsTold, EventsDrawn

\* Every step keeps the invariant.
LEMMA SoloNext ==
  SoloInv /\ EventsDrawn /\ [Next]_vars => SoloInv' /\ EventsDrawn'
<1> SUFFICES ASSUME SoloInv, EventsDrawn, [Next]_vars PROVE SoloInv'
  BY DrawnNext DEF SoloInv
<1>1. CASE UNCHANGED vars
  <2>1. LockInv'
    BY <1>1, LocksNext DEF SoloInv
  <2> QED BY <1>1, <2>1
          DEF vars, tables, SoloInv, CreatorIsOldest, RoomsTold, CountParticipants,
              Finds, JoinFinds, LeaveFinds, EventFinds, OtherFinds, At, Active, Leads,
              Invited, OthersOf, Exists, HasRow
<1>2. ASSUME NEW r \in Request,
             Begin(r) \/ BeginCreate(r) \/ Serve(r) \/ StatementFails(r)
               \/ DeadlockAbort(r)
      PROVE  SoloInv'
  BY <1>2, BeginSolo, JoinSolo, LeaveSolo, CreateSolo, UpdateSolo, RemovalSolo,
     InvitationSolo, MessageSolo, EndSolo DEF Serve
<1> QED BY <1>1, <1>2 DEF Next

\* Served one request at a time, an active event is led by who has attended it
\* the longest, through every join, leave, transfer and failed statement.
THEOREM OldestLeads == OneSlot => (Spec => []CreatorIsOldest)
<1>1. SoloInv => CreatorIsOldest
  BY DEF SoloInv
<1> SUFFICES ASSUME OneSlot PROVE Spec => []CreatorIsOldest
  OBVIOUS
<1>2. TablesInit => SoloInv /\ EventsDrawn
  BY SoloInit
<1> QED BY <1>1, <1>2, SoloNext, PTL DEF Spec

\* ... and its room has last been told how many attend it.
THEOREM RoomsStayCurrent == OneSlot => (Spec => []RoomsAreCurrent)
<1>1. SoloInv => RoomsAreCurrent
  BY DEF SoloInv, RoomsTold, RoomsAreCurrent, At, Telling
<1> SUFFICES ASSUME OneSlot PROVE Spec => []RoomsAreCurrent
  OBVIOUS
<1>2. TablesInit => SoloInv /\ EventsDrawn
  BY SoloInit
<1> QED BY <1>1, <1>2, SoloNext, PTL DEF Spec

-----------------------------------------------------------------------------
(* The refinement: one statement of each handler is its atomic step *)

\* Attends is HasRow.
LEMMA AttendsIsHasRow ==
  ASSUME TypeOK, NEW e \in Event, NEW u
  PROVE  A!Attends(u, e) <=> HasRow(e, u)
<1>1. participations[e] \in Seq(User)
  BY DEF TypeOK
<1>2. DOMAIN participations[e] = 1..Len(participations[e])
  BY <1>1, LenProperties
<1> QED BY <1>2 DEF A!Attends, HasRow, Contains

\* Others is what the DELETE leaves, because a user has one row at most.
LEMMA OthersIsWithoutRow ==
  ASSUME TypeOK, NEW e \in Event, NEW u, HasRow(e, u)
  PROVE  A!Others(u, e) = WithoutRow(participations[e], u)
<1> DEFINE rows  == participations[e]
           w     == WithoutRow(rows, u)
           place == CHOOSE i \in DOMAIN rows : rows[i] = u
<1>1. rows \in Seq(User) /\ IsInjective(rows) /\ Contains(rows, u)
  BY DEF TypeOK, HasRow
<1>2. Len(rows) \in Nat /\ DOMAIN rows = 1..Len(rows)
  BY <1>1, LenProperties
<1>3. PICK k \in 1..Len(rows) :
        /\ rows[k] = u
        /\ w \in Seq(User)
        /\ Len(w) = Len(rows) - 1
        /\ \A i \in 1..Len(rows)-1 :
             w[i] = IF i < k THEN rows[i] ELSE rows[i+1]
  BY <1>1, WithoutRowElements
<1>4. A!Others(u, e) =
        [i \in 1..Len(rows)-1 |-> rows[IF i < place THEN i ELSE i + 1]]
  BY DEF A!Others
<1>5. place \in DOMAIN rows /\ rows[place] = u
  BY <1>2, <1>3
<1>6. place = k
  <2> HIDE DEF place, rows
  <2> QED BY <1>1, <1>2, <1>3, <1>5 DEF IsInjective
<1> HIDE DEF w, rows, place
<1>7. w \in [1..Len(rows)-1 -> User]
  BY <1>3, LenProperties
<1>8. \A i \in 1..Len(rows)-1 : w[i] = rows[IF i < place THEN i ELSE i + 1]
  BY <1>3, <1>6
<1>9. w = A!Others(u, e)
  BY <1>4, <1>7, <1>8
<1> QED BY <1>9 DEF w, rows

\* If it leaves nothing the user attended alone.
LEMMA AloneIsOneRow ==
  ASSUME NEW rows \in Seq(User), NEW u, Contains(rows, u), WithoutRow(rows, u) = <<>>
  PROVE  rows = <<u>>
<1>1. PICK k \in 1..Len(rows) :
        rows[k] = u /\ Len(WithoutRow(rows, u)) = Len(rows) - 1
  BY WithoutRowElements
<1>2. Len(rows) = 1 /\ rows[1] = u
  <2>1. Len(rows) \in Nat /\ Len(WithoutRow(rows, u)) = 0
    BY LenProperties
  <2>2. Len(rows) = 1
    BY <1>1, <2>1
  <2> QED BY <1>1, <2>2
<1>3. u \in User
  BY <1>2, LenProperties
<1> QED BY <1>2, <1>3, SeqEqual

\* join: the INSERT.
LEMMA JoinImplements ==
  ASSUME SoloInv, NEW r \in Request, Join(r)
  PROVE  A!Next \/ UNCHANGED tables
<1> DEFINE e == req[r].event
           u == req[r].user
<1>1. CASE UNCHANGED tables
  BY <1>1
<1>2. CASE JoinInsert(r) /\ ~UNCHANGED tables
  <2>1. /\ TypeOK /\ e \in Event /\ u \in User
        /\ ~HasRow(e, u)
        /\ participations' = [participations EXCEPT ![e] = Append(@, u)]
        /\ UNCHANGED <<events, invitations, senders>>
    BY <1>2, ServedTypes
       DEF SoloInv, LockInv, JoinInsert, At, Serving, JoinPc, tables
  <2>2. /\ Active(e) /\ ~Leads(u, e) /\ Invited(u, e)
        /\ Len(participations[e]) < events[e].capacity
    BY <1>2 DEF SoloInv, Finds, JoinFinds, JoinInsert, At, CountParticipants
  <2>3. A!Join(u, e)
    BY <2>1, <2>2, AttendsIsHasRow
       DEF A!Join, A!Open, A!Leads, Active, Leads, Invited, Exists
  <2> QED BY <2>1, <2>3 DEF A!Next
<1> QED BY <1>1, <1>2
        DEF Join, JoinEvent, JoinAccess, JoinCapacity, JoinCount, JoinEmit

\* leave: the DELETE, or the commit of the creator's transaction.
LEMMA LeaveImplements ==
  ASSUME SoloInv, NEW r \in Request, Leave(r)
  PROVE  A!Next \/ UNCHANGED tables
<1> DEFINE e == req[r].event
           u == req[r].user
<1>1. CASE UNCHANGED tables
  BY <1>1
<1>2. CASE LeaveDelete(r) /\ ~UNCHANGED tables
  <2>1. /\ TypeOK /\ e \in Event /\ u \in User
        /\ HasRow(e, u)
        /\ participations' = [participations EXCEPT ![e] = WithoutRow(@, u)]
        /\ UNCHANGED <<events, invitations, senders>>
    BY <1>2, ServedTypes
       DEF SoloInv, LockInv, LeaveDelete, At, Serving, LeavePc, tables
  <2>2. Active(e) /\ ~Leads(u, e)
    BY <1>2 DEF SoloInv, Finds, LeaveFinds, LeaveDelete, At
  <2>3. A!Leave(u, e)
    BY <2>1, <2>2, AttendsIsHasRow, OthersIsWithoutRow
       DEF A!Leave, A!Open, A!Leads, Active, Leads, Exists
  <2> QED BY <2>1, <2>3 DEF A!Next
<1>3. CASE TxCommit(r)
  <2>1. /\ TypeOK /\ e \in Event /\ u \in User /\ req[r].pc \in OpenPc
        /\ HasRow(e, u) /\ participations[e] \in Seq(User)
    BY <1>3, OpenTypes
       DEF SoloInv, LockInv, OpenTransactionHoldsRow, InTransaction, TxCommit, At,
           OpenPc
  <2>2. Active(e) /\ Leads(u, e)
    BY <2>1 DEF SoloInv, Finds, LeaveFinds
  <2>3. OthersOf(r) = A!Others(u, e) /\ OthersOf(r) = WithoutRow(participations[e], u)
    BY <2>1, OthersIsWithoutRow DEF OthersOf
  <2>4. A!Open(e) /\ A!Leads(u, e) /\ A!Attends(u, e)
    BY <2>1, <2>2, AttendsIsHasRow DEF A!Open, A!Leads, Active, Leads, Exists
  <2>5. CASE req[r].write = "transfer"
    <3>1. /\ events' = [events EXCEPT ![e].creator = req[r].peer]
          /\ participations' = [participations EXCEPT ![e] = OthersOf(r)]
          /\ UNCHANGED <<invitations, senders>>
      BY <1>3, <2>3, <2>5 DEF TxCommit
    <3>2. OthersOf(r) # <<>> /\ req[r].peer = OthersOf(r)[1]
      BY <2>5 DEF SoloInv, Finds, LeaveFinds
    <3>3. A!HandOver(u, e)
      BY <2>3, <2>4, <3>1, <3>2 DEF A!HandOver
    <3> QED BY <2>1, <3>3 DEF A!Next
  <2>6. CASE req[r].write \in {"deactivate", "drop"}
    <3>1. participations[e] = <<u>> /\ OthersOf(r) = <<>>
      BY <2>1, <2>3, <2>6, AloneIsOneRow DEF SoloInv, Finds, LeaveFinds, HasRow
    <3>2. CASE req[r].write = "deactivate"
      <4>1. /\ events' = [events EXCEPT ![e].active = FALSE]
            /\ participations' = [participations EXCEPT ![e] = <<>>]
            /\ UNCHANGED <<invitations, senders>>
        BY <1>3, <2>3, <3>1, <3>2 DEF TxCommit
      <4>2. senders[e] # {}
        BY <3>2 DEF SoloInv, Finds, LeaveFinds
      <4>3. A!Close(u, e)
        BY <2>4, <3>1, <4>1, <4>2 DEF A!Close
      <4> QED BY <2>1, <4>3 DEF A!Next
    <3>3. CASE req[r].write = "drop"
      <4>1. DeleteEvent(e)
        BY <1>3, <3>3 DEF TxCommit
      <4>2. senders[e] = {}
        BY <3>3 DEF SoloInv, Finds, LeaveFinds
      <4>3. A!Close(u, e)
        BY <2>4, <3>1, <4>1, <4>2 DEF A!Close, A!Erase, DeleteEvent
      <4> QED BY <2>1, <4>3 DEF A!Next
    <3> QED BY <2>6, <3>2, <3>3
  <2> QED BY <1>3, <2>5, <2>6 DEF TxCommit
<1> QED BY <1>1, <1>2, <1>3
        DEF Leave, LeaveEvent, LeaveCount, LeaveEmit, TxDelete, TxNext, TxMessages,
            TxWrite, TxCascade

\* create, update and remove: their INSERT, UPDATE and DELETE.
LEMMA EventsImplement ==
  ASSUME SoloInv, NEW r \in Request, Create(r) \/ Update(r) \/ Removal(r)
  PROVE  A!Next \/ UNCHANGED tables
<1> DEFINE e == req[r].event
           u == req[r].user
<1>1. CASE UNCHANGED tables
  BY <1>1
<1>2. CASE CreateInsert(r)
  <2>1. e \in Event /\ u \in User /\ ~Exists(e)
    BY <1>2, ServedTypes
       DEF SoloInv, LockInv, CreateInsert, At, Serving, EventPc, Finds, EventFinds
  <2>2. PICK c \in 1..MaxCapacity, v \in Visibility :
          events' = [x \in DOMAIN events \cup {e} |->
                       IF x = e THEN [creator |-> u, capacity |-> c,
                                      visibility |-> v, active |-> TRUE]
                       ELSE events[x]]
    BY <1>2 DEF CreateInsert
  <2>3. A!Create(u, e, c, v)
    BY <1>2, <2>1, <2>2 DEF A!Create, CreateInsert, Exists
  <2> QED BY <2>1, <2>3 DEF A!Next, Visibility
<1>3. CASE UpdateScalars(r)
  <2>1. e \in Event /\ u \in User /\ Exists(e) /\ (Leads(u, e) \/ u \in Admin)
    BY <1>3, ServedTypes
       DEF SoloInv, LockInv, UpdateScalars, At, Serving, EventPc, Finds, EventFinds
  <2>2. PICK c \in 1..MaxCapacity, v \in Visibility :
          events' = [events EXCEPT ![e].capacity = c, ![e].visibility = v]
    BY <1>3 DEF UpdateScalars
  <2>3. A!Change(u, e, c, v)
    BY <1>3, <2>1, <2>2 DEF A!Change, A!Leads, UpdateScalars, Leads, Exists
  <2> QED BY <2>1, <2>3 DEF A!Next, Visibility
<1>4. CASE RemoveCascade(r)
  <2>1. e \in Event /\ u \in User /\ Exists(e) /\ (Leads(u, e) \/ u \in Admin)
    BY <1>4, ServedTypes
       DEF SoloInv, LockInv, RemoveCascade, At, Serving, EventPc, Finds, EventFinds
  <2>2. A!Remove(u, e)
    BY <1>4, <2>1
       DEF A!Remove, A!Erase, A!Leads, RemoveCascade, DeleteEvent, Leads, Exists
  <2> QED BY <2>1, <2>2 DEF A!Next
<1> QED BY <1>1, <1>2, <1>3, <1>4
        DEF Create, CreateEmit, Update, UpdateEvent, UpdateLocation, UpdateReread,
            UpdateEmit, Removal, RemoveEvent, RemoveDelete, RemoveEmit

\* invite, updateStatus and saveMessage: their INSERT, UPDATE and INSERT.
LEMMA OthersImplement ==
  ASSUME SoloInv, NEW r \in Request, Invite(r) \/ AnswerInvitation(r) \/ Message(r)
  PROVE  A!Next \/ UNCHANGED tables
<1> DEFINE e == req[r].event
           u == req[r].user
<1>1. CASE UNCHANGED tables
  BY <1>1
<1>2. CASE InviteInsert(r) /\ ~UNCHANGED tables
  <2> DEFINE w == req[r].peer
  <2>1. e \in Event /\ u \in User /\ w \in User
    BY <1>2, ServedTypes
       DEF SoloInv, LockInv, TypeOK, WellFormed, InviteInsert, At, Serving, InvitePc
  <2>2. Leads(u, e) /\ events[e].visibility = "PRIVATE" /\ w # u
    BY <1>2 DEF SoloInv, Finds, OtherFinds, InviteInsert, At
  <2>3. /\ invitations[e][w] = "NONE"
        /\ invitations' = [invitations EXCEPT ![e][w] = "PENDING"]
        /\ UNCHANGED <<events, participations, senders>>
    BY <1>2 DEF InviteInsert, tables
  <2>4. A!Invite(u, e, w)
    BY <2>2, <2>3 DEF A!Invite, A!Leads, Leads, Exists
  <2> QED BY <2>1, <2>4 DEF A!Next
<1>3. CASE AnswerWrite(r)
  <2>1. e \in Event /\ u \in User /\ invitations[e][u] = "PENDING"
    BY <1>3, ServedTypes
       DEF SoloInv, LockInv, AnswerWrite, At, Serving, InvitePc, Finds, OtherFinds
  <2>2. PICK status \in {"ACCEPTED", "DECLINED"} :
          invitations' = [invitations EXCEPT ![e][u] = status]
    BY <1>3, <2>1 DEF AnswerWrite
  <2>3. A!Reply(u, e, status)
    BY <1>3, <2>1, <2>2 DEF A!Reply, AnswerWrite
  <2> QED BY <2>1, <2>3 DEF A!Next
<1>4. CASE MessageInsert(r) /\ ~UNCHANGED tables
  <2>1. e \in Event /\ u \in User /\ TypeOK
    BY <1>4, ServedTypes
       DEF SoloInv, LockInv, MessageInsert, At, Serving, MessagePc
  <2>2. Exists(e) /\ (Leads(u, e) \/ HasRow(e, u))
    BY <1>4 DEF SoloInv, Finds, OtherFinds, MessageInsert, At
  <2>3. /\ senders' = [senders EXCEPT ![e] = @ \cup {u}]
        /\ UNCHANGED <<events, participations, invitations>>
    BY <1>4 DEF MessageInsert, tables
  <2>4. A!Talk(u, e)
    BY <2>1, <2>2, <2>3, AttendsIsHasRow DEF A!Talk, A!Leads, Leads, Exists
  <2> QED BY <2>1, <2>4 DEF A!Next
<1> QED BY <1>1, <1>2, <1>3, <1>4
        DEF Invite, InviteEvent, AnswerInvitation, AnswerRead, Message, MessageEvent,
            MessageCreator, MessageParticipant

\* Served one request at a time, whatever fails, every call takes effect at once
\* and whole, as Attendance says, or not at all.
THEOREM BackendImplementsAttendance == OneSlot => (Spec => ImplementsAttendance)
<1> SUFFICES ASSUME OneSlot PROVE Spec => ImplementsAttendance
  OBVIOUS
<1>1. TablesInit => SoloInv /\ EventsDrawn
  BY SoloInit
<1>2. TablesInit => A!Init
  BY DEF TablesInit, A!Init
<1>3. SoloInv /\ [Next]_vars => [A!Next]_(A!attendance)
  <2> SUFFICES ASSUME SoloInv, [Next]_vars PROVE A!Next \/ UNCHANGED tables
    BY DEF A!attendance, tables
  <2>1. CASE UNCHANGED vars
    BY <2>1 DEF vars, tables
  <2>2. ASSUME NEW r \in Request,
               Begin(r) \/ BeginCreate(r) \/ Release(r) \/ StatementFails(r)
                 \/ DeadlockAbort(r)
        PROVE  UNCHANGED tables
    BY <2>2 DEF Begin, BeginCreate, Release, StatementFails, DeadlockAbort
  <2> QED BY <2>1, <2>2, JoinImplements, LeaveImplements, EventsImplement,
             OthersImplement DEF Next, Serve
<1> QED BY <1>1, <1>2, <1>3, SoloNext, PTL DEF Spec, ImplementsAttendance, A!Spec
=============================================================================
