--------------------------- MODULE BackendProofs ----------------------------
(***************************************************************************)
(* What holds of Backend for every set of users, UUIDs and request slots,   *)
(* every capacity, every set of operations and every number of failures.    *)
(***************************************************************************)
EXTENDS Backend, SequenceTheorems, FiniteSetTheorems, TLAPS

-----------------------------------------------------------------------------
(* Rows of participations *)

\* DELETE removes exactly one row and keeps the order of the others.
LEMMA WithoutRowElements ==
  ASSUME NEW rows \in Seq(User), NEW u, Contains(rows, u)
  PROVE  \E k \in 1..Len(rows) :
           /\ rows[k] = u
           /\ WithoutRow(rows, u) \in Seq(User)
           /\ Len(WithoutRow(rows, u)) = Len(rows) - 1
           /\ \A i \in 1..Len(rows)-1 :
                WithoutRow(rows, u)[i] = IF i < k THEN rows[i] ELSE rows[i+1]
<1> DEFINE k == CHOOSE i \in 1..Len(rows) : rows[i] = u
           before == SubSeq(rows, 1, k-1)
           after  == SubSeq(rows, k+1, Len(rows))
<1>1. k \in 1..Len(rows) /\ rows[k] = u
  BY DEF Contains
<1>2. WithoutRow(rows, u) = before \o after
  BY DEF WithoutRow, RemoveAt
<1> HIDE DEF k
<1>3. Len(rows) \in Nat /\ \A i \in 1..Len(rows) : rows[i] \in User
  BY LenProperties
<1>4. /\ before \in Seq(User)
      /\ Len(before) = k-1
      /\ \A i \in 1..k-1 : before[i] = rows[i]
  <2>1. \A i \in 1..k-1 : rows[i] \in User
    BY <1>1, <1>3
  <2> QED BY <1>1, <1>3, <2>1, SubSeqProperties
<1>5. /\ after \in Seq(User)
      /\ Len(after) = Len(rows) - k
      /\ \A i \in 1..Len(rows)-k : after[i] = rows[i+k]
  <2>1. \A i \in k+1..Len(rows) : rows[i] \in User
    BY <1>1, <1>3
  <2>2. /\ after \in Seq(User)
        /\ Len(after) = IF k+1 <= Len(rows) THEN Len(rows)-(k+1)+1 ELSE 0
        /\ \A i \in 1..Len(rows)-(k+1)+1 : after[i] = rows[(k+1)+i-1]
    BY <1>1, <1>3, <2>1, SubSeqProperties
  <2> QED BY <1>1, <1>3, <2>2
<1> HIDE DEF before, after
<1>6. /\ before \o after \in Seq(User)
      /\ Len(before \o after) = Len(before) + Len(after)
      /\ \A i \in 1..Len(before) + Len(after) : (before \o after)[i] =
           IF i <= Len(before) THEN before[i] ELSE after[i - Len(before)]
  BY <1>4, <1>5, ConcatProperties
<1>7. ASSUME NEW i \in 1..Len(rows)-1
      PROVE  (before \o after)[i] = IF i < k THEN rows[i] ELSE rows[i+1]
  <2>1. CASE i < k
    BY <1>1, <1>3, <1>4, <1>5, <1>6, <2>1
  <2>2. CASE i >= k
    <3>1. (before \o after)[i] = after[i - (k-1)]
      BY <1>1, <1>3, <1>4, <1>5, <1>6, <2>2
    <3>2. after[i - (k-1)] = rows[i - (k-1) + k]
      BY <1>1, <1>3, <1>5, <2>2
    <3> QED BY <1>1, <1>3, <2>2, <3>1, <3>2
  <2>3. i < k \/ i >= k
    BY <1>1, <1>3
  <2> QED BY <2>1, <2>2, <2>3
<1>8. Len(before \o after) = Len(rows) - 1
  BY <1>1, <1>3, <1>4, <1>5, <1>6
<1> QED BY <1>1, <1>2, <1>6, <1>7, <1>8

\* DELETE keeps an event's rows a sequence without duplicates, no longer than
\* it was, and takes the row of no other user.
LEMMA WithoutRowType ==
  ASSUME NEW rows \in Seq(User), IsInjective(rows), NEW u
  PROVE  /\ WithoutRow(rows, u) \in Seq(User)
         /\ IsInjective(WithoutRow(rows, u))
         /\ Len(WithoutRow(rows, u)) <= Len(rows)
         /\ \A v : Contains(rows, v) /\ v # u => Contains(WithoutRow(rows, u), v)
<1>1. CASE ~Contains(rows, u)
  BY <1>1, LenProperties DEF WithoutRow
<1>2. CASE Contains(rows, u)
  <2> DEFINE w == WithoutRow(rows, u)
  <2>1. PICK k \in 1..Len(rows) :
          /\ rows[k] = u
          /\ w \in Seq(User)
          /\ Len(w) = Len(rows) - 1
          /\ \A i \in 1..Len(rows)-1 :
               w[i] = IF i < k THEN rows[i] ELSE rows[i+1]
    BY <1>2, WithoutRowElements
  <2> HIDE DEF w
  <2>2. /\ Len(rows) \in Nat
        /\ DOMAIN rows = 1..Len(rows)
        /\ DOMAIN w = 1..Len(rows)-1
    BY <2>1, LenProperties
  <2>3. IsInjective(w)
    <3>1. SUFFICES ASSUME NEW a \in 1..Len(rows)-1, NEW b \in 1..Len(rows)-1,
                          w[a] = w[b]
                   PROVE  a = b
      BY <2>2 DEF IsInjective
    <3> DEFINE old(i) == IF i < k THEN i ELSE i+1
    <3>2. /\ old(a) \in 1..Len(rows) /\ w[a] = rows[old(a)]
          /\ old(b) \in 1..Len(rows) /\ w[b] = rows[old(b)]
      BY <2>1, <2>2
    <3>3. old(a) = old(b)
      <4> HIDE DEF old
      <4> QED BY <2>2, <3>1, <3>2 DEF IsInjective
    <3> QED BY <2>1, <2>2, <3>3
  <2>4. ASSUME NEW v, Contains(rows, v), v # u
        PROVE  Contains(w, v)
    <3>1. PICK i \in 1..Len(rows) : rows[i] = v
      BY <2>4 DEF Contains
    <3>2. CASE i < k
      BY <2>1, <2>2, <3>1, <3>2 DEF Contains
    <3>3. CASE i > k
      <4>1. i-1 \in 1..Len(w) /\ w[i-1] = rows[i]
        BY <2>1, <2>2, <3>1, <3>3
      <4> QED BY <3>1, <4>1 DEF Contains
    <3>4. i # k
      BY <2>1, <2>4, <3>1
    <3> QED BY <2>2, <3>2, <3>3, <3>4
  <2> QED BY <2>1, <2>2, <2>3, <2>4 DEF w
<1> QED BY <1>1, <1>2

\* DELETE takes the row of its own user and adds none.
LEMMA WithoutRowOthers ==
  ASSUME NEW rows \in Seq(User), IsInjective(rows), NEW u,
         NEW v, Contains(WithoutRow(rows, u), v)
  PROVE  Contains(rows, v) /\ v # u
<1>1. CASE ~Contains(rows, u)
  BY <1>1 DEF WithoutRow
<1>2. CASE Contains(rows, u)
  <2> DEFINE w == WithoutRow(rows, u)
  <2>1. PICK k \in 1..Len(rows) :
          /\ rows[k] = u
          /\ w \in Seq(User)
          /\ Len(w) = Len(rows) - 1
          /\ \A i \in 1..Len(rows)-1 :
               w[i] = IF i < k THEN rows[i] ELSE rows[i+1]
    BY <1>2, WithoutRowElements
  <2> HIDE DEF w
  <2>2. Len(rows) \in Nat /\ DOMAIN rows = 1..Len(rows)
    BY LenProperties
  <2>3. PICK i \in 1..Len(rows)-1 : w[i] = v
    BY <2>1 DEF Contains, w
  <2>4. PICK j \in 1..Len(rows) : j # k /\ rows[j] = v
    <3>1. CASE i < k
      BY <2>1, <2>2, <2>3, <3>1
    <3>2. CASE ~(i < k)
      BY <2>1, <2>2, <2>3, <3>2
    <3> QED BY <3>1, <3>2
  <2>5. v # u
    BY <2>1, <2>2, <2>4 DEF IsInjective
  <2> QED BY <2>4, <2>5 DEF Contains
<1> QED BY <1>1, <1>2

\* INSERT adds a row of a user who has none.
LEMMA AppendRowType ==
  ASSUME NEW rows \in Seq(User), IsInjective(rows), NEW u \in User,
         ~Contains(rows, u)
  PROVE  /\ Append(rows, u) \in Seq(User)
         /\ IsInjective(Append(rows, u))
         /\ Len(Append(rows, u)) = Len(rows) + 1
         /\ \A v : Contains(rows, v) => Contains(Append(rows, u), v)
<1>1. /\ Len(rows) \in Nat
      /\ DOMAIN rows = 1..Len(rows)
      /\ Append(rows, u) \in Seq(User)
      /\ Len(Append(rows, u)) = Len(rows) + 1
      /\ DOMAIN Append(rows, u) = 1..Len(rows)+1
      /\ \A i \in 1..Len(rows) : Append(rows, u)[i] = rows[i]
      /\ Append(rows, u)[Len(rows)+1] = u
  BY LenProperties
<1>2. IsInjective(Append(rows, u))
  BY <1>1 DEF IsInjective, Contains
<1>3. \A v : Contains(rows, v) => Contains(Append(rows, u), v)
  BY <1>1 DEF Contains
<1> QED BY <1>1, <1>2, <1>3

-----------------------------------------------------------------------------
(* Slots *)

\* The part of TypeOK about the requests.
RequestsOK ==
  /\ req \in [Request -> Slot]
  /\ \A r \in Request : WellFormed(req[r])

\* A slot that serves nothing is a slot.
LEMMA IdleType == Idle \in Slot /\ WellFormed(Idle)
BY BoundsAssumption
   DEF Idle, Slot, WellFormed, Code, Write, Serving, JoinPc, LeavePc, OpenPc,
       EventPc, InvitePc, MessagePc

\* So is one that has answered.
LEMMA DoneType ==
  ASSUME NEW status \in Code
  PROVE  Done(status) \in Slot /\ WellFormed(Done(status))
<1>1. "done" \notin Serving
  BY DEF Serving, JoinPc, LeavePc, OpenPc, EventPc, InvitePc, MessagePc
<1>2. Done(status) \in Slot
  BY IdleType DEF Done, Slot
<1>3. /\ Done(status).pc = "done"
      /\ Done(status).write = "none"
  BY IdleType DEF Done, Slot, Idle
<1> QED BY <1>1, <1>2, <1>3 DEF WellFormed

\* The statuses the handlers answer.
LEMMA CodeType == {OK, 400, 403, 404, 409, 500} \subseteq Code
BY DEF Code, OK

\* The places at which a handler holds no write and reads no peer.
Plain == Serving \ {"tx:transfer", "invite:insert", "tx:cascade", "tx:commit"}

\* A handler that holds no write goes on, keeping or changing a local.
LEMMA AdvanceType ==
  ASSUME NEW s \in Slot, WellFormed(s), s.pc \in Serving, s.write = "none"
  PROVE  /\ \A pc \in Plain :
              /\ [s EXCEPT !.pc = pc] \in Slot
              /\ WellFormed([s EXCEPT !.pc = pc])
         /\ \A pc \in Plain, c \in 0..MaxCapacity :
              /\ [s EXCEPT !.pc = pc, !.cap = c] \in Slot
              /\ WellFormed([s EXCEPT !.pc = pc, !.cap = c])
         /\ \A pc \in Plain, n \in Nat :
              /\ [s EXCEPT !.pc = pc, !.count = n] \in Slot
              /\ WellFormed([s EXCEPT !.pc = pc, !.count = n])
         /\ \A pc \in {"tx:transfer", "invite:insert"}, u \in User :
              /\ [s EXCEPT !.pc = pc, !.peer = u] \in Slot
              /\ WellFormed([s EXCEPT !.pc = pc, !.peer = u])
<1>1. {"tx:transfer", "invite:insert"} \subseteq Serving
  BY DEF Serving, OpenPc, InvitePc
<1> QED BY <1>1 DEF Slot, WellFormed, Plain, Write

\* A step that gives one request a proper slot keeps them all proper.
LEMMA BecomeType ==
  ASSUME RequestsOK, NEW r \in Request, NEW s \in Slot, WellFormed(s),
         Become(r, s)
  PROVE  RequestsOK'
BY DEF Become, RequestsOK

\* Answering forgets the locals.
LEMMA AnswerType ==
  ASSUME RequestsOK, NEW r \in Request,
         NEW status \in {OK, 400, 403, 404, 409, 500}, Answer(r, status)
  PROVE  RequestsOK'
<1>1. status \in Code
  BY DEF Code, OK
<1> QED BY <1>1, DoneType, BecomeType DEF Answer

\* Going on to a place that reads no peer and holds no write keeps the locals.
LEMMA GotoType ==
  ASSUME RequestsOK, NEW r \in Request, req[r].pc \in Plain,
         NEW pc \in Plain, Goto(r, pc)
  PROVE  RequestsOK'
<1>1. /\ req[r] \in Slot /\ WellFormed(req[r])
      /\ req[r].pc \in Serving /\ req[r].write = "none"
  BY DEF RequestsOK, WellFormed, Plain
<1>2. Become(r, [req[r] EXCEPT !.pc = pc])
  BY DEF Goto, Become, RequestsOK
<1>3. [req[r] EXCEPT !.pc = pc] \in Slot /\ WellFormed([req[r] EXCEPT !.pc = pc])
  BY <1>1, AdvanceType
<1> QED BY <1>2, <1>3, BecomeType

\* What a request at a place that is served knows.
LEMMA PlainSlot ==
  ASSUME RequestsOK, NEW r \in Request, req[r].pc \in Plain
  PROVE  /\ req[r] \in Slot /\ WellFormed(req[r])
         /\ req[r].pc \in Serving /\ req[r].write = "none"
         /\ req[r].user \in User /\ req[r].event \in Event
BY DEF RequestsOK, WellFormed, Plain

\* Where a request that answers, or goes on, is next.
LEMMA AnswerPc ==
  ASSUME TypeOK, NEW r \in Request, NEW status, Answer(r, status)
  PROVE  req'[r].pc = "done"
<1>1. Done(status).pc = "done"
  BY IdleType DEF Done, Slot, Idle
<1> QED BY <1>1 DEF Answer, Become, TypeOK

\* Going on keeps the locals.
LEMMA GotoPc ==
  ASSUME TypeOK, NEW r \in Request, NEW pc, Goto(r, pc)
  PROVE  /\ req'[r].pc = pc /\ req'[r].user = req[r].user
         /\ req'[r].event = req[r].event /\ req'[r].peer = req[r].peer
         /\ req'[r].write = req[r].write
         /\ \A q \in Request \ {r} : req'[q] = req[q]
BY DEF Goto, TypeOK, Slot

\* The places that are not plain.
LEMMA PlainPcs ==
  Serving \ Plain = {"tx:transfer", "invite:insert", "tx:cascade", "tx:commit"}
BY DEF Plain, Serving, OpenPc, InvitePc

\* countParticipants answers a number.
LEMMA CountType ==
  ASSUME TypeOK, NEW e \in Event
  PROVE  CountParticipants(e) \in Nat
<1>1. participations[e] \in Seq(User)
  BY DEF TypeOK
<1> QED BY <1>1, LenProperties DEF CountParticipants

-----------------------------------------------------------------------------
(* Type correctness, handler by handler *)

\* A step that changes only the requests keeps TypeOK if it keeps RequestsOK.
LEMMA RequestsOnly ==
  ASSUME TypeOK, RequestsOK', UNCHANGED <<tables, spent, announced, failures>>
  PROVE  TypeOK'
BY DEF TypeOK, RequestsOK, tables

\* RequestsOK is the part of TypeOK that is about the requests.
LEMMA TypeRequests == TypeOK => RequestsOK
BY DEF TypeOK, RequestsOK

\* What an UPDATE makes of a row of events is a row of events.
LEMMA RowType ==
  ASSUME NEW row \in Row
  PROVE  /\ \A u \in User : [row EXCEPT !.creator = u] \in Row
         /\ [row EXCEPT !.active = FALSE] \in Row
         /\ \A c \in 1..MaxCapacity, v \in Visibility :
              [row EXCEPT !.capacity = c, !.visibility = v] \in Row
BY DEF Row

\* An UPDATE of events changes one row, if it is there.
LEMMA UpdateType ==
  ASSUME TypeOK, NEW e, NEW row, e \in DOMAIN events => row \in Row,
         events' = [events EXCEPT ![e] = row]
  PROVE  /\ DOMAIN events' \subseteq Event
         /\ \A x \in DOMAIN events' : events'[x] \in Row
BY DEF TypeOK

\* Deleting an event, with its cascades, keeps the tables well typed.
LEMMA DeleteEventType ==
  ASSUME TypeOK, RequestsOK', NEW e \in Event, DeleteEvent(e),
         UNCHANGED <<spent, announced, failures>>
  PROVE  TypeOK'
<1>1. <<>> \in Seq(User) /\ IsInjective(<<>>)
  BY DEF IsInjective
<1>2. /\ participations' \in [Event -> Seq(User)]
      /\ \A x \in Event : IsInjective(participations'[x])
  BY <1>1 DEF DeleteEvent, TypeOK
<1>3. /\ DOMAIN events' \subseteq Event
      /\ \A x \in DOMAIN events' : events'[x] \in Row
  BY DEF DeleteEvent, TypeOK
<1>4. invitations' \in [Event -> [User -> Status]]
  BY DEF DeleteEvent, TypeOK, Status
<1> QED BY <1>2, <1>3, <1>4 DEF DeleteEvent, TypeOK, RequestsOK

\* Every step of join keeps the types.
LEMMA JoinType ==
  ASSUME TypeOK, NEW r \in Request, Join(r)
  PROVE  TypeOK'
<1>0. RequestsOK
  BY TypeRequests
<1> DEFINE e == req[r].event
           u == req[r].user
<1>1. CASE JoinEvent(r)
  <2>1. RequestsOK'
    <3>1. req[r].pc \in Plain
      BY <1>1 DEF JoinEvent, At, Plain, Serving, JoinPc
    <3>2. CASE Answer(r, GetEventOrThrow(e)) /\ GetEventOrThrow(e) # OK
      BY <1>0, <3>2, AnswerType DEF GetEventOrThrow
    <3>3. CASE Answer(r, 403)
      BY <1>0, <3>3, AnswerType
    <3>4. CASE /\ GetEventOrThrow(e) = OK
               /\ Become(r, [req[r] EXCEPT
                    !.pc = IF events[e].visibility = "PRIVATE"
                           THEN "join:access" ELSE "join:capacity",
                    !.cap = events[e].capacity])
      <4>1. events[e].capacity \in 0..MaxCapacity
        BY <3>4, BoundsAssumption DEF GetEventOrThrow, OK, Exists, TypeOK, Row
      <4>2. {"join:access", "join:capacity"} \subseteq Plain
        BY DEF Plain, Serving, JoinPc
      <4> QED BY <1>0, <3>1, <3>4, <4>1, <4>2, PlainSlot, AdvanceType, BecomeType
    <3> QED BY <1>1, <3>2, <3>3, <3>4 DEF JoinEvent
  <2> QED BY <1>1, <2>1, RequestsOnly DEF JoinEvent
<1>2. CASE JoinAccess(r)
  <2>1. {req[r].pc, "join:capacity"} \subseteq Plain
    BY <1>2 DEF JoinAccess, At, Plain, Serving, JoinPc
  <2>2. RequestsOK'
    BY <1>0, <1>2, <2>1, AnswerType, GotoType DEF JoinAccess
  <2> QED BY <1>2, <2>2, RequestsOnly DEF JoinAccess
<1>3. CASE JoinCapacity(r)
  <2>1. {req[r].pc, "join:insert"} \subseteq Plain
    BY <1>3 DEF JoinCapacity, At, Plain, Serving, JoinPc
  <2>2. RequestsOK'
    BY <1>0, <1>3, <2>1, AnswerType, GotoType DEF JoinCapacity
  <2> QED BY <1>3, <2>2, RequestsOnly DEF JoinCapacity
<1>4. CASE JoinInsert(r)
  <2>1. {req[r].pc, "join:count"} \subseteq Plain
    BY <1>4 DEF JoinInsert, At, Plain, Serving, JoinPc
  <2>2. u \in User /\ e \in Event
    BY <1>0, <2>1, PlainSlot
  <2>3. RequestsOK'
    <3>1. 0 \in 0..MaxCapacity
      BY BoundsAssumption
    <3>2. CASE Answer(r, 409) \/ Answer(r, 404)
      BY <1>0, <3>2, AnswerType
    <3>3. CASE Become(r, [req[r] EXCEPT !.pc = "join:count", !.cap = 0])
      BY <1>0, <2>1, <3>1, <3>3, PlainSlot, AdvanceType, BecomeType
    <3> QED BY <1>4, <3>2, <3>3 DEF JoinInsert
  <2>4. /\ participations' \in [Event -> Seq(User)]
        /\ \A x \in Event : IsInjective(participations'[x])
    <3>1. CASE UNCHANGED participations
      BY <3>1 DEF TypeOK
    <3>2. CASE /\ ~HasRow(e, u)
               /\ participations' = [participations EXCEPT ![e] = Append(@, u)]
      <4>1. /\ Append(participations[e], u) \in Seq(User)
            /\ IsInjective(Append(participations[e], u))
        BY <2>2, <3>2, AppendRowType DEF TypeOK, HasRow
      <4> QED BY <2>2, <3>2, <4>1 DEF TypeOK
    <3> QED BY <1>4, <3>1, <3>2 DEF JoinInsert
  <2> QED BY <1>4, <2>3, <2>4 DEF JoinInsert, TypeOK, RequestsOK
<1>5. CASE JoinCount(r)
  <2>1. {req[r].pc, "join:emit"} \subseteq Plain
    BY <1>5 DEF JoinCount, At, Plain, Serving, JoinPc
  <2>2. RequestsOK'
    BY <1>0, <1>5, <2>1, PlainSlot, CountType, AdvanceType, BecomeType
       DEF JoinCount
  <2> QED BY <1>5, <2>2, RequestsOnly DEF JoinCount
<1>6. CASE JoinEmit(r)
  <2>1. RequestsOK'
    BY <1>0, <1>6, AnswerType DEF JoinEmit
  <2>2. announced' \in [Event -> Nat]
    BY <1>0, <1>6 DEF JoinEmit, TypeOK, Slot
  <2> QED BY <1>6, <2>1, <2>2 DEF JoinEmit, TypeOK, RequestsOK, tables
<1> QED BY <1>1, <1>2, <1>3, <1>4, <1>5, <1>6 DEF Join

\* Every step of leave does, handleCreatorLeave included.
LEMMA LeaveType ==
  ASSUME TypeOK, NEW r \in Request, Leave(r)
  PROVE  TypeOK'
<1>0. RequestsOK
  BY TypeRequests
<1> DEFINE e == req[r].event
           u == req[r].user
<1>a. {"leave:event", "leave:delete", "leave:count", "leave:emit", "tx:delete",
       "tx:next", "tx:messages", "tx:deactivate", "tx:drop"} \subseteq Plain
  BY DEF Plain, Serving, LeavePc, OpenPc
<1>b. {"tx:transfer", "tx:cascade", "tx:commit"} \subseteq Serving
  BY DEF Serving, OpenPc
<1>1. CASE LeaveEvent(r)
  <2>1. CASE Answer(r, GetEventOrThrow(e)) /\ GetEventOrThrow(e) # OK
    <3>1. RequestsOK'
      BY <1>0, <2>1, AnswerType DEF GetEventOrThrow
    <3> QED BY <1>1, <3>1, RequestsOnly DEF LeaveEvent
  <2>2. CASE \E pc \in {"tx:delete", "leave:delete"} : Goto(r, pc)
    <3>1. RequestsOK'
      BY <1>0, <1>a, <1>1, <2>2, GotoType DEF LeaveEvent, At
    <3> QED BY <1>1, <3>1, RequestsOnly DEF LeaveEvent
  <2> QED BY <1>1, <2>1, <2>2 DEF LeaveEvent
<1>2. CASE LeaveDelete(r)
  <2>1. RequestsOK'
    BY <1>0, <1>a, <1>2, AnswerType, GotoType DEF LeaveDelete, At
  <2>2. e \in Event
    BY <1>0, <1>a, <1>2, PlainSlot DEF LeaveDelete, At
  <2>3. /\ WithoutRow(participations[e], u) \in Seq(User)
        /\ IsInjective(WithoutRow(participations[e], u))
    BY <2>2, WithoutRowType DEF TypeOK
  <2>4. /\ participations' \in [Event -> Seq(User)]
        /\ \A x \in Event : IsInjective(participations'[x])
    BY <1>2, <2>2, <2>3 DEF LeaveDelete, TypeOK
  <2> QED BY <1>2, <2>1, <2>4 DEF LeaveDelete, TypeOK, RequestsOK
<1>3. CASE LeaveCount(r)
  <2>1. RequestsOK'
    BY <1>0, <1>a, <1>3, PlainSlot, CountType, AdvanceType, BecomeType
       DEF LeaveCount, At
  <2> QED BY <1>3, <2>1, RequestsOnly DEF LeaveCount
<1>4. CASE LeaveEmit(r)
  <2>1. RequestsOK'
    BY <1>0, <1>4, AnswerType DEF LeaveEmit, KickFromChat
  <2>2. announced' \in [Event -> Nat]
    BY <1>0, <1>4 DEF LeaveEmit, TypeOK, Slot
  <2> QED BY <1>4, <2>1, <2>2 DEF LeaveEmit, TypeOK, RequestsOK, tables
<1>5. CASE TxDelete(r)
  <2>1. RequestsOK'
    BY <1>0, <1>a, <1>5, AnswerType, GotoType DEF TxDelete, At
  <2> QED BY <1>5, <2>1, RequestsOnly DEF TxDelete
<1>6. CASE TxNext(r)
  <2> DEFINE others == WithoutRow(participations[e], u)
  <2>1. req[r].pc \in Plain /\ e \in Event
    BY <1>0, <1>a, <1>6, PlainSlot DEF TxNext, At
  <2>2. others \in Seq(User)
    BY <2>1, WithoutRowType DEF TypeOK
  <2>3. CASE Goto(r, "tx:messages")
    <3>1. RequestsOK'
      BY <1>0, <1>a, <2>1, <2>3, GotoType
    <3> QED BY <1>6, <3>1, RequestsOnly DEF TxNext
  <2>4. CASE /\ others # <<>>
             /\ Become(r, [req[r] EXCEPT !.pc = "tx:transfer",
                                         !.peer = Head(others)])
    <3>1. Head(others) \in User
      BY <2>2, <2>4, HeadTailProperties
    <3>2. RequestsOK'
      BY <1>0, <2>1, <2>4, <3>1, PlainSlot, AdvanceType, BecomeType
    <3> QED BY <1>6, <3>2, RequestsOnly DEF TxNext
  <2> QED BY <1>6, <2>3, <2>4 DEF TxNext
<1>7. CASE TxMessages(r)
  <2>1. RequestsOK'
    BY <1>0, <1>a, <1>7, GotoType DEF TxMessages, At
  <2> QED BY <1>7, <2>1, RequestsOnly DEF TxMessages
<1>8. CASE TxWrite(r)
  <2>1. /\ req[r] \in Slot /\ WellFormed(req[r]) /\ req[r].pc \in Serving
        /\ req[r].write = "none"
    BY <1>0, <1>a, <1>b, <1>8 DEF RequestsOK, TxWrite, At, WellFormed, Plain
  <2>2. RequestsOK'
    <3> DEFINE Moved(pc, w) == [req[r] EXCEPT !.pc = pc, !.write = w]
    <3>1. CASE At(r, "tx:transfer") /\ Become(r, Moved("tx:commit", "transfer"))
      <4>1. Moved("tx:commit", "transfer") \in Slot
        BY <1>b, <2>1 DEF Slot, Write
      <4>2. WellFormed(Moved("tx:commit", "transfer"))
        BY <1>b, <2>1, <3>1 DEF Slot, WellFormed, At
      <4> QED BY <1>0, <3>1, <4>1, <4>2, BecomeType
    <3>2. CASE Become(r, Moved("tx:commit", "deactivate"))
      <4>1. Moved("tx:commit", "deactivate") \in Slot
        BY <1>b, <2>1 DEF Slot, Write
      <4>2. WellFormed(Moved("tx:commit", "deactivate"))
        BY <1>b, <2>1, <3>2 DEF Slot, WellFormed, At
      <4> QED BY <1>0, <3>2, <4>1, <4>2, BecomeType
    <3>3. CASE Become(r, Moved("tx:cascade", "drop"))
      <4>1. Moved("tx:cascade", "drop") \in Slot
        BY <1>b, <2>1 DEF Slot, Write
      <4>2. WellFormed(Moved("tx:cascade", "drop"))
        BY <1>b, <2>1, <3>3 DEF Slot, WellFormed, At
      <4> QED BY <1>0, <3>3, <4>1, <4>2, BecomeType
    <3> QED BY <1>8, <3>1, <3>2, <3>3 DEF TxWrite
  <2> QED BY <1>8, <2>2, RequestsOnly DEF TxWrite
<1>9. CASE TxCascade(r)
  <2>1. /\ req[r] \in Slot /\ WellFormed(req[r]) /\ req[r].pc \in Serving
        /\ req[r].write = "drop"
    BY <1>0, <1>b, <1>9 DEF RequestsOK, TxCascade, At, WellFormed
  <2> DEFINE next == [req[r] EXCEPT !.pc = "tx:commit"]
  <2>2. next \in Slot
    BY <1>b, <2>1 DEF Slot
  <2>3. WellFormed(next)
    BY <1>b, <2>1 DEF Slot, WellFormed
  <2>4. Become(r, next)
    BY <1>0, <1>9 DEF TxCascade, Goto, Become, RequestsOK
  <2>5. RequestsOK'
    BY <1>0, <2>2, <2>3, <2>4, BecomeType
  <2> QED BY <1>9, <2>5, RequestsOnly DEF TxCascade
<1>10. CASE TxCommit(r)
  <2>1. /\ req[r] \in Slot /\ WellFormed(req[r]) /\ req[r].pc \in Serving
        /\ e \in Event
    BY <1>0, <1>b, <1>10 DEF RequestsOK, TxCommit, At, WellFormed
  <2>2. /\ WithoutRow(participations[e], u) \in Seq(User)
        /\ IsInjective(WithoutRow(participations[e], u))
    BY <2>1, WithoutRowType DEF TypeOK
  <2>3. CASE req[r].write = "transfer"
    <3>1. req[r].peer \in User
      BY <2>1, <2>3 DEF WellFormed
    <3>2. RequestsOK'
      <4> DEFINE next == [req[r] EXCEPT !.pc = "leave:count", !.peer = Nobody,
                                        !.write = "none"]
      <4>1. next \in Slot
        BY <1>a, <2>1 DEF Slot, Write, Plain
      <4>2. WellFormed(next)
        BY <1>a, <2>1 DEF Slot, WellFormed, Plain
      <4> QED BY <1>0, <1>10, <2>3, <4>1, <4>2, BecomeType DEF TxCommit
    <3>3. /\ DOMAIN events' \subseteq Event
          /\ \A x \in DOMAIN events' : events'[x] \in Row
      <4>1. events' = [events EXCEPT ![e] = [events[e] EXCEPT !.creator = req[r].peer]]
        BY <1>10, <2>3 DEF TxCommit
      <4> QED BY <3>1, <4>1, RowType, UpdateType DEF TypeOK
    <3>4. /\ participations' \in [Event -> Seq(User)]
          /\ \A x \in Event : IsInjective(participations'[x])
      BY <1>10, <2>1, <2>2, <2>3 DEF TxCommit, TypeOK
    <3> QED BY <1>10, <2>3, <3>2, <3>3, <3>4 DEF TxCommit, TypeOK, RequestsOK
  <2>4. CASE req[r].write = "deactivate"
    <3>1. RequestsOK'
      BY <1>0, <1>10, <2>4, AnswerType DEF TxCommit
    <3>2. /\ DOMAIN events' \subseteq Event
          /\ \A x \in DOMAIN events' : events'[x] \in Row
      <4>1. events' = [events EXCEPT ![e] = [events[e] EXCEPT !.active = FALSE]]
        BY <1>10, <2>4 DEF TxCommit
      <4> QED BY <4>1, RowType, UpdateType DEF TypeOK
    <3>3. /\ participations' \in [Event -> Seq(User)]
          /\ \A x \in Event : IsInjective(participations'[x])
      BY <1>10, <2>1, <2>2, <2>4 DEF TxCommit, TypeOK
    <3> QED BY <1>10, <2>4, <3>1, <3>2, <3>3 DEF TxCommit, TypeOK, RequestsOK
  <2>5. CASE req[r].write = "drop"
    <3>1. RequestsOK'
      BY <1>0, <1>10, <2>5, AnswerType DEF TxCommit
    <3> QED BY <1>10, <2>1, <2>5, <3>1, DeleteEventType DEF TxCommit
  <2> QED BY <1>10, <2>3, <2>4, <2>5 DEF TxCommit
<1> QED BY <1>1, <1>2, <1>3, <1>4, <1>5, <1>6, <1>7, <1>8, <1>9, <1>10 DEF Leave

\* The handlers of events hold no write and read no peer.
LEMMA EventPcs == EventPc \subseteq Plain
BY DEF Plain, Serving, EventPc

\* Every step of create keeps the types.
LEMMA CreateType ==
  ASSUME TypeOK, NEW r \in Request, Create(r)
  PROVE  TypeOK'
<1>0. RequestsOK
  BY TypeRequests
<1> DEFINE e == req[r].event
           u == req[r].user
<1>1. CASE CreateInsert(r)
  <2>1. {req[r].pc, "create:emit"} \subseteq Plain
    BY <1>1, EventPcs DEF CreateInsert, At, EventPc
  <2>2. u \in User /\ e \in Event
    BY <1>0, <2>1, PlainSlot
  <2>3. RequestsOK'
    BY <1>0, <1>1, <2>1, GotoType DEF CreateInsert
  <2>4. /\ <<u>> \in Seq(User)
        /\ IsInjective(<<u>>)
    BY <2>2 DEF IsInjective
  <2>5. /\ participations' \in [Event -> Seq(User)]
        /\ \A x \in Event : IsInjective(participations'[x])
    BY <1>1, <2>2, <2>4 DEF CreateInsert, TypeOK
  <2>6. PICK c \in 1..MaxCapacity, v \in Visibility :
          events' = [x \in DOMAIN events \cup {e} |->
                       IF x = e THEN [creator |-> u, capacity |-> c,
                                      visibility |-> v, active |-> TRUE]
                       ELSE events[x]]
    BY <1>1 DEF CreateInsert
  <2>7. [creator |-> u, capacity |-> c, visibility |-> v, active |-> TRUE] \in Row
    BY <2>2 DEF Row
  <2>8. /\ DOMAIN events' \subseteq Event
        /\ \A x \in DOMAIN events' : events'[x] \in Row
    BY <2>2, <2>6, <2>7 DEF TypeOK
  <2> QED BY <1>1, <2>3, <2>5, <2>8 DEF CreateInsert, TypeOK, RequestsOK
<1>2. CASE CreateEmit(r)
  <2>1. RequestsOK'
    BY <1>0, <1>2, AnswerType DEF CreateEmit
  <2>2. announced' \in [Event -> Nat]
    BY <1>2 DEF CreateEmit, TypeOK
  <2> QED BY <1>2, <2>1, <2>2 DEF CreateEmit, TypeOK, RequestsOK, tables
<1> QED BY <1>1, <1>2 DEF Create

\* Every step of update keeps the types.
LEMMA UpdateHandlerType ==
  ASSUME TypeOK, NEW r \in Request, Update(r)
  PROVE  TypeOK'
<1>0. RequestsOK
  BY TypeRequests
<1> DEFINE e == req[r].event
<1>1. CASE UpdateEvent(r)
  <2>1. {req[r].pc, "update:scalars", "update:location", "update:reread"}
          \subseteq Plain
    BY <1>1, EventPcs DEF UpdateEvent, At, EventPc
  <2>2. CASE \E status \in {403, 404} : Answer(r, status)
    BY <1>0, <1>1, <2>2, AnswerType, RequestsOnly DEF UpdateEvent
  <2>3. CASE \E pc \in {"update:scalars", "update:location", "update:reread"} :
               Goto(r, pc)
    <3>1. RequestsOK'
      BY <1>0, <2>1, <2>3, GotoType
    <3> QED BY <1>1, <3>1, RequestsOnly DEF UpdateEvent
  <2> QED BY <1>1, <2>2, <2>3 DEF UpdateEvent, MayChange
<1>2. CASE UpdateScalars(r)
  <2>1. {req[r].pc, "update:location", "update:reread"} \subseteq Plain
    BY <1>2, EventPcs DEF UpdateScalars, At, EventPc
  <2>2. RequestsOK'
    BY <1>0, <1>2, <2>1, GotoType DEF UpdateScalars
  <2>3. PICK c \in 1..MaxCapacity, v \in Visibility :
          events' = [events EXCEPT ![e].capacity = c, ![e].visibility = v]
    BY <1>2 DEF UpdateScalars
  <2>4. events' = [events EXCEPT
                     ![e] = [events[e] EXCEPT !.capacity = c, !.visibility = v]]
    BY <2>3
  <2>5. /\ DOMAIN events' \subseteq Event
        /\ \A x \in DOMAIN events' : events'[x] \in Row
    BY <2>4, RowType, UpdateType DEF TypeOK
  <2> QED BY <1>2, <2>2, <2>5 DEF UpdateScalars, TypeOK, RequestsOK
<1>3. CASE UpdateLocation(r)
  <2>1. {req[r].pc, "update:reread"} \subseteq Plain
    BY <1>3, EventPcs DEF UpdateLocation, At, EventPc
  <2>2. RequestsOK'
    BY <1>0, <1>3, <2>1, GotoType DEF UpdateLocation
  <2> QED BY <1>3, <2>2, RequestsOnly DEF UpdateLocation
<1>4. CASE UpdateReread(r)
  <2>1. {req[r].pc, "update:emit"} \subseteq Plain
    BY <1>4, EventPcs DEF UpdateReread, At, EventPc
  <2>2. CASE Answer(r, 404)
    BY <1>0, <1>4, <2>2, AnswerType, RequestsOnly DEF UpdateReread
  <2>3. CASE Become(r, [req[r] EXCEPT !.pc = "update:emit",
                                      !.count = CountParticipants(e)])
    <3>1. RequestsOK'
      BY <1>0, <2>1, <2>3, PlainSlot, CountType, AdvanceType, BecomeType
    <3> QED BY <1>4, <3>1, RequestsOnly DEF UpdateReread
  <2> QED BY <1>4, <2>2, <2>3 DEF UpdateReread
<1>5. CASE UpdateEmit(r)
  <2>1. RequestsOK'
    BY <1>0, <1>5, AnswerType DEF UpdateEmit
  <2>2. announced' \in [Event -> Nat]
    BY <1>5 DEF UpdateEmit, TypeOK, Slot
  <2> QED BY <1>5, <2>1, <2>2 DEF UpdateEmit, TypeOK, RequestsOK, tables
<1> QED BY <1>1, <1>2, <1>3, <1>4, <1>5 DEF Update

\* Every step of remove keeps the types.
LEMMA RemovalType ==
  ASSUME TypeOK, NEW r \in Request, Removal(r)
  PROVE  TypeOK'
<1>0. RequestsOK
  BY TypeRequests
<1> DEFINE e == req[r].event
<1>1. CASE RemoveEvent(r)
  <2>1. {req[r].pc, "remove:delete"} \subseteq Plain
    BY <1>1, EventPcs DEF RemoveEvent, At, EventPc
  <2>2. CASE \E status \in {403, 404} : Answer(r, status)
    BY <1>0, <1>1, <2>2, AnswerType, RequestsOnly DEF RemoveEvent
  <2>3. CASE Goto(r, "remove:delete")
    <3>1. RequestsOK'
      BY <1>0, <2>1, <2>3, GotoType
    <3> QED BY <1>1, <3>1, RequestsOnly DEF RemoveEvent
  <2> QED BY <1>1, <2>2, <2>3 DEF RemoveEvent, MayChange
<1>2. CASE RemoveDelete(r)
  <2>1. {req[r].pc, "remove:cascade", "remove:emit"} \subseteq Plain
    BY <1>2, EventPcs DEF RemoveDelete, At, EventPc
  <2>2. RequestsOK'
    BY <1>0, <1>2, <2>1, GotoType DEF RemoveDelete
  <2> QED BY <1>2, <2>2, RequestsOnly DEF RemoveDelete
<1>3. CASE RemoveCascade(r)
  <2>1. {req[r].pc, "remove:emit"} \subseteq Plain
    BY <1>3, EventPcs DEF RemoveCascade, At, EventPc
  <2>2. e \in Event
    BY <1>0, <2>1, PlainSlot
  <2>3. RequestsOK'
    BY <1>0, <1>3, <2>1, GotoType DEF RemoveCascade
  <2> QED BY <1>3, <2>2, <2>3, DeleteEventType DEF RemoveCascade
<1>4. CASE RemoveEmit(r)
  <2>1. RequestsOK'
    BY <1>0, <1>4, AnswerType DEF RemoveEmit
  <2>2. announced' \in [Event -> Nat]
    BY <1>4 DEF RemoveEmit, TypeOK
  <2> QED BY <1>4, <2>1, <2>2 DEF RemoveEmit, TypeOK, RequestsOK, tables
<1> QED BY <1>1, <1>2, <1>3, <1>4 DEF Removal

\* Every step of invite and updateStatus keeps the types.
LEMMA InvitationsType ==
  ASSUME TypeOK, NEW r \in Request, Invite(r) \/ AnswerInvitation(r)
  PROVE  TypeOK'
<1>0. RequestsOK
  BY TypeRequests
<1> DEFINE e == req[r].event
<1>a. {"invite:event", "answer:read", "answer:write"} \subseteq Plain
  BY DEF Plain, Serving, InvitePc
<1>1. CASE InviteEvent(r)
  <2>1. req[r].pc \in Plain
    BY <1>1, <1>a DEF InviteEvent, At
  <2>2. PICK invited \in User :
          \/ Answer(r, MayInvite(req[r].user, invited, e))
             /\ MayInvite(req[r].user, invited, e) # OK
          \/ Become(r, [req[r] EXCEPT !.pc = "invite:insert", !.peer = invited])
    BY <1>1 DEF InviteEvent
  <2>3. CASE Answer(r, MayInvite(req[r].user, invited, e))
    BY <1>0, <1>1, <2>3, AnswerType, RequestsOnly DEF InviteEvent, MayInvite
  <2>4. CASE Become(r, [req[r] EXCEPT !.pc = "invite:insert", !.peer = invited])
    <3>1. RequestsOK'
      BY <1>0, <2>1, <2>4, PlainSlot, AdvanceType, BecomeType
    <3> QED BY <1>1, <3>1, RequestsOnly DEF InviteEvent
  <2> QED BY <2>2, <2>3, <2>4
<1>2. CASE InviteInsert(r)
  <2>1. RequestsOK'
    BY <1>0, <1>2, AnswerType DEF InviteInsert
  <2>2. e \in Event /\ req[r].peer \in User
    BY <1>0, <1>2 DEF InviteInsert, At, RequestsOK, WellFormed, Serving, InvitePc
  <2>3. invitations' \in [Event -> [User -> Status]]
    <3>1. CASE UNCHANGED invitations
      BY <3>1 DEF TypeOK
    <3>2. CASE invitations' = [invitations EXCEPT ![e][req[r].peer] = "PENDING"]
      BY <2>2, <3>2 DEF TypeOK, Status
    <3> QED BY <1>2, <3>1, <3>2 DEF InviteInsert
  <2> QED BY <1>2, <2>1, <2>3 DEF InviteInsert, TypeOK, RequestsOK
<1>3. CASE AnswerRead(r)
  <2>1. CASE \E status \in {400, 403, 404} : Answer(r, status)
    BY <1>0, <1>3, <2>1, AnswerType, RequestsOnly DEF AnswerRead
  <2>2. CASE Goto(r, "answer:write")
    <3>1. RequestsOK'
      BY <1>0, <1>3, <1>a, <2>2, GotoType DEF AnswerRead, At
    <3> QED BY <1>3, <3>1, RequestsOnly DEF AnswerRead
  <2> QED BY <1>3, <2>1, <2>2 DEF AnswerRead, MayAnswer
<1>4. CASE AnswerWrite(r)
  <2>1. RequestsOK'
    BY <1>0, <1>4, AnswerType DEF AnswerWrite
  <2>2. e \in Event /\ req[r].user \in User
    BY <1>0, <1>4, <1>a, PlainSlot DEF AnswerWrite, At
  <2>3. invitations' \in [Event -> [User -> Status]]
    <3>1. CASE UNCHANGED invitations
      BY <3>1 DEF TypeOK
    <3>2. CASE \E status \in {"ACCEPTED", "DECLINED"} :
                 invitations' = [invitations EXCEPT ![e][req[r].user] = status]
      BY <2>2, <3>2 DEF TypeOK, Status
    <3> QED BY <1>4, <3>1, <3>2 DEF AnswerWrite
  <2> QED BY <1>4, <2>1, <2>3 DEF AnswerWrite, TypeOK, RequestsOK
<1> QED BY <1>1, <1>2, <1>3, <1>4 DEF Invite, AnswerInvitation

\* Every step of saveMessage keeps the types.
LEMMA MessageType ==
  ASSUME TypeOK, NEW r \in Request, Message(r)
  PROVE  TypeOK'
<1>0. RequestsOK
  BY TypeRequests
<1> DEFINE e == req[r].event
<1>a. MessagePc \subseteq Plain
  BY DEF Plain, Serving, MessagePc
<1>1. CASE MessageEvent(r)
  <2>1. RequestsOK'
    BY <1>0, <1>1, <1>a, AnswerType, GotoType DEF MessageEvent, At, MessagePc
  <2> QED BY <1>1, <2>1, RequestsOnly DEF MessageEvent
<1>2. CASE MessageCreator(r)
  <2>1. RequestsOK'
    BY <1>0, <1>2, <1>a, GotoType DEF MessageCreator, At, MessagePc
  <2> QED BY <1>2, <2>1, RequestsOnly DEF MessageCreator
<1>3. CASE MessageParticipant(r)
  <2>1. RequestsOK'
    BY <1>0, <1>3, <1>a, AnswerType, GotoType
       DEF MessageParticipant, At, MessagePc
  <2> QED BY <1>3, <2>1, RequestsOnly DEF MessageParticipant
<1>4. CASE MessageInsert(r)
  <2>1. RequestsOK'
    BY <1>0, <1>4, AnswerType DEF MessageInsert
  <2>2. e \in Event /\ req[r].user \in User
    BY <1>0, <1>4, <1>a, PlainSlot DEF MessageInsert, At, MessagePc
  <2>3. senders' \in [Event -> SUBSET User]
    <3>1. senders[e] \cup {req[r].user} \in SUBSET User
      BY <2>2 DEF TypeOK
    <3>2. CASE senders' = [senders EXCEPT ![e] = senders[e] \cup {req[r].user}]
      BY <3>1, <3>2 DEF TypeOK
    <3>3. CASE UNCHANGED senders
      BY <3>3 DEF TypeOK
    <3> QED BY <1>4, <3>2, <3>3 DEF MessageInsert
  <2> QED BY <1>4, <2>1, <2>3 DEF MessageInsert, TypeOK, RequestsOK
<1> QED BY <1>1, <1>2, <1>3, <1>4 DEF Message

\* What happens to a request outside its handler.
LEMMA LifeType ==
  ASSUME TypeOK, NEW r \in Request,
         \/ Begin(r) \/ BeginCreate(r) \/ Release(r)
         \/ StatementFails(r) \/ DeadlockAbort(r)
  PROVE  TypeOK'
<1>0. RequestsOK
  BY TypeRequests
<1>a. \A pc \in Plain, u \in User, e \in Event :
        LET s == [Idle EXCEPT !.pc = pc, !.user = u, !.event = e]
        IN  s \in Slot /\ WellFormed(s)
  <2> TAKE pc \in Plain, u \in User, e \in Event
  <2> DEFINE s == [Idle EXCEPT !.pc = pc, !.user = u, !.event = e]
  <2>1. s \in Slot
    BY IdleType DEF Slot, Plain
  <2>2. s.pc = pc /\ s.user = u /\ s.event = e /\ s.write = "none"
    BY IdleType DEF Slot, Idle
  <2> QED BY <2>1, <2>2 DEF WellFormed, Plain
<1>1. CASE Begin(r)
  <2>1. \A op \in DOMAIN FirstPc : FirstPc[op] \in Plain
    BY DEF FirstPc, Plain, Serving, JoinPc, LeavePc, EventPc, InvitePc, MessagePc
  <2>2. Known \subseteq Event
    BY DEF Known, TypeOK
  <2>3. PICK op \in Operation \cap DOMAIN FirstPc, u \in User, e \in Known :
          Become(r, [Idle EXCEPT !.pc = FirstPc[op], !.user = u, !.event = e])
    BY <1>1 DEF Begin
  <2>4. RequestsOK'
    BY <1>0, <1>a, <2>1, <2>2, <2>3, BecomeType
  <2> QED BY <1>1, <2>4, RequestsOnly DEF Begin
<1>2. CASE BeginCreate(r)
  <2>1. "create:insert" \in Plain
    BY EventPcs DEF EventPc
  <2>2. PICK u \in User, e \in Event \ spent :
          /\ Become(r, [Idle EXCEPT !.pc = "create:insert", !.user = u, !.event = e])
          /\ spent' = spent \cup {e}
    BY <1>2 DEF BeginCreate
  <2>3. RequestsOK'
    BY <1>0, <1>a, <2>1, <2>2, BecomeType
  <2> QED BY <1>2, <2>2, <2>3 DEF BeginCreate, TypeOK, RequestsOK, tables
<1>3. CASE Release(r)
  <2>1. RequestsOK'
    BY <1>0, <1>3, IdleType, BecomeType DEF Release
  <2> QED BY <1>3, <2>1, RequestsOnly DEF Release
<1>4. CASE StatementFails(r)
  <2>1. RequestsOK'
    BY <1>0, <1>4, AnswerType DEF StatementFails
  <2>2. failures' \in 0..MaxFailures
    BY <1>4, BoundsAssumption DEF StatementFails, TypeOK
  <2> QED BY <1>4, <2>1, <2>2 DEF StatementFails, TypeOK, RequestsOK, tables
<1>5. CASE DeadlockAbort(r)
  <2>1. RequestsOK'
    BY <1>0, <1>5, AnswerType DEF DeadlockAbort
  <2> QED BY <1>5, <2>1, RequestsOnly DEF DeadlockAbort
<1> QED BY <1>1, <1>2, <1>3, <1>4, <1>5

\* The empty tables have their types.
LEMMA InitType == TablesInit => TypeOK
<1> SUFFICES ASSUME TablesInit PROVE TypeOK
  OBVIOUS
<1>1. <<>> \in Seq(User) /\ IsInjective(<<>>)
  BY DEF IsInjective
<1>2. req \in [Request -> Slot] /\ \A r \in Request : WellFormed(req[r])
  BY IdleType DEF TablesInit
<1> QED BY <1>1, <1>2, BoundsAssumption DEF TablesInit, TypeOK, Status

\* TypeOK holds of the backend: whatever the interleaving, the requests keep
\* the locals their handlers read, the tables their types, and UNIQUE (user_id,
\* event_id) its word.
THEOREM TypeCorrect == Spec => []TypeOK
<1>1. TypeOK /\ [Next]_vars => TypeOK'
  <2> SUFFICES ASSUME TypeOK, [Next]_vars PROVE TypeOK'
    OBVIOUS
  <2>1. CASE UNCHANGED vars
    BY <2>1 DEF vars, tables, TypeOK
  <2>2. CASE Next
    <3>1. PICK r \in Request : \/ Begin(r) \/ BeginCreate(r)
                               \/ Serve(r)
                               \/ StatementFails(r) \/ DeadlockAbort(r)
      BY <2>2 DEF Next
    <3> QED BY <3>1, JoinType, LeaveType, CreateType, UpdateHandlerType,
               RemovalType, InvitationsType, MessageType, LifeType DEF Serve
  <2> QED BY <2>1, <2>2
<1> QED BY <1>1, InitType, PTL DEF Spec

-----------------------------------------------------------------------------
(* Row locks.  Most steps neither take a lock nor move a request to another   *)
(* event: they are quiet, and only the others need an argument.              *)

\* A UUID is drawn before any request names its event, and until the event is
\* inserted no other request does.
DrawnOnce ==
  /\ \A r \in Request : req[r].pc \in Serving => req[r].event \in spent
  /\ \A r, s \in Request :
       r # s /\ At(r, "create:insert") /\ req[s].pc \in Serving
         => req[s].event # req[r].event

Quiet(r) ==
  /\ \A q \in Request \ {r} : req'[q] = req[q]
  /\ req'[r].write = "none"
  /\ req'[r].pc \notin {"remove:cascade", "create:insert"}
  /\ req'[r].pc \in Serving => /\ req[r].pc \in Serving
                               /\ req'[r].event = req[r].event
                               /\ req'[r].user = req[r].user
  /\ req'[r].pc \in OpenPc => req[r].pc \in OpenPc

\* Answering takes no lock.
LEMMA AnswerQuiet ==
  ASSUME TypeOK, NEW r \in Request, NEW status, Answer(r, status)
  PROVE  Quiet(r)
<1>1. "done" \notin Serving \cup OpenPc
  BY DEF Serving, JoinPc, LeavePc, OpenPc, EventPc, InvitePc, MessagePc
<1>2. /\ Done(status).pc = "done"
      /\ Done(status).write = "none"
  BY IdleType DEF Done, Slot, Idle
<1> QED BY <1>1, <1>2 DEF Answer, Become, Quiet, TypeOK

\* The places a handler reaches without a lock on an event.
Calm == Serving \ {"remove:cascade", "create:insert"}

\* Going on to a calm place takes none.
LEMMA GotoQuiet ==
  ASSUME TypeOK, NEW r \in Request, req[r].pc \in Plain, NEW pc \in Calm,
         Goto(r, pc), pc \in OpenPc => req[r].pc \in OpenPc
  PROVE  Quiet(r)
<1>1. /\ req[r] \in Slot /\ req[r].pc \in Serving /\ req[r].write = "none"
  BY TypeRequests, PlainSlot
<1> QED BY <1>1 DEF Goto, Quiet, TypeOK, Calm, Slot

\* Nor does going on with a local changed.
LEMMA AdvanceQuiet ==
  ASSUME TypeOK, NEW r \in Request, req[r].pc \in Plain, NEW pc \in Calm,
         pc \in OpenPc => req[r].pc \in OpenPc,
         \/ \E c : Become(r, [req[r] EXCEPT !.pc = pc, !.cap = c])
         \/ \E n : Become(r, [req[r] EXCEPT !.pc = pc, !.count = n])
         \/ \E u : Become(r, [req[r] EXCEPT !.pc = pc, !.peer = u])
  PROVE  Quiet(r)
<1>1. /\ req[r] \in Slot /\ req[r].pc \in Serving /\ req[r].write = "none"
  BY TypeRequests, PlainSlot
<1>2. PICK s : /\ req' = [req EXCEPT ![r] = s]
               /\ s.pc = pc /\ s.write = "none"
               /\ s.event = req[r].event /\ s.user = req[r].user
  <2>1. CASE \E c : Become(r, [req[r] EXCEPT !.pc = pc, !.cap = c])
    <3>1. PICK c : Become(r, [req[r] EXCEPT !.pc = pc, !.cap = c])
      BY <2>1
    <3> WITNESS [req[r] EXCEPT !.pc = pc, !.cap = c]
    <3> QED BY <1>1, <3>1 DEF Become, Slot
  <2>2. CASE \E n : Become(r, [req[r] EXCEPT !.pc = pc, !.count = n])
    <3>1. PICK n : Become(r, [req[r] EXCEPT !.pc = pc, !.count = n])
      BY <2>2
    <3> WITNESS [req[r] EXCEPT !.pc = pc, !.count = n]
    <3> QED BY <1>1, <3>1 DEF Become, Slot
  <2>3. CASE \E u : Become(r, [req[r] EXCEPT !.pc = pc, !.peer = u])
    <3>1. PICK u : Become(r, [req[r] EXCEPT !.pc = pc, !.peer = u])
      BY <2>3
    <3> WITNESS [req[r] EXCEPT !.pc = pc, !.peer = u]
    <3> QED BY <1>1, <3>1 DEF Become, Slot
  <2> QED BY <2>1, <2>2, <2>3
<1> QED BY <1>1, <1>2 DEF Quiet, TypeOK, Calm

\* No step of join takes a lock that outlives it.
LEMMA JoinQuiet ==
  ASSUME TypeOK, NEW r \in Request, Join(r)
  PROVE  Quiet(r)
<1>a. JoinPc \subseteq Calm /\ JoinPc \cap OpenPc = {}
  BY DEF Calm, Serving, JoinPc, OpenPc
<1>b. req[r].pc \in JoinPc
  BY DEF Join, JoinEvent, JoinAccess, JoinCapacity, JoinInsert, JoinCount,
         JoinEmit, At, JoinPc
<1>c. req[r].pc \in Plain
  BY <1>b DEF Plain, Serving, JoinPc
<1>1. CASE JoinEvent(r)
  <2>1. CASE Answer(r, GetEventOrThrow(req[r].event)) \/ Answer(r, 403)
    BY <2>1, AnswerQuiet
  <2>2. CASE Become(r, [req[r] EXCEPT
               !.pc = IF events[req[r].event].visibility = "PRIVATE"
                      THEN "join:access" ELSE "join:capacity",
               !.cap = events[req[r].event].capacity])
    <3>1. {"join:access", "join:capacity"} \subseteq Calm \ OpenPc
      BY <1>a DEF JoinPc
    <3> QED BY <1>c, <2>2, <3>1, AdvanceQuiet
  <2> QED BY <1>1, <2>1, <2>2 DEF JoinEvent
<1>2. CASE JoinAccess(r) \/ JoinCapacity(r)
  <2>1. {"join:capacity", "join:insert"} \subseteq Calm \ OpenPc
    BY <1>a DEF JoinPc
  <2> QED BY <1>c, <1>2, <2>1, AnswerQuiet, GotoQuiet DEF JoinAccess, JoinCapacity
<1>3. CASE JoinInsert(r)
  <2>1. "join:count" \in Calm \ OpenPc
    BY <1>a DEF JoinPc
  <2>2. CASE Become(r, [req[r] EXCEPT !.pc = "join:count", !.cap = 0])
    BY <1>c, <2>1, <2>2, AdvanceQuiet
  <2> QED BY <1>3, <2>2, AnswerQuiet DEF JoinInsert
<1>4. CASE JoinCount(r)
  <2>1. "join:emit" \in Calm \ OpenPc
    BY <1>a DEF JoinPc
  <2> QED BY <1>c, <1>4, <2>1, AdvanceQuiet DEF JoinCount
<1>5. CASE JoinEmit(r)
  BY <1>5, AnswerQuiet DEF JoinEmit
<1> QED BY <1>1, <1>2, <1>3, <1>4, <1>5 DEF Join

\* Nor do the steps of leave but TxDelete, TxWrite and TxCascade.
LEMMA LeaveQuiet ==
  ASSUME TypeOK, NEW r \in Request,
         \/ LeaveEvent(r) \/ LeaveDelete(r) \/ LeaveCount(r) \/ LeaveEmit(r)
         \/ TxNext(r) \/ TxMessages(r) \/ TxCommit(r)
  PROVE  Quiet(r)
<1>a. {"leave:event", "leave:delete", "leave:count", "tx:next", "tx:messages"}
        \subseteq Plain
  BY DEF Plain, Serving, LeavePc, OpenPc
<1>b. {"leave:delete", "leave:count", "leave:emit", "tx:delete", "tx:transfer",
       "tx:messages", "tx:deactivate", "tx:drop"} \subseteq Calm
  BY DEF Calm, Serving, LeavePc, OpenPc
<1>c. /\ {"tx:next", "tx:messages"} \subseteq OpenPc
      /\ {"leave:delete", "leave:count", "leave:emit", "tx:delete"} \cap OpenPc = {}
  BY DEF OpenPc
<1>1. CASE LeaveEvent(r)
  <2>1. CASE \E status : Answer(r, status)
    BY <2>1, AnswerQuiet
  <2>2. CASE \E pc \in {"tx:delete", "leave:delete"} : Goto(r, pc)
    BY <1>a, <1>b, <1>c, <1>1, <2>2, GotoQuiet DEF LeaveEvent, At
  <2> QED BY <1>1, <2>1, <2>2 DEF LeaveEvent
<1>2. CASE LeaveDelete(r)
  BY <1>a, <1>b, <1>c, <1>2, AnswerQuiet, GotoQuiet DEF LeaveDelete, At
<1>3. CASE LeaveCount(r)
  BY <1>a, <1>b, <1>c, <1>3, AdvanceQuiet DEF LeaveCount, At
<1>4. CASE LeaveEmit(r)
  BY <1>4, AnswerQuiet DEF LeaveEmit
<1>5. CASE TxNext(r)
  BY <1>a, <1>b, <1>c, <1>5, GotoQuiet, AdvanceQuiet DEF TxNext, At
<1>6. CASE TxMessages(r)
  BY <1>a, <1>b, <1>c, <1>6, GotoQuiet DEF TxMessages, At
<1>7. CASE TxCommit(r)
  <2>1. CASE \E status : Answer(r, status)
    BY <2>1, AnswerQuiet
  <2>2. CASE Become(r, [req[r] EXCEPT !.pc = "leave:count", !.peer = Nobody,
                                      !.write = "none"])
    <3>1. req[r] \in Slot /\ req[r].pc \in Serving
      BY <1>7 DEF TypeOK, TxCommit, At, Serving, OpenPc
    <3> QED BY <1>c, <2>2, <3>1 DEF Become, Quiet, TypeOK, Slot
  <2> QED BY <1>7, <2>1, <2>2 DEF TxCommit
<1> QED BY <1>1, <1>2, <1>3, <1>4, <1>5, <1>6, <1>7

\* Nor those of create, update and remove but RemoveDelete.
LEMMA EventsQuiet ==
  ASSUME TypeOK, NEW r \in Request,
         \/ Create(r) \/ Update(r)
         \/ RemoveEvent(r) \/ RemoveCascade(r) \/ RemoveEmit(r)
  PROVE  Quiet(r)
<1>a. /\ EventPc \subseteq Plain
      /\ EventPc \ {"create:insert", "remove:cascade"} \subseteq Calm \ OpenPc
  BY EventPcs DEF Calm, Serving, EventPc, OpenPc
<1>1. CASE Create(r)
  BY <1>a, <1>1, AnswerQuiet, GotoQuiet
     DEF Create, CreateInsert, CreateEmit, At, EventPc
<1>2. CASE UpdateEvent(r)
  <2>1. CASE \E status : Answer(r, status)
    BY <2>1, AnswerQuiet
  <2>2. CASE \E pc \in {"update:scalars", "update:location", "update:reread"} :
               Goto(r, pc)
    BY <1>a, <1>2, <2>2, GotoQuiet DEF UpdateEvent, At, EventPc
  <2> QED BY <1>2, <2>1, <2>2 DEF UpdateEvent
<1>3. CASE UpdateScalars(r)
  BY <1>a, <1>3, GotoQuiet DEF UpdateScalars, At, EventPc
<1>4. CASE UpdateLocation(r)
  BY <1>a, <1>4, GotoQuiet DEF UpdateLocation, At, EventPc
<1>5. CASE UpdateReread(r)
  BY <1>a, <1>5, AnswerQuiet, AdvanceQuiet DEF UpdateReread, At, EventPc
<1>6. CASE UpdateEmit(r) \/ RemoveEmit(r)
  BY <1>6, AnswerQuiet DEF UpdateEmit, RemoveEmit
<1>7. CASE RemoveEvent(r)
  BY <1>a, <1>7, AnswerQuiet, GotoQuiet DEF RemoveEvent, At, EventPc
<1>8. CASE RemoveCascade(r)
  BY <1>a, <1>8, GotoQuiet DEF RemoveCascade, At, EventPc
<1> QED BY <1>1, <1>2, <1>3, <1>4, <1>5, <1>6, <1>7, <1>8 DEF Update

\* Nor those of the other handlers, nor a failure.
LEMMA OthersQuiet ==
  ASSUME TypeOK, NEW r \in Request,
         \/ Invite(r) \/ AnswerInvitation(r) \/ Message(r) \/ Release(r)
         \/ StatementFails(r) \/ DeadlockAbort(r)
  PROVE  Quiet(r)
<1>a. /\ {"invite:event", "answer:read"} \cup MessagePc \subseteq Plain
      /\ {"invite:insert", "answer:write"} \cup MessagePc \subseteq Calm \ OpenPc
  BY DEF Plain, Calm, Serving, InvitePc, MessagePc, OpenPc
<1>1. CASE InviteEvent(r)
  BY <1>a, <1>1, AnswerQuiet, AdvanceQuiet DEF InviteEvent, At
<1>2. CASE AnswerRead(r)
  BY <1>a, <1>2, AnswerQuiet, GotoQuiet DEF AnswerRead, At
<1>3. CASE MessageEvent(r) \/ MessageParticipant(r)
  BY <1>a, <1>3, AnswerQuiet, GotoQuiet
     DEF MessageEvent, MessageParticipant, At, MessagePc
<1>4. CASE MessageCreator(r)
  BY <1>a, <1>4, GotoQuiet DEF MessageCreator, At, MessagePc
<1>5. CASE \E status : Answer(r, status)
  BY <1>5, AnswerQuiet
<1>6. CASE Release(r)
  <2>1. "idle" \notin Serving \cup OpenPc
    BY DEF Serving, JoinPc, LeavePc, OpenPc, EventPc, InvitePc, MessagePc
  <2> QED BY <1>6, <2>1 DEF Release, Become, Idle, Quiet, TypeOK
<1> QED BY <1>1, <1>2, <1>3, <1>4, <1>5, <1>6
        DEF Invite, InviteInsert, AnswerInvitation, AnswerWrite, Message,
            MessageInsert, StatementFails, DeadlockAbort

-----------------------------------------------------------------------------
(* The invariant of the locks is inductive. *)

LockInv == /\ TypeOK /\ OpenTransactionHoldsRow /\ LocksExclusive
           /\ NoOrphans /\ DrawnOnce

\* An open transaction is served.
LEMMA OpenIsServing == OpenPc \subseteq Serving
BY DEF Serving

\* A step excludes no lock if every lock it takes was free.
LEMMA LocksStep ==
  ASSUME LocksExclusive, NEW r \in Request,
         \A q \in Request \ {r} : req'[q] = req[q],
         \A e \in Event : HoldsEvent(r, e)' => HoldsEvent(r, e) \/ ~EventHeld(e),
         \A e \in Event, u \in User :
           HoldsRow(r, u, e)' => HoldsRow(r, u, e) \/ ~RowHeld(u, e)
  PROVE  LocksExclusive'
<1>1. ASSUME NEW p \in Request, NEW q \in Request, p # q, NEW e \in Event
      PROVE  ~(HoldsEvent(p, e)' /\ HoldsEvent(q, e)')
  <2>1. \A s \in Request \ {r} : HoldsEvent(s, e)' => HoldsEvent(s, e)
    BY DEF HoldsEvent, At
  <2> QED BY <1>1, <2>1 DEF LocksExclusive, EventHeld
<1>2. ASSUME NEW p \in Request, NEW q \in Request, p # q,
             NEW e \in Event, NEW u \in User
      PROVE  ~(HoldsRow(p, u, e)' /\ HoldsRow(q, u, e)')
  <2>1. \A s \in Request \ {r} : HoldsRow(s, u, e)' => HoldsRow(s, u, e)
    BY DEF HoldsRow, InTransaction, HasCascaded, At
  <2> QED BY <1>2, <2>1 DEF LocksExclusive, RowHeld
<1> QED BY <1>1, <1>2 DEF LocksExclusive

\* A quiet step takes no lock, so it excludes none.
LEMMA QuietLocks ==
  ASSUME LocksExclusive, NEW r \in Request, Quiet(r)
  PROVE  LocksExclusive'
<1>1. \A e : ~HoldsEvent(r, e)'
  BY DEF HoldsEvent, Quiet, At
<1>2. \A e, u : HoldsRow(r, u, e)' => HoldsRow(r, u, e)
  BY OpenIsServing DEF HoldsRow, InTransaction, HasCascaded, At, Quiet
<1> QED BY <1>1, <1>2, LocksStep DEF Quiet

\* A quiet step moves no request to another event.
LEMMA QuietDrawn ==
  ASSUME DrawnOnce, NEW r \in Request, Quiet(r), UNCHANGED spent
  PROVE  DrawnOnce'
<1>1. \A q \in Request : req'[q].pc \in Serving =>
        req[q].pc \in Serving /\ req'[q].event = req[q].event
  BY DEF Quiet
<1>2. \A q \in Request : At(q, "create:insert")' => At(q, "create:insert") /\ req'[q] = req[q]
  BY DEF Quiet, At
<1> QED BY <1>1, <1>2 DEF DrawnOnce

\* It is enough to look at the transactions that were open before the step.
LEMMA QuietOpen ==
  ASSUME OpenTransactionHoldsRow, NEW r \in Request, Quiet(r),
         \A q \in Request :
           /\ InTransaction(q)
           /\ q = r => req'[r].pc \in OpenPc
           /\ Exists(req[q].event)
           /\ HasRow(req[q].event, req[q].user)
           => /\ req[q].event \in DOMAIN events'
              /\ Contains(participations'[req[q].event], req[q].user)
  PROVE  OpenTransactionHoldsRow'
<1> SUFFICES ASSUME NEW q \in Request, InTransaction(q)'
             PROVE  /\ req'[q].event \in DOMAIN events'
                    /\ Contains(participations'[req'[q].event], req'[q].user)
  BY DEF OpenTransactionHoldsRow, InTransaction, Exists, HasRow
<1>1. /\ InTransaction(q)
      /\ req'[q].event = req[q].event /\ req'[q].user = req[q].user
  BY OpenIsServing DEF Quiet, InTransaction
<1>2. q = r => req'[r].pc \in OpenPc
  BY DEF InTransaction
<1>3. Exists(req[q].event) /\ HasRow(req[q].event, req[q].user)
  BY <1>1 DEF OpenTransactionHoldsRow
<1> QED BY <1>1, <1>2, <1>3

\* A quiet step that leaves the tables alone keeps what is true of them.
LEMMA TablesKept ==
  ASSUME LockInv, NEW r \in Request, Quiet(r), UNCHANGED tables
  PROVE  OpenTransactionHoldsRow' /\ NoOrphans'
<1>1. OpenTransactionHoldsRow'
  BY QuietOpen DEF LockInv, tables, Exists, HasRow
<1> QED BY <1>1 DEF LockInv, NoOrphans, tables

\* A quiet step keeps the invariant if it keeps what is true of the tables.
LEMMA QuietStep ==
  ASSUME LockInv, TypeOK', NEW r \in Request, Quiet(r), UNCHANGED spent,
         OpenTransactionHoldsRow', NoOrphans'
  PROVE  LockInv'
BY QuietLocks, QuietDrawn DEF LockInv

\* A quiet step that leaves the tables alone keeps the invariant.
LEMMA ReadingStep ==
  ASSUME LockInv, TypeOK', NEW r \in Request, Quiet(r), UNCHANGED <<tables, spent>>
  PROVE  LockInv'
BY QuietStep, TablesKept

\* What a request at a place that is served names.
LEMMA ServedTypes ==
  ASSUME TypeOK, NEW r \in Request, req[r].pc \in Serving
  PROVE  req[r].event \in Event /\ req[r].user \in User
BY DEF TypeOK, WellFormed

\* An open transaction's event and user are of the table's types.
LEMMA OpenTypes ==
  ASSUME TypeOK, NEW q \in Request, InTransaction(q)
  PROVE  /\ req[q].event \in Event /\ req[q].user \in User
         /\ participations[req[q].event] \in Seq(User)
         /\ IsInjective(participations[req[q].event])
<1>1. req[q].pc \in Serving
  BY OpenIsServing DEF InTransaction
<1> QED BY <1>1, ServedTypes DEF TypeOK

\* join: the foreign key checks that the event exists.
LEMMA JoinLocks ==
  ASSUME LockInv, NEW r \in Request, Join(r)
  PROVE  LockInv'
<1>1. TypeOK /\ TypeOK' /\ Quiet(r)
  BY JoinType, JoinQuiet DEF LockInv
<1> DEFINE e == req[r].event
           u == req[r].user
<1>2. CASE UNCHANGED <<tables, spent>>
  BY <1>1, <1>2, ReadingStep
<1>3. CASE JoinInsert(r) /\ participations' # participations
  <2>1. /\ e \in Event /\ u \in User
        /\ participations[e] \in Seq(User) /\ IsInjective(participations[e])
    <3>1. req[r].pc \in Serving
      BY <1>3 DEF JoinInsert, At, Serving, JoinPc
    <3> QED BY <1>1, <3>1, ServedTypes DEF TypeOK
  <2>2. /\ ~HasRow(e, u) /\ Exists(e)
        /\ participations' = [participations EXCEPT ![e] = Append(@, u)]
        /\ UNCHANGED <<events, invitations, senders, spent>>
    BY <1>3 DEF JoinInsert
  <2>3. \A x \in Event : x # e => participations'[x] = participations[x]
    BY <1>1, <2>2 DEF TypeOK
  <2>4. participations'[e] = Append(participations[e], u)
    BY <1>1, <2>1, <2>2 DEF TypeOK
  <2>5. \A v : Contains(participations[e], v) => Contains(participations'[e], v)
    BY <2>1, <2>2, <2>4, AppendRowType DEF HasRow
  <2>6. OpenTransactionHoldsRow'
    <3>1. \A q \in Request : InTransaction(q) => req[q].event \in Event
      BY <1>1, OpenTypes
    <3> QED BY <1>1, <2>2, <2>3, <2>5, <3>1, QuietOpen DEF LockInv, Exists, HasRow
  <2>7. NoOrphans'
    BY <2>2, <2>3 DEF LockInv, NoOrphans, Exists
  <2> QED BY <1>1, <2>2, <2>6, <2>7, QuietStep
<1> QED BY <1>2, <1>3 DEF Join, JoinEvent, JoinAccess, JoinCapacity, JoinInsert,
           JoinCount, JoinEmit, tables

\* DELETE finds nothing among no rows.
LEMMA WithoutRowEmpty == \A u : WithoutRow(<<>>, u) = <<>>
BY DEF WithoutRow, Contains

\* The row of another transaction outlives the DELETE of one's own.
LEMMA RowsTaken ==
  ASSUME LockInv, TypeOK', NEW r \in Request, Quiet(r), UNCHANGED spent,
         req[r].event \in Event,
         req'[r].pc \notin OpenPc,
         participations' = [participations EXCEPT
           ![req[r].event] = WithoutRow(@, req[r].user)],
         \A q \in Request \ {r} :
           InTransaction(q) /\ req[q].event = req[r].event
             => req[q].user # req[r].user,
         DOMAIN events' = DOMAIN events,
         UNCHANGED <<invitations, senders>>
  PROVE  LockInv'
<1> DEFINE e == req[r].event
           u == req[r].user
<1>1. /\ participations \in [Event -> Seq(User)]
      /\ \A x \in Event : x # e => participations'[x] = participations[x]
      /\ participations'[e] = WithoutRow(participations[e], u)
  BY DEF LockInv, TypeOK
<1>2. ASSUME NEW q \in Request, InTransaction(q), q = r => req'[r].pc \in OpenPc,
             Exists(req[q].event), HasRow(req[q].event, req[q].user)
      PROVE  /\ req[q].event \in DOMAIN events'
             /\ Contains(participations'[req[q].event], req[q].user)
  <2>1. /\ req[q].event \in Event /\ q # r
        /\ participations[req[q].event] \in Seq(User)
        /\ IsInjective(participations[req[q].event])
    BY <1>2, OpenTypes DEF LockInv
  <2>2. CASE req[q].event = e
    <3>1. Contains(WithoutRow(participations[e], u), req[q].user)
      BY <1>2, <2>1, <2>2, WithoutRowType DEF HasRow
    <3> QED BY <1>1, <1>2, <2>2, <3>1 DEF Exists
  <2>3. CASE req[q].event # e
    BY <1>1, <1>2, <2>1, <2>3 DEF Exists, HasRow
  <2> QED BY <2>2, <2>3
<1>3. OpenTransactionHoldsRow'
  BY <1>2, QuietOpen DEF LockInv
<1>4. NoOrphans'
  BY <1>1, WithoutRowEmpty DEF LockInv, NoOrphans
<1> QED BY <1>3, <1>4, QuietStep

\* DeleteEvent takes the rows of no open transaction but its own.
LEMMA EventTaken ==
  ASSUME LockInv, TypeOK', NEW r \in Request, Quiet(r), UNCHANGED spent,
         DeleteEvent(req[r].event), req[r].event \in Event,
         req'[r].pc \notin OpenPc,
         \A q \in Request \ {r} : InTransaction(q) => req[q].event # req[r].event
  PROVE  LockInv'
<1> DEFINE e == req[r].event
<1>1. /\ DOMAIN events' = DOMAIN events \ {e}
      /\ participations' = [participations EXCEPT ![e] = <<>>]
      /\ invitations' = [invitations EXCEPT ![e] = [u \in User |-> "NONE"]]
      /\ senders' = [senders EXCEPT ![e] = {}]
  BY DEF DeleteEvent
<1>2. \A x \in Event :
        /\ participations'[x] = IF x = e THEN <<>> ELSE participations[x]
        /\ invitations'[x] = IF x = e THEN [u \in User |-> "NONE"] ELSE invitations[x]
        /\ senders'[x] = IF x = e THEN {} ELSE senders[x]
  BY <1>1 DEF LockInv, TypeOK
<1>3. OpenTransactionHoldsRow'
  <2>1. \A q \in Request : InTransaction(q) => req[q].event \in Event
    BY OpenTypes DEF LockInv
  <2> QED BY <1>1, <1>2, <2>1, QuietOpen DEF LockInv, Exists, HasRow
<1>4. NoOrphans'
  BY <1>1, <1>2 DEF LockInv, NoOrphans
<1> QED BY <1>3, <1>4, QuietStep

\* A step that takes locks, if they are free, keeps the invariant.
LEMMA TakingStep ==
  ASSUME LockInv, TypeOK', NEW r \in Request, UNCHANGED <<tables, spent>>,
         \A q \in Request \ {r} : req'[q] = req[q],
         req[r].pc \in Serving, req'[r].pc # "create:insert",
         req'[r].event = req[r].event, req'[r].user = req[r].user,
         req'[r].pc \in OpenPc => /\ Exists(req[r].event)
                                  /\ HasRow(req[r].event, req[r].user),
         \A e \in Event : HoldsEvent(r, e)' => HoldsEvent(r, e) \/ ~EventHeld(e),
         \A e \in Event, u \in User :
           HoldsRow(r, u, e)' => HoldsRow(r, u, e) \/ ~RowHeld(u, e)
  PROVE  LockInv'
<1>1. LocksExclusive'
  BY LocksStep DEF LockInv
<1>2. DrawnOnce'
  <2>1. \A q \in Request :
          /\ req'[q].pc \in Serving => req[q].pc \in Serving
          /\ req'[q].event = req[q].event
          /\ At(q, "create:insert")' => At(q, "create:insert")
    BY DEF At
  <2> QED BY <2>1 DEF LockInv, DrawnOnce
<1>3. OpenTransactionHoldsRow'
  <2> SUFFICES ASSUME NEW q \in Request, InTransaction(q)'
               PROVE  /\ req'[q].event \in DOMAIN events'
                      /\ Contains(participations'[req'[q].event], req'[q].user)
    BY DEF OpenTransactionHoldsRow, InTransaction, Exists, HasRow
  <2>1. CASE q = r
    BY <2>1 DEF InTransaction, Exists, HasRow, tables
  <2>2. CASE q # r
    BY <2>2 DEF LockInv, OpenTransactionHoldsRow, InTransaction, Exists, HasRow,
                tables
  <2> QED BY <2>1, <2>2
<1> QED BY <1>1, <1>2, <1>3 DEF LockInv, NoOrphans, tables

\* handleCreatorLeave: its DELETE pins a row, which the event has.
LEMMA TxDeleteLocks ==
  ASSUME LockInv, NEW r \in Request, TxDelete(r)
  PROVE  LockInv'
<1> DEFINE e == req[r].event
           u == req[r].user
<1>1. /\ TypeOK /\ TypeOK'
      /\ req[r].pc = "tx:delete" /\ ~RowHeld(u, e)
      /\ UNCHANGED <<tables, spent>>
  BY LeaveType DEF LockInv, Leave, TxDelete, At
<1>2. CASE Answer(r, 404)
  BY <1>1, <1>2, AnswerQuiet, ReadingStep
<1>3. CASE HasRow(e, u) /\ Goto(r, "tx:next")
  <2>1. /\ req[r] \in Slot /\ req[r].pc \in Serving /\ req[r].write = "none"
        /\ e \in Event /\ u \in User
    BY <1>1, ServedTypes DEF TypeOK, WellFormed, Serving
  <2>2. /\ \A q \in Request \ {r} : req'[q] = req[q]
        /\ req'[r].pc = "tx:next" /\ req'[r].event = e /\ req'[r].user = u
        /\ req'[r].write = "none"
    BY <1>1, <1>3, <2>1 DEF Goto, TypeOK, Slot
  <2>3. Exists(e)
    BY <1>3, <2>1 DEF LockInv, NoOrphans, Exists, HasRow, Contains
  <2>4. \A x : ~HoldsEvent(r, x)'
    BY <2>2 DEF HoldsEvent, At
  <2>5. \A v, x : HoldsRow(r, v, x)' => v = u /\ x = e
    BY <2>2 DEF HoldsRow, HasCascaded, At
  <2> QED BY <1>1, <1>3, <2>1, <2>2, <2>3, <2>4, <2>5, TakingStep
<1> QED BY <1>2, <1>3 DEF TxDelete

\* handleCreatorLeave: its UPDATE or DELETE takes the free row of the event.
LEMMA TxWriteLocks ==
  ASSUME LockInv, NEW r \in Request, TxWrite(r)
  PROVE  LockInv'
<1> DEFINE e == req[r].event
           u == req[r].user
<1>1. /\ TypeOK /\ TypeOK'
      /\ req[r].pc \in {"tx:transfer", "tx:deactivate", "tx:drop"}
      /\ ~EventHeld(e) /\ UNCHANGED <<tables, spent>>
  BY LeaveType DEF LockInv, Leave, TxWrite, At
<1>2. /\ req[r] \in Slot /\ req[r].pc \in Serving /\ req[r].pc \in OpenPc
      /\ e \in Event /\ u \in User
  BY <1>1, ServedTypes DEF TypeOK, Serving, OpenPc
<1>3. /\ \A q \in Request \ {r} : req'[q] = req[q]
      /\ req'[r].event = e /\ req'[r].user = u
      /\ \/ req'[r].pc = "tx:commit" /\ req'[r].write \in {"transfer", "deactivate"}
         \/ req'[r].pc = "tx:cascade"
  <2>1. CASE Become(r, [req[r] EXCEPT !.pc = "tx:commit", !.write = "transfer"])
    BY <1>1, <1>2, <2>1 DEF Become, TypeOK, Slot
  <2>2. CASE Become(r, [req[r] EXCEPT !.pc = "tx:commit", !.write = "deactivate"])
    BY <1>1, <1>2, <2>2 DEF Become, TypeOK, Slot
  <2>3. CASE Become(r, [req[r] EXCEPT !.pc = "tx:cascade", !.write = "drop"])
    BY <1>1, <1>2, <2>3 DEF Become, TypeOK, Slot
  <2> QED BY <2>1, <2>2, <2>3 DEF TxWrite
<1>4. Exists(e) /\ HasRow(e, u)
  BY <1>2 DEF LockInv, OpenTransactionHoldsRow, InTransaction
<1>5. \A x : HoldsEvent(r, x)' => x = e
  BY <1>3 DEF HoldsEvent
<1>6. \A v, x : HoldsRow(r, v, x)' => HoldsRow(r, v, x)
  BY <1>2, <1>3 DEF HoldsRow, HasCascaded, InTransaction, At
<1> QED BY <1>1, <1>2, <1>3, <1>4, <1>5, <1>6, TakingStep

\* handleCreatorLeave: the cascade takes every row when no other is pinned.
LEMMA TxCascadeLocks ==
  ASSUME LockInv, NEW r \in Request, TxCascade(r)
  PROVE  LockInv'
<1> DEFINE e == req[r].event
           u == req[r].user
<1>1. /\ TypeOK /\ TypeOK'
      /\ req[r].pc = "tx:cascade" /\ ~CascadeBlocked(r)
      /\ UNCHANGED <<tables, spent>>
  BY LeaveType DEF LockInv, Leave, TxCascade, At
<1>2. /\ req[r] \in Slot /\ req[r].pc \in Serving /\ req[r].pc \in OpenPc
      /\ e \in Event /\ u \in User /\ req[r].write = "drop"
  BY <1>1, ServedTypes DEF TypeOK, WellFormed, Serving, OpenPc
<1>3. /\ \A q \in Request \ {r} : req'[q] = req[q]
      /\ req'[r].event = e /\ req'[r].user = u /\ req'[r].pc = "tx:commit"
      /\ req'[r].write = "drop"
  BY <1>1, <1>2 DEF TxCascade, Goto, TypeOK, Slot
<1>4. Exists(e) /\ HasRow(e, u)
  BY <1>2 DEF LockInv, OpenTransactionHoldsRow, InTransaction
<1>5. \A x : HoldsEvent(r, x)' => HoldsEvent(r, x)
  BY <1>2, <1>3 DEF HoldsEvent, At
<1>6. \A v, x : HoldsRow(r, v, x)' => HoldsRow(r, v, x) \/ ~RowHeld(v, x)
  BY <1>1, <1>3 DEF HoldsRow, RowHeld, CascadeBlocked
<1> QED BY <1>1, <1>2, <1>3, <1>4, <1>5, <1>6, TakingStep

\* leave, with the commit of handleCreatorLeave.
LEMMA LeaveLocks ==
  ASSUME LockInv, NEW r \in Request, Leave(r)
  PROVE  LockInv'
<1>1. TypeOK /\ TypeOK'
  BY LeaveType DEF LockInv
<1> DEFINE e == req[r].event
           u == req[r].user
<1>2. CASE \/ LeaveEvent(r) \/ LeaveCount(r) \/ LeaveEmit(r)
           \/ TxNext(r) \/ TxMessages(r)
  BY <1>1, <1>2, LeaveQuiet, ReadingStep
     DEF LeaveEvent, LeaveCount, LeaveEmit, TxNext, TxMessages
<1>3. CASE LeaveDelete(r)
  <2>1. Quiet(r) /\ UNCHANGED spent /\ ~RowHeld(u, e)
    BY <1>1, <1>3, LeaveQuiet DEF LeaveDelete
  <2>2. CASE UNCHANGED participations
    BY <1>1, <1>3, <2>1, <2>2, ReadingStep DEF LeaveDelete, tables
  <2>3. CASE participations' # participations
    <3>1. req[r].pc = "leave:delete" /\ req[r].pc \in Serving
      BY <1>3 DEF LeaveDelete, At, Serving, LeavePc
    <3>2. req'[r].pc \notin OpenPc
      BY <2>1, <3>1 DEF Quiet, OpenPc
    <3>3. \A q \in Request \ {r} :
            InTransaction(q) /\ req[q].event = e => req[q].user # u
      BY <2>1 DEF RowHeld, HoldsRow
    <3> QED BY <1>1, <1>3, <2>1, <2>3, <3>1, <3>2, <3>3, ServedTypes, RowsTaken
            DEF LeaveDelete
  <2> QED BY <2>2, <2>3
<1>4. CASE TxCommit(r)
  <2>1. Quiet(r) /\ UNCHANGED spent
    BY <1>1, <1>4, LeaveQuiet DEF TxCommit
  <2>2. /\ req[r].pc = "tx:commit" /\ InTransaction(r)
        /\ e \in Event /\ u \in User /\ req[r] \in Slot
    BY <1>1, <1>4, OpenTypes DEF TxCommit, At, InTransaction, OpenPc, TypeOK
  <2>3. req'[r].pc \notin OpenPc
    <3>1. CASE Answer(r, OK)
      <4>1. Done(OK).pc = "done"
        BY IdleType DEF Done, Slot, Idle
      <4> QED BY <1>1, <3>1, <4>1 DEF Answer, Become, TypeOK, OpenPc
    <3>2. CASE Become(r, [req[r] EXCEPT !.pc = "leave:count", !.peer = Nobody,
                                        !.write = "none"])
      BY <1>1, <2>2, <3>2 DEF Become, TypeOK, OpenPc, Slot
    <3> QED BY <1>4, <3>1, <3>2 DEF TxCommit
  <2>4. ASSUME NEW q \in Request \ {r}, InTransaction(q), req[q].event = e
        PROVE  req[q].user # u /\ ~HasCascaded(r)
    <3>1. req[q].user \in User
      BY <1>1, <2>4, OpenTypes
    <3> QED BY <2>2, <2>4, <3>1 DEF LockInv, LocksExclusive, HoldsRow
  <2>5. CASE req[r].write \in {"transfer", "deactivate"}
    <3>1. /\ DOMAIN events' = DOMAIN events
          /\ participations' = [participations EXCEPT ![e] = WithoutRow(@, u)]
          /\ UNCHANGED <<invitations, senders>>
      BY <1>4, <2>5 DEF TxCommit
    <3> QED BY <1>1, <2>1, <2>2, <2>3, <2>4, <3>1, RowsTaken
  <2>6. CASE req[r].write = "drop"
    <3>1. DeleteEvent(e) /\ HasCascaded(r)
      BY <1>4, <2>6 DEF TxCommit, HasCascaded
    <3> QED BY <1>1, <2>1, <2>2, <2>3, <2>4, <3>1, EventTaken
  <2> QED BY <1>4, <2>5, <2>6 DEF TxCommit
<1> QED BY <1>2, <1>3, <1>4, TxDeleteLocks, TxWriteLocks, TxCascadeLocks DEF Leave

\* create: the UUID is new, so no transaction is open on the event.
LEMMA CreateLocks ==
  ASSUME LockInv, NEW r \in Request, Create(r)
  PROVE  LockInv'
<1>1. TypeOK /\ TypeOK' /\ Quiet(r)
  BY CreateType, EventsQuiet DEF LockInv
<1> DEFINE e == req[r].event
<1>2. CASE CreateEmit(r)
  BY <1>1, <1>2, ReadingStep DEF CreateEmit
<1>3. CASE CreateInsert(r)
  <2>1. /\ req[r].pc = "create:insert" /\ e \in Event
        /\ UNCHANGED <<invitations, senders, spent>>
        /\ DOMAIN events' = DOMAIN events \cup {e}
        /\ \A x \in Event : x # e => participations'[x] = participations[x]
    BY <1>1, <1>3, ServedTypes
       DEF CreateInsert, At, TypeOK, Serving, EventPc
  <2>2. ASSUME NEW q \in Request, InTransaction(q)
        PROVE  req[q].event \in Event /\ req[q].event # e
    <3>1. q # r /\ req[q].pc \in Serving
      BY <2>1, <2>2, OpenIsServing DEF InTransaction, OpenPc
    <3> QED BY <1>1, <2>1, <2>2, <3>1, OpenTypes DEF LockInv, DrawnOnce, At
  <2>3. OpenTransactionHoldsRow'
    BY <1>1, <2>1, <2>2, QuietOpen DEF LockInv, Exists, HasRow
  <2>4. NoOrphans'
    BY <2>1 DEF LockInv, NoOrphans
  <2> QED BY <1>1, <2>1, <2>3, <2>4, QuietStep
<1> QED BY <1>2, <1>3 DEF Create

\* update: an UPDATE removes no row.
LEMMA UpdateLocks ==
  ASSUME LockInv, NEW r \in Request, Update(r)
  PROVE  LockInv'
<1>1. TypeOK /\ TypeOK' /\ Quiet(r)
  BY UpdateHandlerType, EventsQuiet DEF LockInv
<1>2. CASE UpdateScalars(r)
  <2>1. /\ DOMAIN events' = DOMAIN events
        /\ UNCHANGED <<participations, invitations, senders, spent>>
    BY <1>2 DEF UpdateScalars
  <2>2. OpenTransactionHoldsRow'
    BY <1>1, <2>1, QuietOpen DEF LockInv, Exists, HasRow
  <2>3. NoOrphans'
    BY <2>1 DEF LockInv, NoOrphans
  <2> QED BY <1>1, <2>1, <2>2, <2>3, QuietStep
<1>3. CASE \/ UpdateEvent(r) \/ UpdateLocation(r) \/ UpdateReread(r)
           \/ UpdateEmit(r)
  BY <1>1, <1>3, ReadingStep
     DEF UpdateEvent, UpdateLocation, UpdateReread, UpdateEmit
<1> QED BY <1>2, <1>3 DEF Update

\* remove: the cascade waits for every open transaction on the event.
LEMMA RemovalLocks ==
  ASSUME LockInv, NEW r \in Request, Removal(r)
  PROVE  LockInv'
<1>1. TypeOK /\ TypeOK'
  BY RemovalType DEF LockInv
<1> DEFINE e == req[r].event
           u == req[r].user
<1>2. CASE RemoveEvent(r) \/ RemoveEmit(r)
  BY <1>1, <1>2, EventsQuiet, ReadingStep DEF RemoveEvent, RemoveEmit
<1>3. CASE RemoveDelete(r)
  <2>1. /\ req[r] \in Slot /\ req[r].pc = "remove:delete" /\ req[r].pc \in Serving
        /\ req[r].write = "none" /\ UNCHANGED <<tables, spent>> /\ ~EventHeld(e)
    BY <1>1, <1>3 DEF RemoveDelete, At, TypeOK, WellFormed, Serving, EventPc
  <2>2. /\ \A q \in Request \ {r} : req'[q] = req[q]
        /\ req'[r].event = e /\ req'[r].user = u /\ req'[r].write = "none"
        /\ req'[r].pc \in {"remove:cascade", "remove:emit"}
    BY <1>1, <1>3, <2>1 DEF RemoveDelete, Goto, TypeOK, Slot
  <2>3. req'[r].pc \notin OpenPc
    BY <2>2 DEF OpenPc
  <2>4. \A x : HoldsEvent(r, x)' => x = e
    BY <2>2 DEF HoldsEvent
  <2>5. \A v, x : ~HoldsRow(r, v, x)'
    BY <2>3 DEF HoldsRow, InTransaction
  <2> QED BY <1>1, <2>1, <2>2, <2>3, <2>4, <2>5, TakingStep
<1>4. CASE RemoveCascade(r)
  <2>1. /\ Quiet(r) /\ UNCHANGED spent /\ DeleteEvent(e)
        /\ req[r].pc = "remove:cascade" /\ req[r].pc \in Serving
    BY <1>1, <1>4, EventsQuiet DEF RemoveCascade, At, Serving, EventPc
  <2>2. e \in Event /\ req'[r].pc \notin OpenPc
    BY <1>1, <2>1, ServedTypes DEF Quiet, OpenPc
  <2>3. \A q \in Request \ {r} : InTransaction(q) => req[q].event # e
    BY <1>4 DEF RemoveCascade, CascadeBlocked
  <2> QED BY <1>1, <2>1, <2>2, <2>3, EventTaken
<1> QED BY <1>2, <1>3, <1>4 DEF Removal

\* invite and updateStatus: an UPDATE changes a row that is there.
LEMMA InvitationLocks ==
  ASSUME LockInv, NEW r \in Request, Invite(r) \/ AnswerInvitation(r)
  PROVE  LockInv'
<1>1. TypeOK /\ TypeOK' /\ Quiet(r)
  BY InvitationsType, OthersQuiet DEF LockInv
<1> DEFINE e == req[r].event
<1>2. CASE UNCHANGED <<tables, spent>>
  BY <1>1, <1>2, ReadingStep
<1>3. CASE /\ invitations' # invitations
           /\ InviteInsert(r) \/ AnswerWrite(r)
  <2>1. UNCHANGED <<events, participations, senders, spent>>
    BY <1>3 DEF InviteInsert, AnswerWrite
  <2>2. OpenTransactionHoldsRow'
    BY <1>1, <2>1, QuietOpen DEF LockInv, Exists, HasRow
  <2>3. \A x \in Event : x # e => invitations'[x] = invitations[x]
    BY <1>1, <1>3 DEF InviteInsert, AnswerWrite, TypeOK
  <2>4. e \in Event => e \in DOMAIN events
    <3>1. CASE InviteInsert(r)
      BY <1>3, <3>1 DEF InviteInsert, Exists
    <3>2. CASE AnswerWrite(r)
      <4>1. req[r].user \in User /\ invitations[e][req[r].user] # "NONE"
        BY <1>1, <1>3, <3>2, ServedTypes
           DEF AnswerWrite, At, Serving, InvitePc
      <4> QED BY <4>1 DEF LockInv, NoOrphans
    <3> QED BY <1>3, <3>1, <3>2
  <2>5. NoOrphans'
    BY <2>1, <2>3, <2>4 DEF LockInv, NoOrphans
  <2> QED BY <1>1, <2>1, <2>2, <2>5, QuietStep
<1> QED BY <1>2, <1>3
        DEF Invite, InviteEvent, InviteInsert, AnswerInvitation, AnswerRead,
            AnswerWrite, tables

\* saveMessage: the foreign key checks that the event exists.
LEMMA MessageLocks ==
  ASSUME LockInv, NEW r \in Request, Message(r)
  PROVE  LockInv'
<1>1. TypeOK /\ TypeOK' /\ Quiet(r)
  BY MessageType, OthersQuiet DEF LockInv
<1> DEFINE e == req[r].event
<1>2. CASE UNCHANGED <<tables, spent>>
  BY <1>1, <1>2, ReadingStep
<1>3. CASE senders' # senders /\ MessageInsert(r)
  <2>1. /\ UNCHANGED <<events, participations, invitations, spent>>
        /\ e \in DOMAIN events
        /\ \A x \in Event : x # e => senders'[x] = senders[x]
    BY <1>1, <1>3 DEF MessageInsert, Exists, TypeOK
  <2>2. OpenTransactionHoldsRow'
    BY <1>1, <2>1, QuietOpen DEF LockInv, Exists, HasRow
  <2>3. NoOrphans'
    BY <2>1 DEF LockInv, NoOrphans
  <2> QED BY <1>1, <2>1, <2>2, <2>3, QuietStep
<1> QED BY <1>2, <1>3
        DEF Message, MessageEvent, MessageCreator, MessageParticipant,
            MessageInsert, tables

\* A request that begins holds no lock, and names an event that nobody else is
\* inserting.
LEMMA BeginLocks ==
  ASSUME LockInv, NEW r \in Request, Begin(r) \/ BeginCreate(r)
  PROVE  LockInv'
<1>1. /\ TypeOK /\ TypeOK' /\ req[r].pc = "idle"
      /\ UNCHANGED tables /\ req \in [Request -> Slot]
  BY LifeType DEF LockInv, Begin, BeginCreate, At, TypeOK
<1>2. PICK pc, u, e :
        /\ req' = [req EXCEPT ![r] =
                     [Idle EXCEPT !.pc = pc, !.user = u, !.event = e]]
        /\ spent \subseteq spent' /\ e \in spent'
        /\ \/ /\ pc \in Serving \ (OpenPc \cup {"remove:cascade", "create:insert"})
              /\ e \in Known /\ UNCHANGED spent
           \/ pc = "create:insert" /\ e \notin spent
  <2>1. CASE Begin(r)
    <3>1. PICK op \in Operation \cap DOMAIN FirstPc, u \in User, e \in Known :
            Become(r, [Idle EXCEPT !.pc = FirstPc[op], !.user = u, !.event = e])
      BY <2>1 DEF Begin
    <3>2. FirstPc[op] \in Serving \ (OpenPc \cup {"remove:cascade", "create:insert"})
      BY DEF FirstPc, Serving, JoinPc, LeavePc, EventPc, InvitePc, MessagePc, OpenPc
    <3>3. UNCHANGED spent /\ e \in spent
      BY <2>1 DEF Begin, Known
    <3> QED BY <3>1, <3>2, <3>3 DEF Become
  <2>2. CASE BeginCreate(r)
    <3>1. PICK u \in User, e \in Event \ spent :
            /\ Become(r, [Idle EXCEPT !.pc = "create:insert", !.user = u, !.event = e])
            /\ spent' = spent \cup {e}
      BY <2>2 DEF BeginCreate
    <3> QED BY <3>1 DEF Become
  <2> QED BY <2>1, <2>2
<1>3. /\ \A q \in Request \ {r} : req'[q] = req[q]
      /\ req'[r].pc = pc /\ req'[r].event = e /\ req'[r].write = "none"
  BY <1>1, <1>2, IdleType DEF Idle, Slot
<1>4. req'[r].pc \notin OpenPc /\ req'[r].pc # "remove:cascade"
  BY <1>2, <1>3 DEF OpenPc
<1>5. LocksExclusive'
  <2>1. \A x : ~HoldsEvent(r, x)'
    BY <1>3, <1>4 DEF HoldsEvent, At
  <2>2. \A v, x : ~HoldsRow(r, v, x)'
    BY <1>4 DEF HoldsRow, InTransaction
  <2> QED BY <1>3, <2>1, <2>2, LocksStep DEF LockInv
<1>6. OpenTransactionHoldsRow'
  <2> SUFFICES ASSUME NEW q \in Request, InTransaction(q)'
               PROVE  /\ req'[q].event \in DOMAIN events'
                      /\ Contains(participations'[req'[q].event], req'[q].user)
    BY DEF OpenTransactionHoldsRow, InTransaction, Exists, HasRow
  <2>1. q # r
    BY <1>4 DEF InTransaction
  <2> QED BY <1>1, <1>3, <2>1
          DEF LockInv, OpenTransactionHoldsRow, InTransaction, Exists, HasRow, tables
<1>7. DrawnOnce'
  <2>1. ASSUME NEW q \in Request, req'[q].pc \in Serving
        PROVE  req'[q].event \in spent'
    BY <1>2, <1>3, <2>1 DEF LockInv, DrawnOnce
  <2>2. ASSUME NEW q \in Request, NEW s \in Request, q # s,
               req'[q].pc = "create:insert", req'[s].pc \in Serving
        PROVE  req'[s].event # req'[q].event
    <3>1. CASE q = r
      <4>1. s # r /\ req'[s] = req[s] /\ req[s].event \in spent
        BY <1>3, <2>2, <3>1 DEF LockInv, DrawnOnce
      <4> QED BY <1>2, <1>3, <2>2, <3>1, <4>1
    <3>2. CASE s = r
      <4>1. /\ req'[q] = req[q] /\ At(q, "create:insert")
            /\ req[q].pc \in Serving
        BY <1>3, <2>2, <3>2 DEF At, Serving, EventPc
      <4>2. req[q].event \in spent /\ req[q].event \notin Known
        BY <4>1 DEF LockInv, DrawnOnce, Known
      <4> QED BY <1>2, <1>3, <3>2, <4>1, <4>2
    <3>3. CASE q # r /\ s # r
      BY <1>3, <2>2, <3>3 DEF LockInv, DrawnOnce, At
    <3> QED BY <3>1, <3>2, <3>3
  <2> QED BY <2>1, <2>2 DEF DrawnOnce, At
<1> QED BY <1>1, <1>5, <1>6, <1>7 DEF LockInv, NoOrphans, tables

\* No lock is held at first.
LEMMA LocksInit == TablesInit => LockInv
<1> SUFFICES ASSUME TablesInit PROVE LockInv
  OBVIOUS
<1>1. "idle" \notin Serving \cup OpenPc
  BY DEF Serving, JoinPc, LeavePc, OpenPc, EventPc, InvitePc, MessagePc
<1>2. \A r \in Request : req[r].pc = "idle" /\ req[r].write = "none"
  BY DEF TablesInit, Idle
<1> QED BY <1>1, <1>2, InitType
        DEF LockInv, OpenTransactionHoldsRow, LocksExclusive, NoOrphans, DrawnOnce,
            HoldsEvent, HoldsRow, InTransaction, At, TablesInit

\* Every step keeps the invariant.
LEMMA LocksNext == LockInv /\ [Next]_vars => LockInv'
<1> SUFFICES ASSUME LockInv, [Next]_vars PROVE LockInv'
  OBVIOUS
<1>1. CASE UNCHANGED vars
  BY <1>1 DEF vars, tables, LockInv, TypeOK, OpenTransactionHoldsRow,
       LocksExclusive, NoOrphans, DrawnOnce, HoldsEvent, HoldsRow, HasCascaded,
       InTransaction, At, Exists, HasRow
<1>2. ASSUME NEW r \in Request,
             Begin(r) \/ BeginCreate(r) \/ Serve(r) \/ StatementFails(r)
               \/ DeadlockAbort(r)
      PROVE  LockInv'
  <2>1. CASE Release(r) \/ StatementFails(r) \/ DeadlockAbort(r)
    <3>1. TypeOK /\ TypeOK' /\ Quiet(r)
      BY <2>1, LifeType, OthersQuiet DEF LockInv
    <3> QED BY <2>1, <3>1, ReadingStep DEF Release, StatementFails, DeadlockAbort
  <2> QED BY <1>2, <2>1, BeginLocks, JoinLocks, LeaveLocks, CreateLocks,
             UpdateLocks, RemovalLocks, InvitationLocks, MessageLocks DEF Serve
<1> QED BY <1>1, <1>2 DEF Next

\* What an open transaction of handleCreatorLeave relies on holds until it ends.
THEOREM TransactionsHold == Spec => []OpenTransactionHoldsRow
<1>1. LockInv => OpenTransactionHoldsRow
  BY DEF LockInv
<1> QED BY <1>1, LocksInit, LocksNext, PTL DEF Spec

\* No row of events or participations is changed by two open statements or
\* transactions: the waits of the model are PostgreSQL's row locks.
THEOREM LocksExclude == Spec => []LocksExclusive
<1>1. LockInv => LocksExclusive
  BY DEF LockInv
<1> QED BY <1>1, LocksInit, LocksNext, PTL DEF Spec

\* A removed event leaves no participation, message or invitation behind.
THEOREM NothingOrphaned == Spec => []NoOrphans
<1>1. LockInv => NoOrphans
  BY DEF LockInv
<1> QED BY <1>1, LocksInit, LocksNext, PTL DEF Spec

-----------------------------------------------------------------------------
(* Waits.  A request that waits does not move, and no cycle of waits has more  *)
(* than two requests.                                                        *)

\* No handler goes on while Waits says that it waits.
LEMMA ServedNotWaiting ==
  ASSUME NEW r \in Request, Serve(r)
  PROVE  ~Waits(r)
<1>1. CASE Join(r) \/ Leave(r)
  <2>1. CASE Join(r)
    BY <2>1 DEF Join, JoinEvent, JoinAccess, JoinCapacity, JoinInsert, JoinCount,
                JoinEmit, At, Waits
  <2>2. CASE Leave(r)
    BY <2>2 DEF Leave, LeaveEvent, LeaveDelete, LeaveCount, LeaveEmit, TxDelete,
                TxNext, TxMessages, TxWrite, TxCascade, TxCommit, At, Waits
  <2> QED BY <1>1, <2>1, <2>2
<1>2. CASE Create(r) \/ Update(r) \/ Removal(r)
  BY <1>2 DEF Create, CreateInsert, CreateEmit, Update, UpdateEvent, UpdateScalars,
              UpdateLocation, UpdateReread, UpdateEmit, Removal, RemoveEvent,
              RemoveDelete, RemoveCascade, RemoveEmit, At, Waits
<1>3. CASE Invite(r) \/ AnswerInvitation(r) \/ Message(r) \/ Release(r)
  BY <1>3 DEF Invite, InviteEvent, InviteInsert, AnswerInvitation, AnswerRead,
              AnswerWrite, Message, MessageEvent, MessageCreator,
              MessageParticipant, MessageInsert, Release, At, Waits
<1> QED BY <1>1, <1>2, <1>3 DEF Serve

\* An uncommitted write of an event is a removal's or an open transaction's.
LEMMA WriterHolds ==
  ASSUME TypeOK, NEW s \in Request, NEW e, HoldsEvent(s, e)
  PROVE  Holds(s, e) /\ req[s].pc \in {"remove:cascade", "tx:cascade", "tx:commit"}
BY DEF TypeOK, WellFormed, HoldsEvent, Holds, InTransaction, OpenPc, At

\* Who waits does so for one that holds rows of its event.
LEMMA WaitsForHolder ==
  ASSUME TypeOK, NEW r \in Request, Waits(r)
  PROVE  \E s \in Request : Holds(s, req[r].event)
<1> DEFINE e == req[r].event
<1>1. CASE RowHeld(req[r].user, e)
  BY <1>1 DEF RowHeld, HoldsRow, Holds
<1>2. CASE EventHeld(e)
  BY <1>2, WriterHolds DEF EventHeld
<1>3. CASE BeingDeleted(e)
  <2>1. PICK s \in Request : Deletes(s, e)
    BY <1>3 DEF BeingDeleted
  <2>2. HoldsEvent(s, e)
    BY <2>1 DEF Deletes, HoldsEvent
  <2> QED BY <2>2, WriterHolds
<1>4. CASE CascadeBlocked(r)
  BY <1>4 DEF CascadeBlocked, Holds
<1>5. CASE InvitationsHeld(e)
  BY <1>5 DEF InvitationsHeld, HasCascaded, Holds, InTransaction, OpenPc, At
<1> QED BY <1>1, <1>2, <1>3, <1>4, <1>5 DEF Waits

\* One of those that hold rows of an event goes on, or is in a deadlock of two.
LEMMA HolderGoesOn ==
  ASSUME TypeOK, LocksExclusive, NEW e, NEW h \in Request, Holds(h, e)
  PROVE  \E s \in Request :
           /\ Holds(s, e)
           /\ ~Waits(s) \/ \E q \in Request : Deadlocked(s, q) \/ Deadlocked(q, s)
<1>1. CASE ~Waits(h)
  BY <1>1
<1>2. CASE req[h].pc \in {"tx:transfer", "tx:deactivate", "tx:drop"} /\ Waits(h)
  <2>1. EventHeld(e) /\ req[h].event = e
    BY <1>2 DEF Waits, Holds, At
  <2>2. PICK s \in Request : HoldsEvent(s, e)
    BY <2>1 DEF EventHeld
  <2>3. /\ Holds(s, e) /\ req[s].event = e
        /\ req[s].pc \in {"remove:cascade", "tx:cascade", "tx:commit"}
    BY <2>2, WriterHolds DEF HoldsEvent
  <2>4. CASE req[s].pc = "tx:commit"
    BY <2>3, <2>4 DEF Waits, At
  <2>5. CASE req[s].pc \in {"remove:cascade", "tx:cascade"}
    BY <1>2, <2>1, <2>3, <2>5 DEF Deadlocked
  <2> QED BY <2>3, <2>4, <2>5
<1>3. CASE req[h].pc \in {"tx:cascade", "remove:cascade"} /\ Waits(h)
  <2>1. CascadeBlocked(h) /\ req[h].event = e
    BY <1>3 DEF Waits, Holds, At
  <2>2. PICK s \in Request \ {h} : InTransaction(s) /\ req[s].event = e
    BY <2>1 DEF CascadeBlocked
  <2>3. Holds(s, e)
    BY <2>2 DEF Holds
  <2>4. CASE req[s].pc \in {"tx:next", "tx:messages", "tx:commit"}
    BY <2>2, <2>3, <2>4 DEF Waits, At
  <2>5. CASE req[s].pc \in {"tx:transfer", "tx:deactivate", "tx:drop"}
    BY <1>3, <2>1, <2>2, <2>3, <2>5 DEF Deadlocked
  <2>6. req[s].pc # "tx:cascade"
    <3>1. SUFFICES ASSUME req[s].pc = "tx:cascade" PROVE FALSE
      OBVIOUS
    <3>2. HoldsEvent(s, e) /\ HoldsEvent(h, e)
      BY <1>3, <2>1, <2>2, <3>1 DEF HoldsEvent, At, TypeOK, WellFormed
    <3>3. e \in Event
      BY <2>2, OpenTypes
    <3> QED BY <2>2, <3>2, <3>3 DEF LocksExclusive
  <2> QED BY <2>2, <2>4, <2>5, <2>6 DEF InTransaction, OpenPc
<1> QED BY <1>1, <1>2, <1>3 DEF Holds, InTransaction, OpenPc, Waits, At

\* The parties of a deadlock wait for each other.
LEMMA DeadlockedWait ==
  ASSUME TypeOK, NEW r \in Request, NEW s \in Request, Deadlocked(r, s)
  PROVE  Waits(r) /\ Waits(s)
<1>1. r # s /\ InTransaction(s) /\ req[s].event = req[r].event
  BY DEF Deadlocked, InTransaction, OpenPc
<1>2. CascadeBlocked(r)
  BY <1>1 DEF CascadeBlocked
<1>3. HoldsEvent(r, req[s].event)
  BY <1>1 DEF Deadlocked, HoldsEvent, At, TypeOK, WellFormed
<1> QED BY <1>2, <1>3 DEF Deadlocked, Waits, EventHeld

\* However many requests wait for the rows of an event, one that holds rows of
\* it goes on, or PostgreSQL finds it in a deadlock of two: the rule of
\* DeadlockAbort leaves no cycle of removals and leaves unbroken.
THEOREM NoLongerDeadlock == Spec => []WaitsEnd
<1>1. LockInv => WaitsEnd
  <2> SUFFICES ASSUME TypeOK, LocksExclusive PROVE WaitsEnd
    BY DEF LockInv
  <2>1. ASSUME NEW r \in Request, Waits(r)
        PROVE  \E s \in Request :
                 /\ Holds(s, req[r].event)
                 /\ ~Waits(s)
                      \/ \E q \in Request : Deadlocked(s, q) \/ Deadlocked(q, s)
    BY <2>1, WaitsForHolder, HolderGoesOn
  <2> QED BY <2>1, DeadlockedWait DEF WaitsEnd
<1> QED BY <1>1, LocksInit, LocksNext, PTL DEF Spec

-----------------------------------------------------------------------------
(* How far an event may be oversold *)

\* Only JoinCapacity brings a request to insertParticipation.
Elsewhere(r) ==
  /\ \A q \in Request \ {r} : req'[q] = req[q]
  /\ req'[r].pc # "join:insert"

\* A request that answers is not about to insert.
LEMMA AnswerElsewhere ==
  ASSUME TypeOK, NEW r \in Request, NEW status, Answer(r, status)
  PROVE  Elsewhere(r)
<1>1. Done(status).pc = "done"
  BY IdleType DEF Done, Slot, Idle
<1> QED BY <1>1 DEF Answer, Become, Elsewhere, TypeOK

\* Nor is one that goes on to another place,
LEMMA GotoElsewhere ==
  ASSUME TypeOK, NEW r \in Request, NEW pc, Goto(r, pc), pc # "join:insert"
  PROVE  Elsewhere(r)
BY DEF Goto, Elsewhere, TypeOK, Slot

\* with or without a local changed.
LEMMA AdvanceElsewhere ==
  ASSUME TypeOK, NEW r \in Request, NEW pc, pc # "join:insert",
         \/ \E c : Become(r, [req[r] EXCEPT !.pc = pc, !.cap = c])
         \/ \E n : Become(r, [req[r] EXCEPT !.pc = pc, !.count = n])
         \/ \E u : Become(r, [req[r] EXCEPT !.pc = pc, !.peer = u])
         \/ \E w : Become(r, [req[r] EXCEPT !.pc = pc, !.write = w])
         \/ \E u, w : Become(r, [req[r] EXCEPT !.pc = pc, !.peer = u, !.write = w])
  PROVE  Elsewhere(r)
<1>0. req[r] \in Slot
  BY DEF TypeOK
<1>1. CASE \E c : Become(r, [req[r] EXCEPT !.pc = pc, !.cap = c])
  <2>1. PICK c : req' = [req EXCEPT ![r] = [req[r] EXCEPT !.pc = pc, !.cap = c]]
    BY <1>1 DEF Become
  <2> QED BY <1>0, <2>1 DEF Elsewhere, TypeOK, Slot
<1>2. CASE \E n : Become(r, [req[r] EXCEPT !.pc = pc, !.count = n])
  <2>1. PICK n : req' = [req EXCEPT ![r] = [req[r] EXCEPT !.pc = pc, !.count = n]]
    BY <1>2 DEF Become
  <2> QED BY <1>0, <2>1 DEF Elsewhere, TypeOK, Slot
<1>3. CASE \E u : Become(r, [req[r] EXCEPT !.pc = pc, !.peer = u])
  <2>1. PICK u : req' = [req EXCEPT ![r] = [req[r] EXCEPT !.pc = pc, !.peer = u]]
    BY <1>3 DEF Become
  <2> QED BY <1>0, <2>1 DEF Elsewhere, TypeOK, Slot
<1>4. CASE \E w : Become(r, [req[r] EXCEPT !.pc = pc, !.write = w])
  <2>1. PICK w : req' = [req EXCEPT ![r] = [req[r] EXCEPT !.pc = pc, !.write = w]]
    BY <1>4 DEF Become
  <2> QED BY <1>0, <2>1 DEF Elsewhere, TypeOK, Slot
<1>5. CASE \E u, w : Become(r, [req[r] EXCEPT !.pc = pc, !.peer = u, !.write = w])
  <2>1. PICK u, w : req' = [req EXCEPT ![r] = [req[r] EXCEPT !.pc = pc, !.peer = u, !.write = w]]
    BY <1>5 DEF Become
  <2> QED BY <1>0, <2>1 DEF Elsewhere, TypeOK, Slot
<1> QED BY <1>1, <1>2, <1>3, <1>4, <1>5

\* There are finitely many slots, and one at least.
LEMMA RequestsCounted == Cardinality(Request) \in Nat \ {0}
BY RequestAssumption, FS_CardinalityType, FS_EmptySet

\* So are the requests about to insert.
LEMMA InsertingCounted ==
  \A e : /\ IsFiniteSet(Inserting(e)) /\ Cardinality(Inserting(e)) \in Nat
         /\ Cardinality(Inserting(e)) <= Cardinality(Request)
BY RequestAssumption, FS_Subset, FS_CardinalityType DEF Inserting

\* An event that gains no row is oversold no further.
LEMMA NoRowGained ==
  ASSUME TypeOK, TypeOK', OvershootBounded, NEW r \in Request, Elsewhere(r),
         \A e \in Event : Len(participations'[e]) <= Len(participations[e])
  PROVE  OvershootBounded'
<1> SUFFICES ASSUME NEW e \in Event
             PROVE  Len(participations'[e]) + Cardinality(Inserting(e)')
                      <= MaxCapacity + Cardinality(Request) - 1
  BY DEF OvershootBounded
<1>1. Inserting(e)' \subseteq Inserting(e)
  BY DEF Inserting, Elsewhere, At
<1>2. /\ Cardinality(Inserting(e)') \in Nat
      /\ Cardinality(Inserting(e)') <= Cardinality(Inserting(e))
      /\ Cardinality(Inserting(e)) \in Nat
  BY <1>1, InsertingCounted, FS_Subset, FS_CardinalityType
<1>3. Len(participations[e]) \in Nat /\ Len(participations'[e]) \in Nat
  BY LenProperties DEF TypeOK
<1> QED BY <1>2, <1>3, RequestsCounted, BoundsAssumption DEF OvershootBounded

\* Every step but JoinCapacity is one.
LEMMA JoinElsewhere ==
  ASSUME TypeOK, NEW r \in Request, Join(r), ~JoinCapacity(r)
  PROVE  Elsewhere(r)
<1>1. CASE JoinEvent(r)
  <2>1. CASE \E status : Answer(r, status)
    BY <2>1, AnswerElsewhere
  <2>2. CASE \E c : Become(r, [req[r] EXCEPT
               !.pc = IF events[req[r].event].visibility = "PRIVATE"
                      THEN "join:access" ELSE "join:capacity", !.cap = c])
    BY <2>2, AdvanceElsewhere
  <2> QED BY <1>1, <2>1, <2>2 DEF JoinEvent
<1>2. CASE JoinAccess(r)
  BY <1>2, AnswerElsewhere, GotoElsewhere DEF JoinAccess
<1>3. CASE JoinInsert(r)
  <2>1. CASE \E status : Answer(r, status)
    BY <2>1, AnswerElsewhere
  <2>2. CASE Become(r, [req[r] EXCEPT !.pc = "join:count", !.cap = 0])
    BY <2>2, AdvanceElsewhere
  <2> QED BY <1>3, <2>1, <2>2 DEF JoinInsert
<1>4. CASE JoinCount(r)
  BY <1>4, AdvanceElsewhere DEF JoinCount
<1>5. CASE JoinEmit(r)
  BY <1>5, AnswerElsewhere DEF JoinEmit
<1> QED BY <1>1, <1>2, <1>3, <1>4, <1>5 DEF Join

\* leave brings nobody to the insertion.
LEMMA LeaveElsewhere ==
  ASSUME TypeOK, NEW r \in Request, Leave(r)
  PROVE  Elsewhere(r)
<1>1. CASE LeaveEvent(r)
  BY <1>1, AnswerElsewhere, GotoElsewhere DEF LeaveEvent
<1>2. CASE LeaveDelete(r)
  BY <1>2, AnswerElsewhere, GotoElsewhere DEF LeaveDelete
<1>3. CASE LeaveCount(r) \/ LeaveEmit(r)
  BY <1>3, AnswerElsewhere, AdvanceElsewhere DEF LeaveCount, LeaveEmit
<1>4. CASE TxDelete(r) \/ TxNext(r)
  BY <1>4, AnswerElsewhere, GotoElsewhere, AdvanceElsewhere DEF TxDelete, TxNext
<1>5. CASE TxMessages(r) \/ TxWrite(r) \/ TxCascade(r)
  BY <1>5, GotoElsewhere, AdvanceElsewhere
     DEF TxMessages, TxWrite, TxCascade
<1>6. CASE TxCommit(r)
  <2>1. CASE Answer(r, OK)
    BY <2>1, AnswerElsewhere
  <2>2. CASE Become(r, [req[r] EXCEPT !.pc = "leave:count", !.peer = Nobody,
                                      !.write = "none"])
    BY <2>2, AdvanceElsewhere
  <2> QED BY <1>6, <2>1, <2>2 DEF TxCommit
<1> QED BY <1>1, <1>2, <1>3, <1>4, <1>5, <1>6 DEF Leave

\* Nor do create, update and remove.
LEMMA EventsElsewhere ==
  ASSUME TypeOK, NEW r \in Request, Create(r) \/ Update(r) \/ Removal(r)
  PROVE  Elsewhere(r)
<1>1. CASE Create(r)
  BY <1>1, AnswerElsewhere, GotoElsewhere
     DEF Create, CreateInsert, CreateEmit
<1>2. CASE UpdateEvent(r) \/ UpdateScalars(r) \/ UpdateLocation(r)
  BY <1>2, AnswerElsewhere, GotoElsewhere
     DEF UpdateEvent, UpdateScalars, UpdateLocation
<1>3. CASE UpdateReread(r) \/ UpdateEmit(r)
  BY <1>3, AnswerElsewhere, AdvanceElsewhere DEF UpdateReread, UpdateEmit
<1>4. CASE Removal(r)
  BY <1>4, AnswerElsewhere, GotoElsewhere
     DEF Removal, RemoveEvent, RemoveDelete, RemoveCascade, RemoveEmit
<1> QED BY <1>1, <1>2, <1>3, <1>4 DEF Update

\* Nor do the other handlers, a failure or the beginning of a request.
LEMMA OthersElsewhere ==
  ASSUME TypeOK, NEW r \in Request,
         \/ Invite(r) \/ AnswerInvitation(r) \/ Message(r) \/ Release(r)
         \/ StatementFails(r) \/ DeadlockAbort(r) \/ Begin(r) \/ BeginCreate(r)
  PROVE  Elsewhere(r)
<1>1. CASE Invite(r) \/ AnswerInvitation(r)
  <2>1. CASE InviteEvent(r) \/ InviteInsert(r)
    BY <2>1, AnswerElsewhere, AdvanceElsewhere DEF InviteEvent, InviteInsert
  <2>2. CASE AnswerRead(r) \/ AnswerWrite(r)
    BY <2>2, AnswerElsewhere, GotoElsewhere DEF AnswerRead, AnswerWrite
  <2> QED BY <1>1, <2>1, <2>2 DEF Invite, AnswerInvitation
<1>2. CASE Message(r)
  BY <1>2, AnswerElsewhere, GotoElsewhere
     DEF Message, MessageEvent, MessageCreator, MessageParticipant, MessageInsert
<1>3. CASE StatementFails(r) \/ DeadlockAbort(r)
  BY <1>3, AnswerElsewhere DEF StatementFails, DeadlockAbort
<1>4. CASE Release(r)
  BY <1>4 DEF Release, Become, Idle, Elsewhere, TypeOK
<1>5. CASE Begin(r) \/ BeginCreate(r)
  <2>1. \A pc, u, e : Become(r, [Idle EXCEPT !.pc = pc, !.user = u, !.event = e])
                       /\ pc # "join:insert" => Elsewhere(r)
    BY IdleType DEF Become, Idle, Slot, Elsewhere, TypeOK
  <2>2. CASE Begin(r)
    <3>1. PICK op \in Operation \cap DOMAIN FirstPc, u \in User, e \in Known :
            Become(r, [Idle EXCEPT !.pc = FirstPc[op], !.user = u, !.event = e])
      BY <2>2 DEF Begin
    <3>2. FirstPc[op] # "join:insert"
      BY DEF FirstPc
    <3> QED BY <2>1, <3>1, <3>2
  <2>3. CASE BeginCreate(r)
    BY <2>1, <2>3 DEF BeginCreate
  <2> QED BY <1>5, <2>2, <2>3
<1> QED BY <1>1, <1>2, <1>3, <1>4, <1>5

\* Only JoinInsert and CreateInsert lengthen the rows of an event.
LEMMA RowsShrink ==
  ASSUME TypeOK, NEW r \in Request,
         \/ participations' = [participations EXCEPT
              ![req[r].event] = WithoutRow(@, req[r].user)]
         \/ DeleteEvent(req[r].event)
         \/ UNCHANGED participations
  PROVE  \A e \in Event : Len(participations'[e]) <= Len(participations[e])
<1> TAKE e \in Event
<1>1. /\ participations[e] \in Seq(User) /\ IsInjective(participations[e])
      /\ Len(participations[e]) \in Nat
  BY LenProperties DEF TypeOK
<1>2. \/ participations'[e] = WithoutRow(participations[e], req[r].user)
      \/ participations'[e] = <<>>
      \/ participations'[e] = participations[e]
  BY DEF TypeOK, DeleteEvent
<1> QED BY <1>1, <1>2, WithoutRowType

\* checkCapacity lets a request through while the event has room.
LEMMA CapacityOvershoot ==
  ASSUME LockInv, OvershootBounded, NEW r \in Request, JoinCapacity(r)
  PROVE  OvershootBounded'
<1>0. TypeOK /\ TypeOK'
  BY JoinType DEF LockInv, Join
<1> SUFFICES ASSUME NEW e \in Event
             PROVE  Len(participations'[e]) + Cardinality(Inserting(e)')
                      <= MaxCapacity + Cardinality(Request) - 1
  BY DEF OvershootBounded
<1>1. /\ participations' = participations
      /\ Len(participations[e]) \in Nat
      /\ req \in [Request -> Slot] /\ req[r].cap \in 0..MaxCapacity
  BY <1>0, LenProperties DEF JoinCapacity, TypeOK, tables, Slot
<1>2. /\ IsFiniteSet(Inserting(e)')
      /\ Cardinality(Inserting(e)') \in Nat
      /\ Cardinality(Inserting(e)') <= Cardinality(Request)
  BY RequestAssumption, FS_Subset, FS_CardinalityType DEF Inserting
<1>3. CASE CountParticipants(req[r].event) < req[r].cap /\ e = req[r].event
  BY <1>1, <1>2, <1>3, RequestsCounted, BoundsAssumption DEF CountParticipants
<1>4. CASE CountParticipants(req[r].event) < req[r].cap /\ e # req[r].event
  <2>1. Inserting(e)' \subseteq Inserting(e)
    BY <1>0, <1>1, <1>4 DEF JoinCapacity, Answer, Goto, Become, Inserting, At, Slot
  <2> QED BY <1>1, <1>2, <2>1, InsertingCounted, FS_Subset, RequestsCounted,
             BoundsAssumption DEF OvershootBounded
<1>5. CASE ~(CountParticipants(req[r].event) < req[r].cap)
  <2>1. Elsewhere(r)
    BY <1>0, <1>5, AnswerElsewhere DEF JoinCapacity
  <2> QED BY <1>0, <1>1, <2>1, NoRowGained, RowsShrink DEF OvershootBounded
<1> QED BY <1>3, <1>4, <1>5

\* insertParticipation adds a row and takes its request from the inserting.
LEMMA OvershootInsert ==
  ASSUME LockInv, OvershootBounded, NEW r \in Request, JoinInsert(r),
         participations' # participations
  PROVE  OvershootBounded'
<1> DEFINE e == req[r].event
           u == req[r].user
<1>1. /\ TypeOK /\ TypeOK' /\ Elsewhere(r)
      /\ req[r].pc = "join:insert" /\ req[r].pc \in Serving
  BY JoinType, JoinElsewhere
     DEF LockInv, Join, JoinInsert, JoinCapacity, At, Serving, JoinPc
<1>2. /\ participations' = [participations EXCEPT ![e] = Append(@, u)]
      /\ ~Contains(participations[e], u)
      /\ e \in Event /\ u \in User
  BY <1>1, ServedTypes DEF JoinInsert, HasRow
<1> SUFFICES ASSUME NEW x \in Event
             PROVE  Len(participations'[x]) + Cardinality(Inserting(x)')
                      <= MaxCapacity + Cardinality(Request) - 1
  BY DEF OvershootBounded
<1>3. /\ Len(participations[x]) \in Nat
      /\ participations[x] \in Seq(User) /\ IsInjective(participations[x])
  BY <1>1, LenProperties DEF TypeOK
<1>4. CASE x = e
  <2>1. Len(participations'[x]) = Len(participations[x]) + 1
    BY <1>1, <1>2, <1>3, <1>4, AppendRowType DEF TypeOK
  <2>2. r \in Inserting(x) /\ Inserting(x)' \subseteq Inserting(x) \ {r}
    BY <1>1, <1>4 DEF Inserting, Elsewhere, At
  <2>3. /\ IsFiniteSet(Inserting(x) \ {r})
        /\ Cardinality(Inserting(x) \ {r}) = Cardinality(Inserting(x)) - 1
    BY <2>2, InsertingCounted, FS_RemoveElement
  <2>4. /\ Cardinality(Inserting(x)') <= Cardinality(Inserting(x)) - 1
        /\ Cardinality(Inserting(x)') \in Nat
    BY <2>2, <2>3, FS_Subset, FS_CardinalityType
  <2> QED BY <1>3, <2>1, <2>4, InsertingCounted, RequestsCounted, BoundsAssumption
          DEF OvershootBounded
<1>5. CASE x # e
  <2>1. participations'[x] = participations[x]
    BY <1>1, <1>2, <1>5 DEF TypeOK
  <2>2. Inserting(x)' \subseteq Inserting(x)
    BY <1>1 DEF Inserting, Elsewhere, At
  <2>3. /\ Cardinality(Inserting(x)') <= Cardinality(Inserting(x))
        /\ Cardinality(Inserting(x)') \in Nat
    BY <2>2, InsertingCounted, FS_Subset, FS_CardinalityType
  <2> QED BY <1>3, <2>1, <2>3, InsertingCounted, RequestsCounted, BoundsAssumption
          DEF OvershootBounded
<1> QED BY <1>4, <1>5

\* A new event has one row, and nobody can be joining it yet.
LEMMA OvershootCreate ==
  ASSUME LockInv, OvershootBounded, NEW r \in Request, CreateInsert(r)
  PROVE  OvershootBounded'
<1> DEFINE e == req[r].event
<1>1. /\ TypeOK /\ TypeOK' /\ Elsewhere(r)
      /\ req[r].pc = "create:insert" /\ req[r].pc \in Serving
  BY CreateType, EventsElsewhere
     DEF LockInv, Create, CreateInsert, At, Serving, EventPc
<1>2. participations' = [participations EXCEPT ![e] = <<req[r].user>>]
  BY DEF CreateInsert
<1> SUFFICES ASSUME NEW x \in Event
             PROVE  Len(participations'[x]) + Cardinality(Inserting(x)')
                      <= MaxCapacity + Cardinality(Request) - 1
  BY DEF OvershootBounded
<1>3. Inserting(x)' \subseteq Inserting(x)
  BY <1>1 DEF Inserting, Elsewhere, At
<1>4. /\ Cardinality(Inserting(x)') <= Cardinality(Inserting(x))
      /\ Cardinality(Inserting(x)') \in Nat
  BY <1>3, InsertingCounted, FS_Subset, FS_CardinalityType
<1>5. CASE x = e
  <2>1. participations'[x] = <<req[r].user>>
    BY <1>1, <1>2, <1>5 DEF TypeOK
  <2>2. Inserting(x) = {}
    <3>1. "join:insert" \in Serving
      BY DEF Serving, JoinPc
    <3> QED BY <1>1, <1>5, <3>1 DEF LockInv, DrawnOnce, Inserting, At
  <2>3. Cardinality(Inserting(x)) = 0
    BY <2>2, FS_EmptySet
  <2>4. Len(participations'[x]) = 1
    BY <2>1
  <2> QED BY <1>4, <2>3, <2>4, RequestsCounted, BoundsAssumption
<1>6. CASE x # e
  <2>1. participations'[x] = participations[x]
    BY <1>1, <1>2, <1>6 DEF TypeOK
  <2>2. Len(participations[x]) \in Nat
    BY <1>1, LenProperties DEF TypeOK
  <2> QED BY <1>4, <2>1, <2>2, InsertingCounted, RequestsCounted, BoundsAssumption
          DEF OvershootBounded
<1> QED BY <1>5, <1>6

\* Every step keeps the bound.
LEMMA OvershootNext == LockInv /\ OvershootBounded /\ [Next]_vars => OvershootBounded'
<1> SUFFICES ASSUME LockInv, OvershootBounded, [Next]_vars
             PROVE  OvershootBounded'
  OBVIOUS
<1>0. TypeOK /\ TypeOK'
  BY LocksNext DEF LockInv
<1>1. CASE UNCHANGED vars
  BY <1>1 DEF vars, tables, OvershootBounded, Inserting, At
<1>2. ASSUME NEW r \in Request, Join(r)
      PROVE  OvershootBounded'
  <2>1. CASE JoinCapacity(r)
    BY <2>1, CapacityOvershoot
  <2>2. CASE ~JoinCapacity(r) /\ UNCHANGED participations
    BY <1>0, <1>2, <2>2, JoinElsewhere, RowsShrink, NoRowGained
  <2>3. CASE JoinInsert(r) /\ participations' # participations
    BY <2>3, OvershootInsert
  <2> QED BY <1>2, <2>1, <2>2, <2>3
          DEF Join, JoinEvent, JoinAccess, JoinInsert, JoinCount, JoinEmit, tables
<1>3. ASSUME NEW r \in Request, Leave(r)
      PROVE  OvershootBounded'
  <2>1. \/ participations' = [participations EXCEPT
             ![req[r].event] = WithoutRow(@, req[r].user)]
        \/ DeleteEvent(req[r].event)
        \/ UNCHANGED participations
    BY <1>3 DEF Leave, LeaveEvent, LeaveDelete, LeaveCount, LeaveEmit, TxDelete,
         TxNext, TxMessages, TxWrite, TxCascade, TxCommit, tables
  <2> QED BY <1>0, <1>3, <2>1, LeaveElsewhere, RowsShrink, NoRowGained
<1>4. ASSUME NEW r \in Request, Create(r) \/ Update(r) \/ Removal(r)
      PROVE  OvershootBounded'
  <2>1. CASE CreateInsert(r)
    BY <2>1, OvershootCreate
  <2>2. CASE ~CreateInsert(r)
    <3>1. DeleteEvent(req[r].event) \/ UNCHANGED participations
      BY <1>4, <2>2 DEF Create, CreateEmit, Update, UpdateEvent, UpdateScalars,
           UpdateLocation, UpdateReread, UpdateEmit, Removal, RemoveEvent,
           RemoveDelete, RemoveCascade, RemoveEmit, tables
    <3> QED BY <1>0, <1>4, <3>1, EventsElsewhere, RowsShrink, NoRowGained
  <2> QED BY <2>1, <2>2
<1>5. ASSUME NEW r \in Request,
             \/ Invite(r) \/ AnswerInvitation(r) \/ Message(r) \/ Release(r)
             \/ StatementFails(r) \/ DeadlockAbort(r) \/ Begin(r) \/ BeginCreate(r)
      PROVE  OvershootBounded'
  <2>1. UNCHANGED participations
    BY <1>5 DEF Invite, InviteEvent, InviteInsert, AnswerInvitation, AnswerRead,
         AnswerWrite, Message, MessageEvent, MessageCreator, MessageParticipant,
         MessageInsert, Release, StatementFails, DeadlockAbort, Begin, BeginCreate,
         tables
  <2> QED BY <1>0, <1>5, <2>1, OthersElsewhere, RowsShrink, NoRowGained
<1> QED BY <1>1, <1>2, <1>3, <1>4, <1>5 DEF Next, Serve

\* However the checks and the inserts of join interleave, an event exceeds the
\* greatest capacity by less than the number of requests served at a time.
THEOREM OvershootIsBounded == Spec => []OvershootBounded
<1>1. TablesInit => OvershootBounded
  <2> SUFFICES ASSUME TablesInit, NEW e \in Event
               PROVE  Len(participations[e]) + Cardinality(Inserting(e))
                        <= MaxCapacity + Cardinality(Request) - 1
    BY DEF OvershootBounded
  <2>1. participations[e] = <<>> /\ Inserting(e) = {}
    BY DEF TablesInit, Inserting, At, Idle
  <2>2. Len(participations[e]) = 0 /\ Cardinality(Inserting(e)) = 0
    BY <2>1, FS_EmptySet
  <2> QED BY <2>2, RequestsCounted, BoundsAssumption
<1> QED BY <1>1, LocksInit, LocksNext, OvershootNext, PTL DEF Spec
=============================================================================
