---------------------------- MODULE GuestsProofs ----------------------------
(***************************************************************************)
(* Who attends a private event, when no event changes its visibility: the   *)
(* one promise of Backend about invitations, for every number of requests   *)
(* in flight and every interleaving of theirs.                             *)
(***************************************************************************)
EXTENDS BackendProofs

-----------------------------------------------------------------------------
(* The inductive invariant *)

\* u has accepted an invitation to e (and may have declined it since).
Cleared(u, e) == invitations[e][u] \in {"ACCEPTED", "DECLINED"}

Private(e) == e \in DOMAIN events /\ events[e].visibility = "PRIVATE"

\* The places of update, which no request reaches if no client calls it.
UpdatePc == {"update:event", "update:scalars", "update:location",
             "update:reread", "update:emit"}

\* What a request on its way into a private event, or one that is about to hand
\* it over, has found out and still holds: a joiner past checkPrivateAccess is
\* cleared; in handleCreatorLeave the lead is the leaver, unless he has lost it
\* to somebody cleared; and the heir, once read, is cleared.
Vouched(r) ==
  LET e == req[r].event
  IN  Private(e) =>
        /\ req[r].pc \in {"join:capacity", "join:insert"} => Cleared(req[r].user, e)
        /\ req[r].pc \in OpenPc \cup {"tx:delete"} =>
             \/ events[e].creator = req[r].user
             \/ Cleared(events[e].creator, e)
        /\ req[r].pc = "tx:transfer" \/ req[r].write = "transfer" =>
             Cleared(req[r].peer, e)

GuestInv ==
  /\ LockInv
  /\ GuestsWereInvited
  /\ "update" \notin Operation
  /\ \A r \in Request : req[r].pc \notin UpdatePc /\ Vouched(r)

\* The places at which Vouched says something.
Watched == {"join:capacity", "join:insert", "tx:delete"} \cup OpenPc

-----------------------------------------------------------------------------
(* Steps that change no lead *)

\* An event keeps what was promised of it if it stays private under the same
\* lead, whoever was cleared stays so, and whoever is new in it is cleared.
Steady ==
  \A e \in DOMAIN events' : events'[e].visibility = "PRIVATE" =>
    /\ Private(e)
    /\ events'[e].creator = events[e].creator
    /\ \A u \in User : Cleared(u, e) => Cleared(u, e)'
    /\ \A u \in User : HasRow(e, u)' => HasRow(e, u) \/ Cleared(u, e)

\* A request that is not at a watched place has nothing to vouch for.
LEMMA UnwatchedVouched ==
  ASSUME NEW r \in Request, req[r].pc \notin Watched, req[r].write = "none"
  PROVE  Vouched(r)
BY DEF Vouched, Watched, OpenPc

\* What Vouched says is about users.
LEMMA VouchedUsers ==
  ASSUME TypeOK, NEW r \in Request
  PROVE  /\ req[r].pc \in Watched => req[r].user \in User /\ req[r].event \in Event
         /\ req[r].write = "transfer" => req[r].pc \in OpenPc
         /\ req[r].pc = "tx:transfer" \/ req[r].write = "transfer"
              => req[r].peer \in User
         /\ \A e \in DOMAIN events : events[e].creator \in User
<1>1. Watched \subseteq Serving
  BY DEF Watched, Serving, JoinPc, OpenPc
<1>2. {"tx:cascade", "tx:commit"} \subseteq OpenPc
  BY DEF OpenPc
<1> QED BY <1>1, <1>2 DEF TypeOK, WellFormed, Row

\* The requests that do not move vouch for what they did.
LEMMA OthersVouched ==
  ASSUME GuestInv, Steady, NEW q \in Request, req'[q] = req[q]
  PROVE  Vouched(q)'
<1>1. Vouched(q) /\ TypeOK
  BY DEF GuestInv, LockInv
<1>2. OpenPc \cup {"tx:delete", "tx:transfer"} \subseteq Watched
  BY DEF Watched, OpenPc
<1> DEFINE e == req[q].event
<1> SUFFICES ASSUME e \in DOMAIN events', events'[e].visibility = "PRIVATE"
             PROVE  /\ req[q].pc \in {"join:capacity", "join:insert"}
                         => Cleared(req[q].user, e)'
                    /\ req[q].pc \in OpenPc \cup {"tx:delete"} =>
                         \/ events'[e].creator = req[q].user
                         \/ invitations'[e][events'[e].creator]
                              \in {"ACCEPTED", "DECLINED"}
                    /\ req[q].pc = "tx:transfer" \/ req[q].write = "transfer"
                         => Cleared(req[q].peer, e)'
  BY DEF Vouched, Private, Cleared
<1>3. /\ Private(e) /\ events'[e].creator = events[e].creator
      /\ \A u \in User : Cleared(u, e) => Cleared(u, e)'
  BY DEF Steady
<1>4. events[e].creator \in User
  BY <1>1, <1>3, VouchedUsers DEF Private
<1>5. req[q].pc \in {"join:capacity", "join:insert"} => Cleared(req[q].user, e)'
  <2>1. {"join:capacity", "join:insert"} \subseteq Watched
    BY DEF Watched
  <2> QED BY <1>1, <1>3, <2>1, VouchedUsers DEF Vouched
<1>6. req[q].pc \in OpenPc \cup {"tx:delete"} =>
        \/ events'[e].creator = req[q].user
        \/ invitations'[e][events'[e].creator] \in {"ACCEPTED", "DECLINED"}
  BY <1>1, <1>3, <1>4 DEF Vouched, Cleared
<1>7. req[q].pc = "tx:transfer" \/ req[q].write = "transfer" => Cleared(req[q].peer, e)'
  BY <1>1, <1>3, VouchedUsers DEF Vouched
<1> QED BY <1>5, <1>6, <1>7

\* A steady step keeps the invariant if the request that takes it has still
\* something to vouch with.
LEMMA SteadyStep ==
  ASSUME GuestInv, LockInv', Steady, NEW r \in Request,
         \A q \in Request \ {r} : req'[q] = req[q],
         req'[r].pc \notin UpdatePc, Vouched(r)'
  PROVE  GuestInv'
<1>1. \A q \in Request : Vouched(q)' /\ req'[q].pc \notin UpdatePc
  BY OthersVouched DEF GuestInv
<1>2. GuestsWereInvited'
  <2> SUFFICES ASSUME NEW e \in DOMAIN events', events'[e].visibility = "PRIVATE",
                      NEW u \in User, HasRow(e, u)'
               PROVE  \/ events'[e].creator = u
                      \/ Cleared(u, e)'
    BY DEF GuestsWereInvited, Cleared
  <2>1. /\ Private(e) /\ events'[e].creator = events[e].creator
        /\ Cleared(u, e) => Cleared(u, e)'
        /\ HasRow(e, u) \/ Cleared(u, e)
    BY DEF Steady
  <2>2. HasRow(e, u) => events[e].creator = u \/ Cleared(u, e)
    BY <2>1 DEF GuestInv, GuestsWereInvited, Private, Cleared
  <2> QED BY <2>1, <2>2
<1> QED BY <1>1, <1>2 DEF GuestInv

\* A quiet step to an unwatched place has nothing to vouch for.
LEMMA SteadyQuiet ==
  ASSUME GuestInv, LockInv', Steady, NEW r \in Request, Quiet(r),
         req'[r].pc \notin Watched \cup UpdatePc
  PROVE  GuestInv'
<1>1. Vouched(r)'
  <2>1. req'[r].write = "none"
    BY DEF Quiet
  <2> QED BY <2>1 DEF Vouched, Watched, OpenPc
<1> QED BY <1>1, SteadyStep DEF Quiet

\* A step that touches neither table is steady.
LEMMA TablesSteady ==
  ASSUME UNCHANGED <<events, participations, invitations>>
  PROVE  Steady
BY DEF Steady, Private, Cleared, HasRow

-----------------------------------------------------------------------------
(* join *)

\* Every place but a few is unwatched and not one of update.
LEMMA UnwatchedPcs ==
  /\ {"idle", "done"} \cap (Watched \cup UpdatePc) = {}
  /\ {"join:event", "join:access", "join:count", "join:emit", "leave:event",
      "leave:delete", "leave:count", "leave:emit"} \cap (Watched \cup UpdatePc) = {}
  /\ {"create:insert", "create:emit", "remove:event", "remove:delete",
      "remove:cascade", "remove:emit"} \cap (Watched \cup UpdatePc) = {}
  /\ (InvitePc \cup MessagePc) \cap (Watched \cup UpdatePc) = {}
BY DEF Watched, UpdatePc, OpenPc, InvitePc, MessagePc

\* checkPrivateAccess is what clears a joiner, and the INSERT relies on it.
LEMMA JoinGuests ==
  ASSUME GuestInv, NEW r \in Request, Join(r)
  PROVE  GuestInv'
<1> DEFINE e == req[r].event
           u == req[r].user
<1>1. LockInv /\ LockInv' /\ TypeOK /\ Quiet(r) /\ Vouched(r)
  BY JoinLocks, JoinQuiet DEF GuestInv, LockInv
<1>2. CASE JoinEvent(r) \/ JoinAccess(r) \/ JoinCapacity(r)
  <2>1. Steady
    BY <1>2, TablesSteady DEF JoinEvent, JoinAccess, JoinCapacity, tables
  <2>2. CASE req'[r].pc \notin {"join:capacity", "join:insert"}
    <3>1. req'[r].pc \in {"done", "join:access"}
      <4>1. CASE \E status : Answer(r, status)
        BY <1>1, <4>1, AnswerPc
      <4>2. CASE JoinEvent(r) /\ ~\E status : Answer(r, status)
        <5>1. req' = [req EXCEPT ![r] = [req[r] EXCEPT
                !.pc = IF events[e].visibility = "PRIVATE"
                       THEN "join:access" ELSE "join:capacity",
                !.cap = events[e].capacity]]
          BY <4>2 DEF JoinEvent, Become
        <5> QED BY <1>1, <2>2, <5>1 DEF TypeOK, Slot
      <4>3. CASE ~JoinEvent(r) /\ ~\E status : Answer(r, status)
        <5>1. Goto(r, "join:capacity") \/ Goto(r, "join:insert")
          BY <1>2, <4>3 DEF JoinAccess, JoinCapacity
        <5> QED BY <1>1, <2>2, <5>1, GotoPc
      <4> QED BY <4>1, <4>2, <4>3
    <3> QED BY <1>1, <2>1, <3>1, UnwatchedPcs, SteadyQuiet
  <2>3. CASE req'[r].pc \in {"join:capacity", "join:insert"}
    <3>1. /\ UNCHANGED <<events, invitations>>
          /\ req'[r].event = e /\ req'[r].user = u /\ req'[r].write = "none"
      <4>1. req'[r].pc \in Serving
        BY <2>3 DEF Serving, JoinPc
      <4> QED BY <1>1, <1>2, <4>1
              DEF Quiet, JoinEvent, JoinAccess, JoinCapacity, tables
    <3>2. Private(e) => Cleared(u, e)
      <4>1. CASE JoinEvent(r)
        <5>1. ~\E status : Answer(r, status)
          BY <1>1, <2>3, AnswerPc
        <5>2. req' = [req EXCEPT ![r] = [req[r] EXCEPT
                !.pc = IF events[e].visibility = "PRIVATE"
                       THEN "join:access" ELSE "join:capacity",
                !.cap = events[e].capacity]]
          BY <4>1, <5>1 DEF JoinEvent, Become
        <5>3. events[e].visibility # "PRIVATE"
          BY <1>1, <2>3, <5>2 DEF TypeOK, Slot
        <5> QED BY <5>3 DEF Private
      <4>2. CASE JoinAccess(r)
        <5>1. ~\E status : Answer(r, status)
          BY <1>1, <2>3, AnswerPc
        <5> QED BY <4>2, <5>1 DEF JoinAccess, Cleared
      <4>3. CASE JoinCapacity(r)
        BY <1>1, <4>3 DEF JoinCapacity, At, Vouched
      <4> QED BY <1>2, <4>1, <4>2, <4>3
    <3>3. Vouched(r)'
      BY <2>3, <3>1, <3>2 DEF Vouched, Private, Cleared, OpenPc
    <3>4. req'[r].pc \notin UpdatePc
      BY <2>3 DEF UpdatePc
    <3> QED BY <1>1, <2>1, <3>3, <3>4, SteadyStep DEF Quiet
  <2> QED BY <2>2, <2>3
<1>3. CASE JoinInsert(r)
  <2>1. /\ UNCHANGED <<events, invitations>>
        /\ e \in Event /\ u \in User
        /\ Private(e) => Cleared(u, e)
    <3>1. req[r].pc \in Watched /\ req[r].pc = "join:insert"
      BY <1>3 DEF JoinInsert, At, Watched
    <3> QED BY <1>1, <1>3, <3>1, VouchedUsers DEF JoinInsert, Vouched
  <2>2. Steady
    <3>1. CASE UNCHANGED participations
      BY <2>1, <3>1, TablesSteady
    <3>2. CASE participations' = [participations EXCEPT ![e] = Append(@, u)]
      <4>1. ASSUME NEW x \in DOMAIN events, Private(x), NEW v \in User, HasRow(x, v)'
            PROVE  HasRow(x, v) \/ Cleared(v, x)
        <5>1. x \in Event
          BY <1>1 DEF TypeOK
        <5>2. CASE x # e
          BY <1>1, <3>2, <4>1, <5>1, <5>2 DEF HasRow, TypeOK
        <5>3. CASE x = e
          <6>1. /\ participations'[e] = Append(participations[e], u)
                /\ participations[e] \in Seq(User)
            BY <1>1, <2>1, <3>2 DEF TypeOK
          <6>2. v = u \/ Contains(participations[e], v)
            <7>1. PICK i \in 1..Len(participations[e])+1 :
                         Append(participations[e], u)[i] = v
              BY <4>1, <5>3, <6>1, AppendProperties DEF HasRow, Contains
            <7>2. Len(participations[e]) \in Nat
              BY <6>1, LenProperties
            <7> QED BY <6>1, <7>1, <7>2, AppendProperties DEF Contains
          <6> QED BY <2>1, <4>1, <5>3, <6>2 DEF HasRow
        <5> QED BY <5>2, <5>3
      <4> QED BY <2>1, <4>1 DEF Steady, Private, Cleared
    <3> QED BY <1>3, <3>1, <3>2 DEF JoinInsert
  <2>3. req'[r].pc \in {"done", "join:count"}
    <3>1. CASE \E status : Answer(r, status)
      BY <1>1, <3>1, AnswerPc
    <3>2. CASE Become(r, [req[r] EXCEPT !.pc = "join:count", !.cap = 0])
      BY <1>1, <3>2 DEF Become, TypeOK, Slot
    <3> QED BY <1>3, <3>1, <3>2 DEF JoinInsert
  <2> QED BY <1>1, <2>2, <2>3, UnwatchedPcs, SteadyQuiet
<1>4. CASE JoinCount(r) \/ JoinEmit(r)
  <2>1. req'[r].pc \in {"done", "join:emit"}
    <3>1. CASE \E status : Answer(r, status)
      BY <1>1, <3>1, AnswerPc
    <3>2. CASE JoinCount(r)
      BY <1>1, <3>2 DEF JoinCount, Become, TypeOK, Slot
    <3> QED BY <1>4, <3>1, <3>2 DEF JoinEmit
  <2>2. Steady
    BY <1>4, TablesSteady DEF JoinCount, JoinEmit, tables
  <2> QED BY <1>1, <2>1, <2>2, UnwatchedPcs, SteadyQuiet
<1> QED BY <1>2, <1>3, <1>4, <1>1 DEF Join

-----------------------------------------------------------------------------
(* leave *)

\* A step that only deletes rows of participations is steady.
LEMMA DeletingSteady ==
  ASSUME TypeOK, NEW e \in Event, NEW u,
         participations' = [participations EXCEPT ![e] = WithoutRow(@, u)],
         UNCHANGED invitations,
         \A x \in DOMAIN events' :
           x \in DOMAIN events /\ events'[x].visibility = events[x].visibility
                               /\ events'[x].creator = events[x].creator
  PROVE  Steady
<1>1. ASSUME NEW x \in DOMAIN events', NEW v \in User, HasRow(x, v)'
      PROVE  HasRow(x, v)
  <2>1. x \in Event
    BY DEF TypeOK
  <2>2. CASE x # e
    BY <1>1, <2>1, <2>2 DEF TypeOK, HasRow
  <2>3. CASE x = e
    <3>1. participations'[e] = WithoutRow(participations[e], u)
      BY DEF TypeOK
    <3> QED BY <1>1, <2>3, <3>1, WithoutRowOthers DEF TypeOK, HasRow
  <2> QED BY <2>2, <2>3
<1> QED BY <1>1 DEF Steady, Private, Cleared

\* leave, up to the transaction of a creator: he is the lead when he opens it.
LEMMA LeaveGuests ==
  ASSUME GuestInv, NEW r \in Request,
         LeaveEvent(r) \/ LeaveDelete(r) \/ LeaveCount(r) \/ LeaveEmit(r)
  PROVE  GuestInv'
<1> DEFINE e == req[r].event
           u == req[r].user
<1>1. LockInv /\ LockInv' /\ TypeOK /\ Quiet(r)
  BY LeaveLocks, LeaveQuiet DEF GuestInv, LockInv, Leave
<1>2. CASE LeaveEvent(r)
  <2>1. Steady
    BY <1>2, TablesSteady DEF LeaveEvent, tables
  <2>2. CASE \E status : Answer(r, status)
    BY <1>1, <2>1, <2>2, AnswerPc, UnwatchedPcs, SteadyQuiet
  <2>3. CASE /\ GetEventOrThrow(e) = OK
             /\ Goto(r, IF events[e].creator = u THEN "tx:delete" ELSE "leave:delete")
    <3>1. CASE events[e].creator # u
      BY <1>1, <2>1, <2>3, <3>1, GotoPc, UnwatchedPcs, SteadyQuiet
    <3>2. CASE events[e].creator = u
      <4>1. /\ req'[r].pc = "tx:delete" /\ req'[r].user = u /\ req'[r].event = e
            /\ req'[r].write = "none" /\ UNCHANGED <<events, invitations>>
        BY <1>1, <1>2, <2>3, <3>2, GotoPc DEF Quiet, LeaveEvent, tables
      <4>2. Vouched(r)' /\ req'[r].pc \notin UpdatePc
        BY <3>2, <4>1 DEF Vouched, UpdatePc
      <4> QED BY <1>1, <2>1, <4>2, SteadyStep DEF Quiet
    <3> QED BY <3>1, <3>2
  <2> QED BY <1>2, <2>2, <2>3 DEF LeaveEvent
<1>3. CASE LeaveDelete(r)
  <2>1. Steady
    <3>1. CASE UNCHANGED participations
      BY <1>3, <3>1, TablesSteady DEF LeaveDelete
    <3>2. CASE participations' = [participations EXCEPT ![e] = WithoutRow(@, u)]
      <4>1. e \in Event
        BY <1>1, <1>3, ServedTypes DEF LeaveDelete, At, Serving, LeavePc
      <4> QED BY <1>1, <1>3, <3>2, <4>1, DeletingSteady DEF LeaveDelete
    <3> QED BY <1>3, <3>1, <3>2 DEF LeaveDelete
  <2>2. req'[r].pc \in {"done", "leave:count"}
    BY <1>1, <1>3, AnswerPc, GotoPc DEF LeaveDelete
  <2> QED BY <1>1, <2>1, <2>2, UnwatchedPcs, SteadyQuiet
<1>4. CASE LeaveCount(r) \/ LeaveEmit(r)
  <2>1. req'[r].pc \in {"done", "leave:emit"}
    <3>1. CASE LeaveEmit(r)
      BY <1>1, <3>1, AnswerPc DEF LeaveEmit
    <3>2. CASE LeaveCount(r)
      BY <1>1, <3>2 DEF LeaveCount, Become, TypeOK, Slot
    <3> QED BY <1>4, <3>1, <3>2
  <2>2. Steady
    BY <1>4, TablesSteady DEF LeaveCount, LeaveEmit, tables
  <2> QED BY <1>1, <2>1, <2>2, UnwatchedPcs, SteadyQuiet
<1> QED BY <1>2, <1>3, <1>4

\* The transaction of handleCreatorLeave goes on knowing what it knew, as long
\* as it reads no heir.
LEMMA TxVouched ==
  ASSUME GuestInv, NEW r \in Request, req[r].pc \in OpenPc \cup {"tx:delete"},
         UNCHANGED <<events, invitations>>,
         req'[r].pc \in OpenPc,
         req'[r].event = req[r].event, req'[r].user = req[r].user,
         req'[r].pc = "tx:transfer" \/ req'[r].write = "transfer" =>
           (Private(req[r].event) => Cleared(req'[r].peer, req[r].event))
  PROVE  Vouched(r)' /\ req'[r].pc \notin UpdatePc
<1>1. Vouched(r)
  BY DEF GuestInv
<1>2. req'[r].pc \notin UpdatePc \cup {"join:capacity", "join:insert"}
  BY DEF UpdatePc, OpenPc
<1> QED BY <1>1, <1>2 DEF Vouched, Private, Cleared

\* The statements of the transaction before its commit: the heir it reads has a
\* row that is not the leaver's, so he is cleared.
LEMMA TxGuests ==
  ASSUME GuestInv, NEW r \in Request,
         TxDelete(r) \/ TxNext(r) \/ TxMessages(r) \/ TxWrite(r) \/ TxCascade(r)
  PROVE  GuestInv'
<1> DEFINE e == req[r].event
           u == req[r].user
           others == WithoutRow(participations[e], u)
<1>1. LockInv /\ LockInv' /\ TypeOK /\ Vouched(r) /\ Steady
  BY LeaveLocks, TablesSteady
     DEF GuestInv, LockInv, Leave, TxDelete, TxNext, TxMessages, TxWrite, TxCascade,
         tables
<1>2. /\ UNCHANGED <<events, invitations>>
      /\ req \in [Request -> Slot]
      /\ \A q \in Request \ {r} : req'[q] = req[q]
      /\ req[r].pc \in OpenPc \cup {"tx:delete"}
  BY <1>1 DEF TxDelete, TxNext, TxMessages, TxWrite, TxCascade, tables, At, OpenPc,
       Answer, Goto, Become, TypeOK
<1>3. CASE \E status : Answer(r, status)
  <2>1. Quiet(r) /\ req'[r].pc = "done"
    BY <1>1, <1>3, AnswerPc, AnswerQuiet
  <2> QED BY <1>1, <2>1, UnwatchedPcs, SteadyQuiet
<1>4. CASE \/ Goto(r, "tx:next") \/ Goto(r, "tx:messages")
           \/ Goto(r, "tx:deactivate") \/ Goto(r, "tx:drop")
           \/ TxCascade(r)
  <2>1. /\ req'[r].pc \in OpenPc \ {"tx:transfer"}
        /\ req'[r].event = e /\ req'[r].user = u /\ req'[r].peer = req[r].peer
        /\ req'[r].write = req[r].write
    BY <1>1, <1>4, GotoPc DEF TxCascade, OpenPc
  <2>2. Vouched(r)' /\ req'[r].pc \notin UpdatePc
    BY <1>1, <1>2, <2>1, TxVouched DEF Vouched
  <2> QED BY <1>1, <1>2, <2>2, SteadyStep
<1>5. CASE TxNext(r) /\ others # <<>>
  <2>1. /\ req'[r].pc = "tx:transfer" /\ req'[r].event = e /\ req'[r].user = u
        /\ req'[r].peer = Head(others) /\ req'[r].write = "none"
    <3>1. req[r].write = "none"
      BY <1>1, <1>5 DEF TxNext, At, TypeOK, WellFormed
    <3>2. Become(r, [req[r] EXCEPT !.pc = "tx:transfer", !.peer = Head(others)])
      BY <1>5 DEF TxNext
    <3> QED BY <1>1, <3>1, <3>2 DEF Become, TypeOK, Slot
  <2>2. e \in Event /\ req[r].pc \in OpenPc
    BY <1>1, <1>5, ServedTypes DEF TxNext, At, Serving, OpenPc
  <2>3. /\ participations[e] \in Seq(User) /\ IsInjective(participations[e])
        /\ others \in Seq(User)
    BY <1>1, <2>2, WithoutRowType DEF TypeOK
  <2>4. Contains(others, Head(others)) /\ Head(others) \in User
    BY <1>5, <2>3 DEF Contains
  <2>5. HasRow(e, Head(others)) /\ Head(others) # u
    BY <2>3, <2>4, WithoutRowOthers DEF HasRow
  <2>6. Private(e) => Cleared(Head(others), e)
    BY <1>1, <2>2, <2>4, <2>5 DEF GuestInv, GuestsWereInvited, Private, Cleared, Vouched
  <2>7. Vouched(r)' /\ req'[r].pc \notin UpdatePc
    <3>1. "tx:transfer" \in OpenPc
      BY DEF OpenPc
    <3> QED BY <1>2, <2>1, <2>6, <3>1, TxVouched
  <2> QED BY <1>1, <1>2, <2>7, SteadyStep
<1>6. CASE TxWrite(r)
  <2>1. /\ req'[r].pc \in OpenPc \ {"tx:transfer"}
        /\ req'[r].event = e /\ req'[r].user = u /\ req'[r].peer = req[r].peer
        /\ req'[r].write = "transfer" => req[r].pc = "tx:transfer"
    <3>1. CASE /\ req[r].pc = "tx:transfer"
               /\ Become(r, [req[r] EXCEPT !.pc = "tx:commit", !.write = "transfer"])
      BY <1>2, <3>1 DEF Become, Slot, OpenPc
    <3>2. CASE Become(r, [req[r] EXCEPT !.pc = "tx:commit", !.write = "deactivate"])
      BY <1>2, <3>2 DEF Become, Slot, OpenPc
    <3>3. CASE Become(r, [req[r] EXCEPT !.pc = "tx:cascade", !.write = "drop"])
      BY <1>2, <3>3 DEF Become, Slot, OpenPc
    <3> QED BY <1>6, <3>1, <3>2, <3>3 DEF TxWrite, At
  <2>2. Vouched(r)' /\ req'[r].pc \notin UpdatePc
    BY <1>1, <1>2, <2>1, TxVouched DEF Vouched
  <2> QED BY <1>1, <1>2, <2>2, SteadyStep
<1> QED BY <1>3, <1>4, <1>5, <1>6 DEF TxDelete, TxNext, TxMessages

\* The commit that hands the event over: the leaver, who alone may be there
\* uninvited, has gone, and the new lead is cleared.
LEMMA TransferGuests ==
  ASSUME GuestInv, LockInv', NEW r \in Request, TxCommit(r),
         req[r].write = "transfer"
  PROVE  GuestInv'
<1> DEFINE e == req[r].event
           u == req[r].user
           heir == req[r].peer
<1>1. /\ TypeOK /\ TypeOK' /\ Vouched(r) /\ Quiet(r)
      /\ req[r].pc = "tx:commit" /\ req[r].pc \in OpenPc
      /\ UNCHANGED invitations
  BY LeaveQuiet DEF GuestInv, LockInv, TxCommit, At, OpenPc
<1>2. /\ events' = [events EXCEPT ![e].creator = heir]
      /\ participations' = [participations EXCEPT ![e] = WithoutRow(@, u)]
      /\ Become(r, [req[r] EXCEPT !.pc = "leave:count", !.peer = Nobody,
                                  !.write = "none"])
  BY DEF TxCommit
<1>3. /\ e \in Event /\ u \in User /\ heir \in User
      /\ participations[e] \in Seq(User) /\ IsInjective(participations[e])
      /\ e \in DOMAIN events /\ events[e] \in Row
  BY <1>1, OpenTypes, VouchedUsers
     DEF InTransaction, GuestInv, LockInv, OpenTransactionHoldsRow, Exists, TypeOK
<1>4. /\ DOMAIN events' = DOMAIN events
      /\ \A x \in DOMAIN events :
           /\ events'[x].visibility = events[x].visibility
           /\ events'[x].creator = IF x = e THEN heir ELSE events[x].creator
  BY <1>1, <1>2, <1>3 DEF TypeOK, Row
<1>5. req'[r].pc = "leave:count" /\ req'[r].write = "none"
  BY <1>1, <1>2 DEF Become, TypeOK, Slot
<1>6. Private(e) => Cleared(heir, e)
  BY <1>1 DEF Vouched
<1>7. GuestsWereInvited'
  <2> SUFFICES ASSUME NEW x \in DOMAIN events', events'[x].visibility = "PRIVATE",
                      NEW v \in User, HasRow(x, v)'
               PROVE  events'[x].creator = v \/ Cleared(v, x)'
    BY DEF GuestsWereInvited, Cleared
  <2>1. Private(x) /\ x \in Event
    BY <1>1, <1>4 DEF Private, TypeOK
  <2>2. CASE x # e
    <3>1. HasRow(x, v)
      BY <1>1, <1>2, <2>1, <2>2 DEF HasRow, TypeOK
    <3> QED BY <1>1, <1>4, <2>1, <2>2, <3>1 DEF GuestInv, GuestsWereInvited, Private, Cleared
  <2>3. CASE x = e
    <3>1. participations'[e] = WithoutRow(participations[e], u)
      BY <1>1, <1>2, <1>3 DEF TypeOK
    <3>2. HasRow(e, v) /\ v # u
      BY <1>3, <2>3, <3>1, WithoutRowOthers DEF HasRow
    <3>3. events[e].creator = v \/ Cleared(v, e)
      BY <2>1, <2>3, <3>2 DEF GuestInv, GuestsWereInvited, Private, Cleared
    <3>4. events[e].creator = u \/ Cleared(events[e].creator, e)
      BY <1>1, <2>1, <2>3 DEF Vouched
    <3> QED BY <1>1, <2>3, <3>2, <3>3, <3>4 DEF Cleared
  <2> QED BY <2>2, <2>3
<1>8. ASSUME NEW q \in Request
      PROVE  req'[q].pc \notin UpdatePc /\ Vouched(q)'
  <2>1. CASE q = r
    <3>1. req'[r].pc \notin UpdatePc /\ req'[r].pc \notin Watched
      BY <1>5, UnwatchedPcs
    <3> QED BY <1>5, <2>1, <3>1 DEF Vouched, Watched, OpenPc
  <2>2. CASE q # r
    <3>1. req'[q] = req[q] /\ Vouched(q) /\ req[q].pc \notin UpdatePc
      BY <1>1, <2>2 DEF Quiet, GuestInv
    <3> DEFINE x == req[q].event
    <3> SUFFICES ASSUME x \in DOMAIN events', events'[x].visibility = "PRIVATE"
                 PROVE  Vouched(q)'
      BY <3>1 DEF Vouched, Private
    <3>2. Private(x)
      BY <1>4 DEF Private
    <3>3. /\ req[q].pc \in {"join:capacity", "join:insert"} => Cleared(req[q].user, x)
          /\ req[q].pc = "tx:transfer" \/ req[q].write = "transfer" =>
               Cleared(req[q].peer, x)
      BY <3>1, <3>2 DEF Vouched
    <3>4. req[q].pc \in OpenPc \cup {"tx:delete"} =>
            events'[x].creator = req[q].user \/ Cleared(events'[x].creator, x)
      <4>1. CASE x = e
        BY <1>4, <1>6, <3>2, <4>1 DEF Private
      <4>2. CASE x # e
        BY <1>4, <3>1, <3>2, <4>2 DEF Vouched, Private
      <4> QED BY <4>1, <4>2
    <3> QED BY <1>1, <3>1, <3>3, <3>4 DEF Vouched, Cleared
  <2> QED BY <2>1, <2>2
<1> QED BY <1>7, <1>8 DEF GuestInv

\* The other commits remove the event or close it under the lead it has.
LEMMA CommitGuests ==
  ASSUME GuestInv, NEW r \in Request, TxCommit(r)
  PROVE  GuestInv'
<1> DEFINE e == req[r].event
<1>1. /\ LockInv /\ LockInv' /\ TypeOK /\ Quiet(r)
      /\ req[r].pc \in OpenPc
  BY LeaveLocks, LeaveQuiet DEF GuestInv, LockInv, Leave, TxCommit, At, OpenPc
<1>2. CASE req[r].write = "transfer"
  BY <1>1, <1>2, TransferGuests
<1>3. CASE req[r].write # "transfer"
  <2>1. req'[r].pc \notin Watched \cup UpdatePc
    <3>1. Answer(r, OK)
      BY <1>3 DEF TxCommit
    <3> QED BY <1>1, <3>1, AnswerPc, UnwatchedPcs
  <2>2. Steady
    <3>1. CASE req[r].write = "drop"
      <4>1. DeleteEvent(e)
        BY <3>1 DEF TxCommit
      <4> QED BY <1>1, <4>1 DEF DeleteEvent, Steady, Private, Cleared, HasRow, TypeOK
    <3>2. CASE req[r].write = "deactivate"
      <4>1. /\ events' = [events EXCEPT ![e].active = FALSE]
            /\ participations' = [participations EXCEPT ![e] = WithoutRow(@, req[r].user)]
            /\ UNCHANGED invitations
        BY <3>2 DEF TxCommit
      <4>2. \A x \in DOMAIN events' :
              x \in DOMAIN events /\ events'[x].visibility = events[x].visibility
                                  /\ events'[x].creator = events[x].creator
        BY <1>1, <4>1 DEF TypeOK, Row
      <4>3. e \in Event
        BY <1>1, OpenTypes DEF InTransaction
      <4> QED BY <1>1, <4>1, <4>2, <4>3, DeletingSteady
    <3> QED BY <1>3, <3>1, <3>2 DEF TxCommit
  <2> QED BY <1>1, <2>1, <2>2, SteadyQuiet
<1> QED BY <1>2, <1>3

-----------------------------------------------------------------------------
(* The other handlers *)

\* create: a new event has its creator's row alone, and no other request knows
\* of it.
LEMMA CreateGuests ==
  ASSUME GuestInv, NEW r \in Request, Create(r)
  PROVE  GuestInv'
<1> DEFINE e == req[r].event
           u == req[r].user
<1>1. LockInv /\ LockInv' /\ TypeOK /\ TypeOK' /\ Quiet(r)
  BY CreateLocks, EventsQuiet DEF GuestInv, LockInv
<1>2. CASE CreateEmit(r)
  BY <1>1, <1>2, AnswerPc, TablesSteady, UnwatchedPcs, SteadyQuiet
     DEF CreateEmit, tables
<1>3. CASE CreateInsert(r)
  <2>1. /\ req[r].pc = "create:insert" /\ req[r].pc \in Serving
        /\ e \in Event /\ u \in User
        /\ req'[r].pc = "create:emit" /\ req'[r].write = "none"
        /\ UNCHANGED invitations
    BY <1>1, <1>3, ServedTypes, GotoPc
       DEF CreateInsert, At, Serving, EventPc, Quiet
  <2>2. /\ participations' = [participations EXCEPT ![e] = <<u>>]
        /\ DOMAIN events' = DOMAIN events \cup {e}
        /\ events'[e].creator = u
        /\ \A x \in DOMAIN events : x # e => events'[x] = events[x]
    BY <1>3 DEF CreateInsert
  <2>3. GuestsWereInvited'
    <3> SUFFICES ASSUME NEW x \in DOMAIN events', events'[x].visibility = "PRIVATE",
                        NEW v \in User, HasRow(x, v)'
                 PROVE  events'[x].creator = v \/ Cleared(v, x)'
      BY DEF GuestsWereInvited, Cleared
    <3>1. CASE x = e
      <4>1. participations'[x] = <<u>>
        BY <1>1, <2>1, <2>2, <3>1 DEF TypeOK
      <4>2. v = u
        BY <4>1 DEF HasRow, Contains
      <4> QED BY <2>2, <3>1, <4>2
    <3>2. CASE x # e
      <4>1. x \in DOMAIN events /\ events'[x] = events[x] /\ HasRow(x, v)
        BY <1>1, <2>2, <3>2 DEF HasRow, TypeOK
      <4> QED BY <2>1, <4>1 DEF GuestInv, GuestsWereInvited, Cleared
    <3> QED BY <3>1, <3>2
  <2>4. ASSUME NEW q \in Request
        PROVE  req'[q].pc \notin UpdatePc /\ Vouched(q)'
    <3>1. CASE q = r
      <4>1. req'[r].pc \notin UpdatePc /\ req'[r].pc \notin Watched
        BY <2>1, UnwatchedPcs
      <4> QED BY <2>1, <3>1, <4>1 DEF Vouched, Watched, OpenPc
    <3>2. CASE q # r
      <4>1. req'[q] = req[q] /\ Vouched(q) /\ req[q].pc \notin UpdatePc
        BY <1>1, <3>2 DEF Quiet, GuestInv
      <4>2. CASE req[q].pc \in Serving
        <5>1. req[q].event # e
          BY <1>1, <2>1, <3>2, <4>2 DEF LockInv, DrawnOnce, At
        <5>2. \/ req[q].event \notin DOMAIN events'
              \/ /\ req[q].event \in DOMAIN events
                 /\ events'[req[q].event] = events[req[q].event]
          BY <2>2, <5>1
        <5> QED BY <2>1, <4>1, <5>2 DEF Vouched, Private, Cleared
      <4>3. CASE req[q].pc \notin Serving
        <5>1. req[q].pc \notin Watched /\ req[q].write = "none"
          <6>1. Watched \cup {"tx:cascade", "tx:commit"} \subseteq Serving
            BY DEF Watched, Serving, JoinPc, OpenPc
          <6> QED BY <1>1, <4>3, <6>1 DEF TypeOK, WellFormed
        <5> QED BY <4>1, <5>1 DEF Vouched, Watched, OpenPc
      <4> QED BY <4>1, <4>2, <4>3
    <3> QED BY <3>1, <3>2
  <2> QED BY <1>1, <2>3, <2>4 DEF GuestInv
<1> QED BY <1>2, <1>3 DEF Create

\* remove: an event that goes takes its promise with it.
LEMMA RemovalGuests ==
  ASSUME GuestInv, NEW r \in Request, Removal(r)
  PROVE  GuestInv'
<1>1. LockInv /\ LockInv' /\ TypeOK
  BY RemovalLocks DEF GuestInv, LockInv
<1>2. req'[r].pc \in {"done", "remove:delete", "remove:cascade", "remove:emit"}
  BY <1>1, AnswerPc, GotoPc
     DEF Removal, RemoveEvent, RemoveDelete, RemoveCascade, RemoveEmit
<1>3. Steady
  <2>1. CASE RemoveCascade(r)
    BY <1>1, <2>1
       DEF RemoveCascade, DeleteEvent, Steady, Private, Cleared, HasRow, TypeOK
  <2>2. CASE ~RemoveCascade(r)
    BY <2>2, TablesSteady
       DEF Removal, RemoveEvent, RemoveDelete, RemoveEmit, tables
  <2> QED BY <2>1, <2>2
<1>4. Vouched(r)' /\ \A q \in Request \ {r} : req'[q] = req[q]
  <2>1. /\ req'[r].write = "none"
        /\ \A q \in Request \ {r} : req'[q] = req[q]
    <3>1. CASE RemoveDelete(r)
      <4>1. req[r].write = "none" /\ \E pc : Goto(r, pc)
        BY <1>1, <3>1 DEF RemoveDelete, At, TypeOK, WellFormed
      <4> QED BY <1>1, <4>1, GotoPc
    <3>2. CASE ~RemoveDelete(r)
      BY <1>1, <3>2, EventsQuiet DEF Removal, Quiet
    <3> QED BY <3>1, <3>2
  <2>2. req'[r].pc \notin Watched
    BY <1>2, UnwatchedPcs
  <2> QED BY <2>1, <2>2 DEF Vouched, Watched, OpenPc
<1> QED BY <1>1, <1>2, <1>3, <1>4, UnwatchedPcs, SteadyStep

\* invite writes where there is no invitation, and updateStatus an answer: who
\* is cleared stays so.
LEMMA InvitationGuests ==
  ASSUME GuestInv, NEW r \in Request, Invite(r) \/ AnswerInvitation(r)
  PROVE  GuestInv'
<1> DEFINE e == req[r].event
<1>1. LockInv /\ LockInv' /\ TypeOK /\ Quiet(r)
  BY InvitationLocks, OthersQuiet DEF GuestInv, LockInv
<1>2. req'[r].pc \in {"done", "invite:insert", "answer:write"}
  <2>1. CASE \E status : Answer(r, status)
    BY <1>1, <2>1, AnswerPc
  <2>2. CASE Goto(r, "answer:write")
    BY <1>1, <2>2, GotoPc
  <2>3. CASE \E u : Become(r, [req[r] EXCEPT !.pc = "invite:insert", !.peer = u])
    <3>1. PICK u : req' = [req EXCEPT ![r] =
                             [req[r] EXCEPT !.pc = "invite:insert", !.peer = u]]
      BY <2>3 DEF Become
    <3> QED BY <1>1, <3>1 DEF TypeOK, Slot
  <2> QED BY <2>1, <2>2, <2>3
          DEF Invite, InviteEvent, InviteInsert, AnswerInvitation, AnswerRead, AnswerWrite
<1>3. Steady
  <2>1. UNCHANGED <<events, participations>>
    BY DEF Invite, InviteEvent, InviteInsert, AnswerInvitation, AnswerRead,
           AnswerWrite, tables
  <2>2. CASE UNCHANGED invitations
    BY <2>1, <2>2, TablesSteady
  <2>3. CASE InviteInsert(r) /\ invitations' # invitations
    <3>1. /\ invitations' = [invitations EXCEPT ![e][req[r].peer] = "PENDING"]
          /\ ~Cleared(req[r].peer, e)
      BY <2>3 DEF InviteInsert, Cleared
    <3> QED BY <1>1, <2>1, <3>1 DEF Steady, Private, Cleared, HasRow, TypeOK
  <2>4. CASE AnswerWrite(r) /\ invitations' # invitations
    <3>1. PICK status \in {"ACCEPTED", "DECLINED"} :
            invitations' = [invitations EXCEPT ![e][req[r].user] = status]
      BY <2>4 DEF AnswerWrite
    <3> QED BY <1>1, <2>1, <3>1 DEF Steady, Private, Cleared, HasRow, TypeOK
  <2> QED BY <2>2, <2>3, <2>4
          DEF Invite, InviteEvent, InviteInsert, AnswerInvitation, AnswerRead,
              AnswerWrite, tables
<1> QED BY <1>1, <1>2, <1>3, UnwatchedPcs, SteadyQuiet DEF InvitePc

\* saveMessage and the ends of a request change none of these tables.
LEMMA OthersGuests ==
  ASSUME GuestInv, NEW r \in Request,
         Message(r) \/ Release(r) \/ StatementFails(r) \/ DeadlockAbort(r)
  PROVE  GuestInv'
<1>1. LockInv /\ LockInv' /\ TypeOK /\ Quiet(r)
  <2>1. LockInv'
    BY LocksNext DEF GuestInv, Next, Serve
  <2> QED BY <2>1, OthersQuiet DEF GuestInv, LockInv
<1>2. Steady
  BY TablesSteady
     DEF Message, MessageEvent, MessageCreator, MessageParticipant, MessageInsert,
         Release, StatementFails, DeadlockAbort, tables
<1>3. req'[r].pc \in {"done", "idle"} \cup MessagePc
  <2>1. CASE Release(r)
    BY <1>1, <2>1 DEF Release, Become, Idle, TypeOK
  <2>2. CASE Message(r)
    BY <1>1, <2>2, AnswerPc, GotoPc
       DEF Message, MessageEvent, MessageCreator, MessageParticipant, MessageInsert,
           MessagePc
  <2>3. CASE StatementFails(r) \/ DeadlockAbort(r)
    BY <1>1, <2>3, AnswerPc DEF StatementFails, DeadlockAbort
  <2> QED BY <2>1, <2>2, <2>3
<1> QED BY <1>1, <1>2, <1>3, UnwatchedPcs, SteadyQuiet

\* No call that begins is one of update, or beyond its first place.
LEMMA BeginGuests ==
  ASSUME GuestInv, NEW r \in Request, Begin(r) \/ BeginCreate(r)
  PROVE  GuestInv'
<1>1. LockInv /\ LockInv' /\ TypeOK
  BY BeginLocks DEF GuestInv, LockInv
<1>2. Steady
  BY TablesSteady DEF Begin, BeginCreate, tables
<1>3. PICK pc, u, e :
        /\ req' = [req EXCEPT ![r] = [Idle EXCEPT !.pc = pc, !.user = u, !.event = e]]
        /\ pc \notin Watched \cup UpdatePc
  <2>1. CASE Begin(r)
    <3>1. PICK op \in Operation \cap DOMAIN FirstPc, u \in User, e \in Known :
            Become(r, [Idle EXCEPT !.pc = FirstPc[op], !.user = u, !.event = e])
      BY <2>1 DEF Begin
    <3>2. op \in {"join", "leave", "remove", "invite", "answer", "message"}
      BY DEF FirstPc, GuestInv
    <3>3. FirstPc[op] \notin Watched \cup UpdatePc
      BY <3>2, UnwatchedPcs DEF FirstPc, InvitePc, MessagePc
    <3> QED BY <3>1, <3>3 DEF Become
  <2>2. CASE BeginCreate(r)
    <3>1. PICK u \in User, e \in Event \ spent :
            Become(r, [Idle EXCEPT !.pc = "create:insert", !.user = u, !.event = e])
      BY <2>2 DEF BeginCreate
    <3> QED BY <3>1, UnwatchedPcs DEF Become
  <2> QED BY <2>1, <2>2
<1>4. /\ req'[r].pc = pc /\ req'[r].write = "none"
      /\ \A q \in Request \ {r} : req'[q] = req[q]
  BY <1>1, <1>3, IdleType DEF Idle, Slot, TypeOK
<1>5. Vouched(r)'
  BY <1>3, <1>4 DEF Vouched, Watched, OpenPc
<1> QED BY <1>1, <1>2, <1>3, <1>4, <1>5, SteadyStep

-----------------------------------------------------------------------------
(* The theorem *)

\* Every step keeps the invariant.
LEMMA GuestsNext == GuestInv /\ [Next]_vars => GuestInv'
<1> SUFFICES ASSUME GuestInv, [Next]_vars PROVE GuestInv'
  OBVIOUS
<1>1. CASE UNCHANGED vars
  <2>1. LockInv'
    BY LocksNext DEF GuestInv
  <2> QED BY <1>1, <2>1 DEF GuestInv, GuestsWereInvited, Vouched, Private, Cleared,
               HasRow, vars, tables
<1>2. ASSUME NEW r \in Request, Update(r)
      PROVE  FALSE
  BY <1>2 DEF Update, UpdateEvent, UpdateScalars, UpdateLocation, UpdateReread,
       UpdateEmit, At, GuestInv, UpdatePc
<1>3. ASSUME NEW r \in Request, Leave(r)
      PROVE  GuestInv'
  BY <1>3, LeaveGuests, TxGuests, CommitGuests DEF Leave
<1> QED BY <1>1, <1>2, <1>3, JoinGuests, CreateGuests, RemovalGuests,
           InvitationGuests, OthersGuests, BeginGuests DEF Next, Serve

\* Whoever attends a private event without leading it has accepted an invitation
\* to it, whatever joins, leaves, answers, failures and hand-overs interleave, as
\* long as no client calls PATCH /events/:id, which may close an event to people
\* who attend it already.
THEOREM GuestsInvited ==
  "update" \notin Operation => (Spec => []GuestsWereInvited)
<1>1. "update" \notin Operation /\ TablesInit => GuestInv
  <2> SUFFICES ASSUME "update" \notin Operation, TablesInit PROVE GuestInv
    OBVIOUS
  <2>1. LockInv /\ DOMAIN events = {}
    BY LocksInit DEF TablesInit
  <2>2. \A r \in Request : req[r].pc = "idle" /\ req[r].write = "none"
    BY DEF TablesInit, Idle
  <2> QED BY <2>1, <2>2, UnwatchedPcs, UnwatchedVouched DEF GuestInv, GuestsWereInvited
<1>2. GuestInv => GuestsWereInvited
  BY DEF GuestInv
<1> QED BY <1>1, <1>2, GuestsNext, PTL DEF Spec
=============================================================================
