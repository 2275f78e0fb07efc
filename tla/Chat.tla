-------------------------------- MODULE Chat ---------------------------------
(***************************************************************************)
(* The chat of one event: MessagesGateway's room, the messages it stores and *)
(* broadcasts, and the pages of MessagesService.getHistory.                 *)
(*                                                                         *)
(* created_at is now() when the INSERT starts, in the clock's unit;          *)
(* toISOString keeps whole milliseconds of it, and a client sends the last    *)
(* createdAt it has as the cursor of its next page (messages.service.ts:19).  *)
(***************************************************************************)
EXTENDS Integers, SequencesExt, FiniteSetsExt

CONSTANTS
  User,         \* the users, each with one socket
  Limit,        \* the messages of a page
  Millisecond,  \* the clock's ticks in a millisecond
  MaxClock,     \* when the clock stops
  MaxMessages   \* how many messages may be sent

ASSUME LimitAssumption == Limit \in Nat \ {0}
ASSUME ClockAssumption == Millisecond \in Nat \ {0} /\ MaxClock \in Nat
ASSUME MessagesAssumption == MaxMessages \in Nat

VARIABLES
  clock,    \* PostgreSQL's now()
  members,  \* the users assertParticipant lets pass
  stored,   \* the rows of messages, once visible
  sending,  \* each user's chat:send in flight
  drawn,    \* how many messages have been given an id
  online,   \* the users whose socket has been let in
  room,     \* the users whose socket is in the room chat:<id>
  heard,    \* the messages each user's socket has received
  reading   \* each user's walk through the history

vars == <<clock, members, stored, sending, drawn, online, room, heard, reading>>

Id == 1..MaxMessages
Time == 0..MaxClock
Row == [id : Id, at : Time]

Send    == [pc : {"idle", "check", "insert", "saving", "emit"},
            id : Id \cup {0}, at : Time]
Reading == [pc : {"idle", "check", "select", "done", "refused"},
            pages : Seq(SUBSET Row)]

NotSending == [pc |-> "idle", id |-> 0, at |-> 0]
NotReading == [pc |-> "idle", pages |-> <<>>]

Sends(u, pc)     == sending[u].pc = pc
SendGoto(u, pc)  == sending' = [sending EXCEPT ![u].pc = pc]
Reads(u, pc)     == reading[u].pc = pc
ReadGoto(u, pc)  == reading' = [reading EXCEPT ![u].pc = pc]

-----------------------------------------------------------------------------
(* The gateway's sockets and its room. *)

\* handleConnection lets a valid token in; without one it disconnects.
HandleConnection(u) ==
  /\ u \notin online
  /\ online' = online \cup {u}
  /\ UNCHANGED <<clock, members, stored, sending, drawn, room, heard, reading>>

\* A socket that disconnects leaves its rooms; its client forgets what it has.
Disconnect(u) ==
  /\ u \in online
  /\ online' = online \ {u}
  /\ room' = room \ {u}
  /\ heard' = [heard EXCEPT ![u] = {}]
  /\ reading' = [reading EXCEPT ![u] = NotReading]
  /\ UNCHANGED <<clock, members, stored, sending, drawn>>

\* chat:join, which checks nothing
HandleJoinRoom(u) ==
  /\ u \in online
  /\ room' = room \cup {u}
  /\ UNCHANGED <<clock, members, stored, sending, drawn, online, heard, reading>>

\* chat:leave; the client no longer follows the chat.
HandleLeaveRoom(u) ==
  /\ u \in room
  /\ room' = room \ {u}
  /\ heard' = [heard EXCEPT ![u] = {}]
  /\ reading' = [reading EXCEPT ![u] = NotReading]
  /\ UNCHANGED <<clock, members, stored, sending, drawn, online>>

\* join and leave of the event.  kickFromChat, which follows a leave, reads
\* this.server.sockets.sockets; in a namespace that is undefined, and the call
\* throws before any socket has left the room.
Participate(u) ==
  /\ members' = IF u \in members THEN members \ {u} ELSE members \cup {u}
  /\ UNCHANGED <<clock, stored, sending, drawn, online, room, heard, reading>>

-----------------------------------------------------------------------------
(* chat:send *)

HandleSendMessage(u) ==
  /\ u \in online
  /\ Sends(u, "idle")
  /\ SendGoto(u, "check")
  /\ UNCHANGED <<clock, members, stored, drawn, online, room, heard, reading>>

\* assertParticipant; an error is logged and the client hears nothing of it.
SendCheck(u) ==
  /\ Sends(u, "check")
  /\ SendGoto(u, IF u \in members THEN "insert" ELSE "idle")
  /\ UNCHANGED <<clock, members, stored, drawn, online, room, heard, reading>>

\* A mutant: the message is broadcast and not awaited to be stored.
SendInsertUnawaited(u) ==
  /\ Sends(u, "insert")
  /\ drawn < MaxMessages
  /\ drawn' = drawn + 1
  /\ sending' = [sending EXCEPT ![u] =
       [pc |-> "saving", id |-> drawn', at |-> clock]]
  /\ heard' = [v \in User |->
       IF v \in room THEN heard[v] \cup {drawn'} ELSE heard[v]]
  /\ UNCHANGED <<clock, members, stored, online, room, reading>>

\* The INSERT starts, and reads the clock, before its row can be seen.
SendInsert(u) ==
  /\ Sends(u, "insert")
  /\ drawn < MaxMessages
  /\ drawn' = drawn + 1
  /\ sending' = [sending EXCEPT ![u] =
       [pc |-> "saving", id |-> drawn', at |-> clock]]
  /\ UNCHANGED <<clock, members, stored, online, room, heard, reading>>

SendSaved(u) ==
  /\ Sends(u, "saving")
  /\ stored' = stored \cup {[id |-> sending[u].id, at |-> sending[u].at]}
  /\ SendGoto(u, "emit")
  /\ UNCHANGED <<clock, members, drawn, online, room, heard, reading>>

\* A mutant: client.to(room), which leaves the sender out.
SendEmitToOthers(u) ==
  /\ Sends(u, "emit")
  /\ heard' = [v \in User |->
       IF v \in room \ {u} THEN heard[v] \cup {sending[u].id} ELSE heard[v]]
  /\ sending' = [sending EXCEPT ![u] = NotSending]
  /\ UNCHANGED <<clock, members, stored, drawn, online, room, reading>>

\* this.server.to(room).emit
SendEmit(u) ==
  /\ Sends(u, "emit")
  /\ heard' = [v \in User |->
       IF v \in room THEN heard[v] \cup {sending[u].id} ELSE heard[v]]
  /\ sending' = [sending EXCEPT ![u] = NotSending]
  /\ UNCHANGED <<clock, members, stored, drawn, online, room, reading>>

-----------------------------------------------------------------------------
(* getHistory *)

\* toISOString
Truncate(t) == t - (t % Millisecond)

Oldest(page) == CHOOSE m \in page : \A n \in page : m.at <= n.at

\* The cursor of the next page, and of the first one: none, later than all.
Cursor(pages) == IF pages = <<>> THEN MaxClock + 1
                 ELSE Truncate(Oldest(Last(pages)).at)

\* A mutant: created_at <= $3.
IsBeforeOrAt(m, cursor) == m.at <= cursor

\* created_at < $3
IsBefore(m, cursor) == m.at < cursor

\* A mutant: no LIMIT.
IsPageUnlimited(page, rows) == page = rows

\* ORDER BY created_at DESC LIMIT $2: rows of one date come in any order.
IsPage(page, rows) ==
  /\ page \subseteq rows
  /\ Cardinality(page) = IF Cardinality(rows) < Limit THEN Cardinality(rows)
                         ELSE Limit
  /\ \A m \in page, n \in rows \ page : n.at <= m.at

\* A client in the room asks for the first page.
GetHistory(u) ==
  /\ u \in room
  /\ Reads(u, "idle")
  /\ ReadGoto(u, "check")
  /\ UNCHANGED <<clock, members, stored, sending, drawn, online, room, heard>>

HistoryCheck(u) ==
  /\ Reads(u, "check")
  /\ ReadGoto(u, IF u \in members THEN "select" ELSE "refused")
  /\ UNCHANGED <<clock, members, stored, sending, drawn, online, room, heard>>

\* fetchMessages.  A full page makes the client ask for another.
FetchMessages(u) ==
  LET pages == reading[u].pages
      rows  == {m \in stored : IsBefore(m, Cursor(pages))}
  IN  /\ Reads(u, "select")
      /\ \E page \in SUBSET rows :
           /\ IsPage(page, rows)
           /\ reading' = [reading EXCEPT ![u] =
                [pc |-> IF Cardinality(page) < Limit THEN "done" ELSE "check",
                 pages |-> IF page = {} THEN pages ELSE Append(pages, page)]]
      /\ UNCHANGED <<clock, members, stored, sending, drawn, online, room, heard>>

Tick ==
  /\ clock < MaxClock
  /\ clock' = clock + 1
  /\ UNCHANGED <<members, stored, sending, drawn, online, room, heard, reading>>

-----------------------------------------------------------------------------
Init ==
  /\ clock = 0
  /\ members = {}
  /\ stored = {}
  /\ sending = [u \in User |-> NotSending]
  /\ drawn = 0
  /\ online = {}
  /\ room = {}
  /\ heard = [u \in User |-> {}]
  /\ reading = [u \in User |-> NotReading]

Socket(u) == \/ HandleConnection(u) \/ Disconnect(u)
             \/ HandleJoinRoom(u) \/ HandleLeaveRoom(u)

SendMessage(u) == \/ HandleSendMessage(u) \/ SendCheck(u) \/ SendInsert(u)
                  \/ SendSaved(u) \/ SendEmit(u)

ReadHistory(u) == GetHistory(u) \/ HistoryCheck(u) \/ FetchMessages(u)

Next == \/ \E u \in User : \/ Socket(u) \/ Participate(u)
                           \/ SendMessage(u) \/ ReadHistory(u)
        \/ Tick

Spec == Init /\ [][Next]_vars

-----------------------------------------------------------------------------
(* Properties *)

\* Every variable has its type, a page holds Limit messages at the most, and
\* only sockets let in are in the room.
TypeOK ==
  /\ clock \in Time
  /\ members \subseteq User /\ online \subseteq User /\ room \subseteq online
  /\ stored \subseteq Row
  /\ sending \in [User -> Send]
  /\ drawn \in 0..MaxMessages
  /\ heard \in [User -> SUBSET Id]
  /\ \A u \in User :
       /\ reading[u].pc \in {"idle", "check", "select", "done", "refused"}
       /\ \A i \in DOMAIN reading[u].pages :
            /\ reading[u].pages[i] \subseteq stored
            /\ Cardinality(reading[u].pages[i]) \in 1..Limit

\* What the room hears can be read in the history from then on.
HeardIsStored == \A u \in User : heard[u] \subseteq {m.id : m \in stored}

\* Each page is older than the one before, whatever is stored meanwhile: no
\* message comes twice, and a walk through the history goes back in time.
PagesDescend ==
  \A u \in User : \A i, j \in DOMAIN reading[u].pages : i < j =>
    \A m \in reading[u].pages[i], n \in reading[u].pages[j] : n.at < m.at

\* The messages of the walk, and those it has stepped over: of the same
\* millisecond as the last message of a full page.
Got(u)     == UNION Range(reading[u].pages)
Skipped(u) == {m \in stored : \E i \in DOMAIN reading[u].pages :
                 Truncate(m.at) = Truncate(Oldest(reading[u].pages[i]).at)}
\* The messages whose broadcast is yet to come.
Pending    == {sending[u].id : u \in {v \in User : Sends(v, "emit")}}

\* A client that enters the room before it walks through the history misses no
\* message between the two: it has read it, heard it or is about to hear it,
\* unless the cursor has stepped over it.
NothingMissed ==
  \A u \in User : Reads(u, "done") =>
    \A m \in stored : \/ m \in Got(u) \cup Skipped(u)
                      \/ m.id \in heard[u] \cup Pending
=============================================================================
