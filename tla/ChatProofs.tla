----------------------------- MODULE ChatProofs ------------------------------
(***************************************************************************)
(* What holds of Chat for any number of users and messages, any length of a  *)
(* page and any clock.                                                     *)
(***************************************************************************)
EXTENDS Chat, SequenceTheorems, FiniteSetTheorems, WellFoundedInduction, TLAPS

-----------------------------------------------------------------------------
(* Dates *)

\* A set of natural numbers has a least one.
LEMMA LeastTime ==
  ASSUME NEW T, T \subseteq Nat, T # {}
  PROVE  \E t \in T : \A s \in T : t <= s
<1> DEFINE R == OpToRel(<, Nat)
<1>1. IsWellFoundedOn(R, Nat)
  BY NatLessThanWellFounded
<1>2. PICK t \in T : \A s \in T : <<s, t>> \notin R
  <2> HIDE DEF R
  <2> QED BY <1>1, WFMin
<1>3. t \in Nat /\ \A s \in T : s \in Nat /\ ~(s < t)
  BY <1>2 DEF OpToRel
<1> HIDE DEF R
<1> QED BY <1>3

\* A page that is not empty has an oldest message.
LEMMA OldestOfPage ==
  ASSUME NEW page, page \subseteq Row, page # {}
  PROVE  Oldest(page) \in page /\ \A n \in page : Oldest(page).at <= n.at
<1> DEFINE T == {m.at : m \in page}
<1>1. T \subseteq Nat /\ T # {}
  BY DEF Row, Time
<1>2. PICK t \in T : \A s \in T : t <= s
  <2> HIDE DEF T
  <2> QED BY <1>1, LeastTime
<1>3. \E m \in page : \A n \in page : m.at <= n.at
  BY <1>2
<1> QED BY <1>3 DEF Oldest

\* A date not later than t is before t truncated, or of the same millisecond.
LEMMA TruncatedOrder ==
  ASSUME NEW s \in Nat, NEW t \in Nat, s <= t
  PROVE  /\ Truncate(t) <= t
         /\ s < Truncate(t) \/ Truncate(s) = Truncate(t)
<1>1. \A n \in Nat : /\ n % Millisecond \in 0..(Millisecond - 1)
                     /\ n \div Millisecond \in Int
                     /\ n = (Millisecond * (n \div Millisecond)) + (n % Millisecond)
  BY ClockAssumption
<1>2. PICK q \in Int, p \in Int, a \in 0..(Millisecond - 1), b \in 0..(Millisecond - 1) :
        /\ t = (Millisecond * q) + a /\ a = t % Millisecond
        /\ s = (Millisecond * p) + b /\ b = s % Millisecond
  BY <1>1
<1>3. Millisecond * q \in Int /\ Millisecond * p \in Int /\ Millisecond \in Int
  BY ClockAssumption
<1>4. Truncate(t) = Millisecond * q /\ Truncate(s) = Millisecond * p
  BY <1>2, <1>3 DEF Truncate
<1>5. CASE p = q
  BY <1>2, <1>3, <1>4, <1>5
<1>6. CASE p < q
  <2>1. PICK k \in Nat : q = p + 1 + k
    BY <1>6
  <2>2. /\ Millisecond * q = (Millisecond * p) + Millisecond + (Millisecond * k)
        /\ Millisecond * k \in Nat
    BY <2>1, ClockAssumption
  <2> QED BY <1>2, <1>3, <1>4, <2>2, ClockAssumption
<1>7. CASE q < p
  <2>1. PICK k \in Nat : p = q + 1 + k
    BY <1>7
  <2>2. /\ Millisecond * p = (Millisecond * q) + Millisecond + (Millisecond * k)
        /\ Millisecond * k \in Nat
    BY <2>1, ClockAssumption
  <2> QED BY <1>2, <1>3, <1>4, <2>2, ClockAssumption
<1> QED BY <1>5, <1>6, <1>7

-----------------------------------------------------------------------------
(* A walk through the history *)

\* The cursor steps over m: it is of the millisecond of a page's oldest message.
SteppedOver(m, pages) ==
  \E i \in DOMAIN pages : Truncate(m.at) = Truncate(Oldest(pages[i]).at)

\* A walk w, when rows are stored and its client has heard, or will hear, ids:
\* the cursor is not later than any message it has, and each message is still to
\* come, or it has it, has heard it or has stepped over it.
WalkOK(w, rows, ids) ==
  /\ w \in Reading
  /\ w.pc = "idle" => w.pages = <<>>
  /\ \A i \in DOMAIN w.pages :
       /\ w.pages[i] \subseteq rows /\ Cardinality(w.pages[i]) \in 1..Limit
       /\ \A m \in w.pages[i] : Cursor(w.pages) <= m.at
  /\ \A i, j \in DOMAIN w.pages : i < j =>
       \A m \in w.pages[i], n \in w.pages[j] : n.at < m.at
  /\ \A m \in rows : \/ w.pc # "done" /\ IsBefore(m, Cursor(w.pages))
                     \/ m \in UNION Range(w.pages)
                     \/ SteppedOver(m, w.pages)
                     \/ m.id \in ids

\* A client that has asked for nothing.
LEMMA WalkNotBegun ==
  ASSUME NEW rows, rows \subseteq Row, NEW ids,
         NEW w \in Reading, w.pages = <<>>, w.pc # "done"
  PROVE  WalkOK(w, rows, ids)
<1>1. Cursor(w.pages) = MaxClock + 1 /\ DOMAIN w.pages = {}
  BY DEF Cursor
<1>2. \A m \in rows : m.at < MaxClock + 1
  BY ClockAssumption DEF Row, Time
<1> QED BY <1>1, <1>2 DEF WalkOK, IsBefore

\* A walk goes on while messages are stored, if its client is to hear of them.
LEMMA WalkKept ==
  ASSUME NEW w, NEW rows, NEW ids, WalkOK(w, rows, ids),
         NEW rows2, rows \subseteq rows2, rows2 \subseteq Row,
         NEW ids2, w.pc = "idle" \/ ids \subseteq ids2,
         \A m \in rows2 \ rows : m.id \in ids2
  PROVE  WalkOK(w, rows2, ids2)
<1>1. CASE w.pc = "idle"
  BY <1>1, WalkNotBegun DEF WalkOK
<1>2. CASE w.pc # "idle"
  BY <1>2 DEF WalkOK
<1> QED BY <1>1, <1>2

\* A walk at another place, with what it has.
LEMMA WalkMoves ==
  ASSUME NEW w, NEW rows, NEW ids, WalkOK(w, rows, ids), w.pc # "done",
         NEW pc \in {"check", "select", "refused"}, NEW w2,
         w2 = [w EXCEPT !.pc = pc]
  PROVE  WalkOK(w2, rows, ids)
<1>1. w2 \in Reading /\ w2.pc = pc /\ w2.pages = w.pages
  BY DEF WalkOK, Reading
<1> QED BY <1>1 DEF WalkOK

\* A page is older than what the walk has, and leaves nothing out but what the
\* next cursor steps over.
LEMMA WalkFetches ==
  ASSUME NEW w, NEW rows, NEW ids, WalkOK(w, rows, ids), w.pc # "done",
         rows \subseteq Row, IsFiniteSet(rows),
         NEW before, before = {m \in rows : IsBefore(m, Cursor(w.pages))},
         NEW page, IsPage(page, before),
         NEW w2,
         w2 = [pc |-> IF Cardinality(page) < Limit THEN "done" ELSE "check",
               pages |-> IF page = {} THEN w.pages ELSE Append(w.pages, page)]
  PROVE  WalkOK(w2, rows, ids)
<1>1. /\ before \subseteq rows /\ page \subseteq before
      /\ IsFiniteSet(before) /\ IsFiniteSet(page)
      /\ Cardinality(before) \in Nat /\ Cardinality(page) \in Nat
      /\ Cardinality(page) = Cardinality(before) => page = before
      /\ page = {} <=> Cardinality(page) = 0
  BY FS_Subset, FS_CardinalityType, FS_EmptySet DEF IsPage
<1>2. Cardinality(page) < Limit => page = before
  BY <1>1, LimitAssumption DEF IsPage
<1>3. Cardinality(page) <= Limit /\ Cardinality(page) \in Nat
  BY <1>1, LimitAssumption DEF IsPage
<1>4. CASE page = {}
  <2>1. before = {} /\ w2.pc = "done" /\ w2.pages = w.pages
    BY <1>1, <1>2, <1>4, LimitAssumption
  <2>2. w2 \in Reading
    BY <2>1, <1>1, <1>4, LimitAssumption DEF WalkOK, Reading
  <2>3. \A m \in rows : ~IsBefore(m, Cursor(w.pages))
    BY <2>1
  <2>4. \A m \in rows : \/ m \in UNION Range(w2.pages)
                        \/ SteppedOver(m, w2.pages)
                        \/ m.id \in ids
    BY <2>1, <2>3 DEF WalkOK
  <2>5. /\ \A i \in DOMAIN w2.pages :
             /\ w2.pages[i] \subseteq rows /\ Cardinality(w2.pages[i]) \in 1..Limit
             /\ \A m \in w2.pages[i] : Cursor(w2.pages) <= m.at
        /\ \A i, j \in DOMAIN w2.pages : i < j =>
             \A m \in w2.pages[i], n \in w2.pages[j] : n.at < m.at
    <3>1. PICK pages : pages = w.pages /\ pages = w2.pages
      BY <2>1
    <3>2. /\ \A i \in DOMAIN pages :
               /\ pages[i] \subseteq rows /\ Cardinality(pages[i]) \in 1..Limit
               /\ \A m \in pages[i] : Cursor(pages) <= m.at
          /\ \A i, j \in DOMAIN pages : i < j =>
               \A m \in pages[i], n \in pages[j] : n.at < m.at
      BY <3>1 DEF WalkOK
    <3> QED BY ONLY <3>1, <3>2
  <2> QED BY ONLY <2>1, <2>2, <2>4, <2>5 DEF WalkOK
<1>5. CASE page # {}
  <2>1. PICK pages : pages = w.pages
    OBVIOUS
  <2>2. PICK n \in Nat : n = Len(pages)
    BY <2>1, LenProperties DEF WalkOK, Reading
  <2>3. PICK pages2 : pages2 = Append(pages, page)
    OBVIOUS
  <2>4. /\ pages \in Seq(SUBSET Row) /\ page \in SUBSET Row
        /\ w2.pages = pages2
        /\ w2.pc = IF Cardinality(page) < Limit THEN "done" ELSE "check"
    BY <1>1, <1>5, <2>1, <2>3 DEF WalkOK, Reading
  <2>5. /\ pages2 \in Seq(SUBSET Row) /\ Len(pages2) = n + 1
        /\ DOMAIN pages = 1..n /\ DOMAIN pages2 = 1..(n + 1)
        /\ \A i \in 1..n : pages2[i] = pages[i]
        /\ pages2[n + 1] = page
    BY <2>2, <2>3, <2>4, AppendProperties, LenProperties
  <2>6. w2 \in Reading
    BY <2>4, <2>5 DEF Reading
  <2>7. PICK o : o = Oldest(page)
    OBVIOUS
  <2>8. /\ o \in page /\ o \in before /\ o.at \in Nat
        /\ \A m \in page : o.at <= m.at /\ m.at \in Nat
    BY <1>1, <1>5, <2>4, <2>7, OldestOfPage DEF Row, Time
  <2>9. PICK c \in Int, c2 \in Int :
          c = Cursor(pages) /\ c2 = Cursor(pages2) /\ c2 = Truncate(o.at)
    <3>1. Cursor(pages2) = Truncate(o.at)
      BY <2>2, <2>5, <2>7 DEF Cursor, Last
    <3>2. \A t \in Nat : Truncate(t) \in Int
      BY ClockAssumption DEF Truncate
    <3>3. Cursor(pages) \in Int
      <4>1. CASE pages = <<>>
        BY <4>1, ClockAssumption DEF Cursor
      <4>2. CASE pages # <<>>
        <5>1. Len(pages) \in DOMAIN pages
          BY <2>4, <4>2, LenProperties, EmptySeq
        <5>2. PICK last : last = pages[Len(pages)] /\ last = Last(pages)
          BY DEF Last
        <5>3. last \subseteq Row /\ Cardinality(last) \in 1..Limit
          BY <2>1, <2>4, <5>1, <5>2 DEF WalkOK
        <5>4. last # {}
          <6>1. Cardinality({}) = 0
            BY FS_EmptySet
          <6>2. Cardinality(last) # 0
            BY <5>3, LimitAssumption
          <6> QED BY <6>1, <6>2
        <5>5. Oldest(last).at \in Nat
          BY <5>3, <5>4, OldestOfPage DEF Row, Time
        <5> QED BY <3>2, <4>2, <5>2, <5>5 DEF Cursor
      <4> QED BY <4>1, <4>2
    <3> QED BY <2>8, <3>1, <3>2, <3>3
  <2>10. /\ c2 <= o.at
         /\ \A m \in page : m.at < c /\ c2 <= m.at
         /\ \A i \in 1..n : \A m \in pages[i] : c <= m.at /\ m.at \in Nat
    <3>1. c2 <= o.at
      BY <2>8, <2>9, TruncatedOrder
    <3>2. \A m \in page : m.at < c
      BY <1>1, <2>1, <2>9 DEF IsBefore
    <3>3. \A m \in page : c2 <= m.at
      BY <2>8, <2>9, <3>1
    <3>4. \A i \in 1..n : \A m \in pages[i] : c <= m.at
      BY <2>1, <2>5, <2>9 DEF WalkOK
    <3>5. \A i \in 1..n : \A m \in pages[i] : m.at \in Nat
      BY <2>4, <2>5 DEF Row, Time
    <3> QED BY <3>1, <3>2, <3>3, <3>4, <3>5
  <2>11. \A i \in DOMAIN pages2 :
           /\ pages2[i] \subseteq rows /\ Cardinality(pages2[i]) \in 1..Limit
           /\ \A m \in pages2[i] : c2 <= m.at
    <3> TAKE i \in DOMAIN pages2
    <3>1. CASE i = n + 1
      BY <1>1, <1>3, <1>5, <2>5, <2>10, <3>1, LimitAssumption
    <3>2. CASE i \in 1..n
      <4>1. \A m \in pages[i] : c2 <= m.at
        BY <2>8, <2>9, <2>10, <3>2
      <4>2. pages[i] \subseteq rows /\ Cardinality(pages[i]) \in 1..Limit
        BY <2>1, <2>5, <3>2 DEF WalkOK
      <4> QED BY <2>5, <3>2, <4>1, <4>2
    <3> QED BY <2>5, <3>1, <3>2
  <2>12. \A i, j \in DOMAIN pages2 : i < j =>
           \A m \in pages2[i], k \in pages2[j] : k.at < m.at
    <3> SUFFICES ASSUME NEW i \in DOMAIN pages2, NEW j \in DOMAIN pages2, i < j,
                        NEW m \in pages2[i], NEW k \in pages2[j]
                 PROVE  k.at < m.at
      OBVIOUS
    <3>1. i \in 1..n
      BY <2>5
    <3>2. CASE j = n + 1
      BY <2>5, <2>8, <2>9, <2>10, <3>1, <3>2
    <3>3. CASE j \in 1..n
      BY <2>1, <2>5, <3>1, <3>3 DEF WalkOK
    <3> QED BY <2>5, <3>2, <3>3
  <2>13. \A m \in rows : \/ w2.pc # "done" /\ IsBefore(m, c2)
                         \/ m \in UNION Range(pages2)
                         \/ SteppedOver(m, pages2)
                         \/ m.id \in ids
    <3> TAKE m \in rows
    <3>1. m.at \in Nat
      BY DEF Row, Time
    <3>2. CASE m \in page
      BY <2>5, <3>2 DEF Range
    <3>3. CASE m \in before \ page
      <4>1. w2.pc = "check"
        BY <1>2, <2>4, <3>3
      <4>2. m.at <= o.at
        BY <2>8, <3>3 DEF IsPage
      <4>3. m.at < c2 \/ Truncate(m.at) = Truncate(o.at)
        BY <2>8, <2>9, <3>1, <4>2, TruncatedOrder
      <4>4. Truncate(m.at) = Truncate(o.at) => SteppedOver(m, pages2)
        BY <2>5, <2>7 DEF SteppedOver
      <4> QED BY <4>1, <4>3, <4>4 DEF IsBefore
    <3>4. CASE m \notin before
      <4>1. \/ m \in UNION Range(pages)
            \/ SteppedOver(m, pages)
            \/ m.id \in ids
        BY <2>1, <3>4 DEF WalkOK
      <4>2. m \in UNION Range(pages) => m \in UNION Range(pages2)
        BY <2>5 DEF Range
      <4>3. SteppedOver(m, pages) => SteppedOver(m, pages2)
        BY <2>5 DEF SteppedOver
      <4> QED BY <4>1, <4>2, <4>3
    <3> QED BY <3>2, <3>3, <3>4
  <2>14. w2.pc # "idle"
    BY <2>4
  <2> QED BY ONLY <2>4, <2>6, <2>9, <2>11, <2>12, <2>13, <2>14 DEF WalkOK
<1> QED BY <1>4, <1>5

-----------------------------------------------------------------------------
(* The invariant *)

\* What TypeOK says of all variables but the pages, and that they are functions.
Base ==
  /\ clock \in Time
  /\ members \subseteq User /\ online \subseteq User /\ room \subseteq online
  /\ stored \subseteq Row /\ IsFiniteSet(stored)
  /\ sending \in [User -> Send]
  /\ drawn \in 0..MaxMessages
  /\ heard \in [User -> SUBSET Id]
  /\ reading \in [User -> Reading]

\* A message has an id once it is being stored, and is stored before it is
\* broadcast.
SendOK(s) ==
  /\ s.pc \in {"saving", "emit"} => s.id \in Id
  /\ s.pc = "emit" => \E m \in stored : m.id = s.id

\* Who walks through the history is in the room.
ReadersAreIn == \A u \in User : Reads(u, "idle") \/ u \in room

\* The inductive invariant.
ChatInv ==
  /\ Base
  /\ HeardIsStored
  /\ \A u \in User : SendOK(sending[u])
  /\ ReadersAreIn
  /\ \A u \in User : WalkOK(reading[u], stored, heard[u] \cup Pending)

-----------------------------------------------------------------------------
(* Steps *)

\* Sockets come in and users join and leave: whoever was in the room is.
LEMMA OthersStep ==
  ASSUME ChatInv, clock' \in Time, members' \subseteq User,
         online' \subseteq User, room' \subseteq online', room \subseteq room',
         UNCHANGED <<stored, sending, drawn, heard, reading>>
  PROVE  ChatInv'
<1>1. Base' /\ HeardIsStored'
  BY DEF ChatInv, Base, HeardIsStored
<1>2. ReadersAreIn' /\ \A u \in User : SendOK(sending[u])'
  BY DEF ChatInv, ReadersAreIn, Reads, SendOK
<1>3. \A u \in User : WalkOK(reading[u], stored, heard[u] \cup Pending)'
  BY DEF ChatInv, WalkOK, Pending, Sends
<1> QED BY <1>1, <1>2, <1>3 DEF ChatInv

\* A socket leaves the room, and its client forgets.
LEMMA LeaveStep ==
  ASSUME ChatInv, NEW u \in User, online' \subseteq online,
         room' = room \ {u}, room' \subseteq online',
         heard' = [heard EXCEPT ![u] = {}],
         reading' = [reading EXCEPT ![u] = NotReading],
         UNCHANGED <<clock, members, stored, sending, drawn>>
  PROVE  ChatInv'
<1>1. NotReading \in Reading /\ NotReading.pc = "idle" /\ NotReading.pages = <<>>
  <2>1. <<>> \in Seq(SUBSET Row)
    OBVIOUS
  <2> QED BY <2>1 DEF NotReading, Reading
<1>2. /\ \A v \in User : heard'[v] = IF v = u THEN {} ELSE heard[v]
      /\ \A v \in User : reading'[v] = IF v = u THEN NotReading ELSE reading[v]
      /\ heard' \in [User -> SUBSET Id] /\ reading' \in [User -> Reading]
  BY <1>1 DEF ChatInv, Base
<1>3. Base' /\ HeardIsStored'
  BY <1>2 DEF ChatInv, Base, HeardIsStored
<1>4. \A v \in User : SendOK(sending[v])'
  BY DEF ChatInv, SendOK
<1>5. ReadersAreIn'
  BY <1>1, <1>2 DEF ChatInv, ReadersAreIn, Reads
<1>6. \A v \in User : WalkOK(reading[v], stored, heard[v] \cup Pending)'
  <2> TAKE v \in User
  <2>1. PICK rows, ids, ids2, w :
          /\ rows = stored /\ ids = Pending /\ ids2 = heard[v] \cup Pending
          /\ w = reading[v] /\ WalkOK(w, rows, ids2)
    BY DEF ChatInv
  <2>2. Pending' = ids
    BY <2>1 DEF Pending, Sends
  <2>3. CASE v = u
    <3>1. WalkOK(NotReading, rows, {} \cup ids)
      BY <1>1, <2>1, WalkNotBegun DEF ChatInv, Base
    <3>2. stored' = rows /\ reading'[v] = NotReading /\ heard'[v] = {}
      BY <1>2, <2>1, <2>3
    <3> QED BY <2>2, <3>1, <3>2
  <2>4. CASE v # u
    <3>1. stored' = rows /\ reading'[v] = w /\ heard'[v] \cup Pending' = ids2
      BY <1>2, <2>1, <2>2, <2>4
    <3> QED BY <2>1, <3>1
  <2> QED BY <2>3, <2>4
<1> QED BY <1>3, <1>4, <1>5, <1>6 DEF ChatInv

\* A chat:send that is not yet to be broadcast goes on.
LEMMA SendStep ==
  ASSUME ChatInv, NEW u \in User, ~Sends(u, "emit"), NEW s \in Send,
         s.pc # "emit", SendOK(s), sending' = [sending EXCEPT ![u] = s],
         drawn' \in 0..MaxMessages,
         UNCHANGED <<clock, members, stored, online, room, heard, reading>>
  PROVE  ChatInv'
<1>1. /\ \A v \in User : sending'[v] = IF v = u THEN s ELSE sending[v]
      /\ sending' \in [User -> Send]
  BY DEF ChatInv, Base
<1>2. Base' /\ HeardIsStored' /\ ReadersAreIn'
  BY <1>1 DEF ChatInv, Base, HeardIsStored, ReadersAreIn, Reads
<1>3. \A v \in User : SendOK(sending[v])'
  BY <1>1 DEF ChatInv, SendOK
<1>4. Pending' = Pending
  <2>1. \A v \in User : Sends(v, "emit")' <=> Sends(v, "emit")
    BY <1>1 DEF Sends
  <2>2. \A v \in User : Sends(v, "emit") => sending'[v] = sending[v]
    BY <1>1
  <2> QED BY <2>1, <2>2 DEF Pending
<1>5. \A v \in User : WalkOK(reading[v], stored, heard[v] \cup Pending)'
  <2> TAKE v \in User
  <2>1. PICK rows, ids, w : /\ rows = stored /\ ids = heard[v] \cup Pending
                            /\ w = reading[v] /\ WalkOK(w, rows, ids)
    BY DEF ChatInv
  <2>2. stored' = rows /\ reading'[v] = w /\ heard'[v] \cup Pending' = ids
    BY <1>4, <2>1
  <2> QED BY <2>1, <2>2
<1> QED BY <1>2, <1>3, <1>5 DEF ChatInv

\* A walk begins or goes on.
LEMMA ReadStep ==
  ASSUME ChatInv, NEW u \in User, NEW w \in Reading, u \in room,
         WalkOK(w, stored, heard[u] \cup Pending),
         reading' = [reading EXCEPT ![u] = w],
         UNCHANGED <<clock, members, stored, sending, drawn, online, room, heard>>
  PROVE  ChatInv'
<1>1. /\ \A v \in User : reading'[v] = IF v = u THEN w ELSE reading[v]
      /\ reading' \in [User -> Reading]
  BY DEF ChatInv, Base
<1>2. Base' /\ HeardIsStored' /\ ReadersAreIn'
  BY <1>1 DEF ChatInv, Base, HeardIsStored, ReadersAreIn, Reads
<1>3. \A v \in User : SendOK(sending[v])'
  BY DEF ChatInv, SendOK
<1>4. Pending' = Pending
  BY DEF Pending, Sends
<1>5. \A v \in User : WalkOK(reading[v], stored, heard[v] \cup Pending)'
  <2> TAKE v \in User
  <2>1. PICK rows, ids, w2 :
          /\ rows = stored /\ ids = heard[v] \cup Pending
          /\ w2 = reading'[v] /\ WalkOK(w2, rows, ids)
    BY <1>1 DEF ChatInv
  <2>2. stored' = rows /\ heard'[v] \cup Pending' = ids
    BY <1>4, <2>1
  <2> QED BY <2>1, <2>2
<1> QED BY <1>2, <1>3, <1>5 DEF ChatInv

-----------------------------------------------------------------------------
(* Actions *)

\* Sockets, and who takes part.
LEMMA SocketKeeps ==
  ASSUME ChatInv, NEW u \in User, Socket(u) \/ Participate(u)
  PROVE  ChatInv'
<1>1. /\ clock \in Time /\ members \subseteq User /\ online \subseteq User
      /\ room \subseteq online
  BY DEF ChatInv, Base
<1>2. CASE HandleConnection(u) \/ HandleJoinRoom(u) \/ Participate(u)
  BY <1>1, <1>2, OthersStep DEF HandleConnection, HandleJoinRoom, Participate
<1>3. CASE Disconnect(u) \/ HandleLeaveRoom(u)
  BY <1>1, <1>3, LeaveStep DEF Disconnect, HandleLeaveRoom
<1> QED BY <1>2, <1>3 DEF Socket

\* The clock.
LEMMA TickKeeps ==
  ASSUME ChatInv, Tick
  PROVE  ChatInv'
<1>1. /\ clock' \in Time /\ members \subseteq User /\ online \subseteq User
      /\ room \subseteq online
  BY ClockAssumption DEF Tick, ChatInv, Base, Time
<1> QED BY <1>1, OthersStep DEF Tick

\* A message until it is being stored.
LEMMA SendKeeps ==
  ASSUME ChatInv, NEW u \in User,
         HandleSendMessage(u) \/ SendCheck(u) \/ SendInsert(u)
  PROVE  ChatInv'
<1>1. /\ sending \in [User -> Send] /\ sending[u] \in Send
      /\ drawn \in 0..MaxMessages /\ clock \in Time /\ ~Sends(u, "emit")
  BY DEF ChatInv, Base, HandleSendMessage, SendCheck, SendInsert, Sends
<1>2. CASE HandleSendMessage(u) \/ SendCheck(u)
  <2>1. PICK pc \in {"idle", "check", "insert"} :
          /\ SendGoto(u, pc)
          /\ UNCHANGED <<clock, members, stored, drawn, online, room, heard, reading>>
    BY <1>2 DEF HandleSendMessage, SendCheck
  <2>2. PICK s : s = [sending[u] EXCEPT !.pc = pc] /\ sending' = [sending EXCEPT ![u] = s]
    BY <2>1 DEF SendGoto
  <2>3. s \in Send /\ s.pc = pc
    BY <1>1, <2>2 DEF Send
  <2>4. SendOK(s) /\ s.pc # "emit"
    BY <2>3 DEF SendOK
  <2> QED BY <1>1, <2>1, <2>2, <2>3, <2>4, SendStep
<1>3. CASE SendInsert(u)
  <2>1. PICK s : /\ s = [pc |-> "saving", id |-> drawn + 1, at |-> clock]
                 /\ sending' = [sending EXCEPT ![u] = s]
    BY <1>3 DEF SendInsert
  <2>2. drawn + 1 \in Id /\ drawn' \in 0..MaxMessages
    BY <1>1, <1>3, MessagesAssumption DEF SendInsert, Id
  <2>3. s \in Send /\ s.pc = "saving" /\ s.id \in Id
    BY <1>1, <2>1, <2>2 DEF Send
  <2>4. SendOK(s) /\ s.pc # "emit"
    BY <2>3 DEF SendOK
  <2> QED BY <1>1, <1>3, <2>1, <2>2, <2>3, <2>4, SendStep DEF SendInsert
<1> QED BY <1>2, <1>3

\* A message is stored, and its broadcast pending from then on.
LEMMA SavedKeeps ==
  ASSUME ChatInv, NEW u \in User, SendSaved(u)
  PROVE  ChatInv'
<1>1. PICK row : row = [id |-> sending[u].id, at |-> sending[u].at]
  OBVIOUS
<1>2. /\ sending[u] \in Send /\ sending[u].pc = "saving" /\ sending[u].id \in Id
      /\ stored' = stored \cup {row}
      /\ UNCHANGED <<clock, members, drawn, online, room, heard, reading>>
  BY <1>1 DEF SendSaved, Sends, ChatInv, Base, SendOK
<1>3. row \in Row /\ row.id = sending[u].id
  <2>1. sending[u].at \in Time
    BY <1>2 DEF Send
  <2> QED BY <1>1, <1>2, <2>1 DEF Row
<1>4. PICK s : s = [sending[u] EXCEPT !.pc = "emit"] /\ sending' = [sending EXCEPT ![u] = s]
  BY DEF SendSaved, SendGoto
<1>5. s \in Send /\ s.pc = "emit" /\ s.id = row.id
  BY <1>2, <1>3, <1>4 DEF Send
<1>6. /\ \A v \in User : sending'[v] = IF v = u THEN s ELSE sending[v]
      /\ sending' \in [User -> Send]
  BY <1>4, <1>5 DEF ChatInv, Base
<1>7. Base'
  <2>1. stored' \subseteq Row /\ IsFiniteSet(stored')
    BY <1>2, <1>3, FS_AddElement DEF ChatInv, Base
  <2> QED BY <1>2, <1>6, <2>1 DEF ChatInv, Base
<1>8. HeardIsStored' /\ ReadersAreIn'
  BY <1>2 DEF ChatInv, HeardIsStored, ReadersAreIn, Reads
<1>9. \A v \in User : SendOK(sending[v])'
  <2> TAKE v \in User
  <2>1. CASE v = u
    BY <1>2, <1>3, <1>5, <1>6, <2>1 DEF SendOK
  <2>2. CASE v # u
    BY <1>2, <1>6, <2>2 DEF ChatInv, SendOK
  <2> QED BY <2>1, <2>2
<1>10. row.id \in Pending' /\ Pending \subseteq Pending'
  <2>1. Sends(u, "emit")' /\ ~Sends(u, "emit")
    BY <1>2, <1>5, <1>6 DEF Sends
  <2>2. \A v \in User : Sends(v, "emit") => Sends(v, "emit")' /\ sending'[v] = sending[v]
    BY <1>6, <2>1 DEF Sends
  <2> QED BY <1>5, <1>6, <2>1, <2>2 DEF Pending
<1>11. \A v \in User : WalkOK(reading[v], stored, heard[v] \cup Pending)'
  <2> TAKE v \in User
  <2>1. PICK rows, ids, w : /\ rows = stored /\ ids = heard[v] \cup Pending
                            /\ w = reading[v] /\ WalkOK(w, rows, ids)
    BY DEF ChatInv
  <2>2. PICK rows2, ids2 : rows2 = stored' /\ ids2 = heard'[v] \cup Pending'
    OBVIOUS
  <2>3. /\ rows \subseteq rows2 /\ rows2 \subseteq Row /\ ids \subseteq ids2
        /\ \A m \in rows2 \ rows : m.id \in ids2
    BY <1>2, <1>3, <1>7, <1>10, <2>1, <2>2 DEF Base
  <2>4. WalkOK(w, rows2, ids2)
    BY <2>1, <2>3, WalkKept
  <2> QED BY <1>2, <2>1, <2>2, <2>4
<1> QED BY <1>7, <1>8, <1>9, <1>11 DEF ChatInv

\* A message is heard by all in the room, the readers among them.
LEMMA EmitKeeps ==
  ASSUME ChatInv, NEW u \in User, SendEmit(u)
  PROVE  ChatInv'
<1>1. PICK id : id = sending[u].id
  OBVIOUS
<1>2. /\ sending[u].pc = "emit" /\ id \in Id /\ \E m \in stored : m.id = id
      /\ sending' = [sending EXCEPT ![u] = NotSending]
      /\ heard' = [v \in User |-> IF v \in room THEN heard[v] \cup {id} ELSE heard[v]]
      /\ UNCHANGED <<clock, members, stored, drawn, online, room, reading>>
  BY <1>1 DEF SendEmit, Sends, ChatInv, SendOK
<1>3. NotSending \in Send /\ NotSending.pc = "idle"
  BY ClockAssumption DEF NotSending, Send, Time
<1>4. /\ \A v \in User : sending'[v] = IF v = u THEN NotSending ELSE sending[v]
      /\ sending' \in [User -> Send]
  BY <1>2, <1>3 DEF ChatInv, Base
<1>5. Base'
  BY <1>2, <1>4 DEF ChatInv, Base
<1>6. HeardIsStored' /\ ReadersAreIn'
  BY <1>2 DEF ChatInv, HeardIsStored, ReadersAreIn, Reads
<1>7. \A v \in User : SendOK(sending[v])'
  BY <1>2, <1>3, <1>4 DEF ChatInv, SendOK
<1>8. Pending \subseteq Pending' \cup {id}
  <2>1. \A v \in User \ {u} : Sends(v, "emit") => Sends(v, "emit")' /\ sending'[v] = sending[v]
    BY <1>4 DEF Sends
  <2> QED BY <1>1, <2>1 DEF Pending
<1>9. \A v \in User : WalkOK(reading[v], stored, heard[v] \cup Pending)'
  <2> TAKE v \in User
  <2>1. PICK rows, ids, w : /\ rows = stored /\ ids = heard[v] \cup Pending
                            /\ w = reading[v] /\ WalkOK(w, rows, ids)
    BY DEF ChatInv
  <2>2. PICK ids2 : ids2 = heard'[v] \cup Pending'
    OBVIOUS
  <2>3. w.pc = "idle" \/ ids \subseteq ids2
    <3>1. w.pc = "idle" \/ v \in room
      BY <2>1 DEF ChatInv, ReadersAreIn, Reads
    <3>2. v \in room => heard'[v] = heard[v] \cup {id}
      BY <1>2
    <3> QED BY <1>8, <2>1, <2>2, <3>1, <3>2
  <2>4. rows \subseteq Row
    BY <2>1 DEF ChatInv, Base
  <2>5. WalkOK(w, rows, ids2)
    BY <2>1, <2>3, <2>4, WalkKept
  <2> QED BY <1>2, <2>1, <2>2, <2>5
<1> QED BY <1>5, <1>6, <1>7, <1>9 DEF ChatInv

\* A client asks for a page, is let in, and gets it.
LEMMA HistoryKeeps ==
  ASSUME ChatInv, NEW u \in User, ReadHistory(u)
  PROVE  ChatInv'
<1>1. PICK w, ids : /\ w = reading[u] /\ ids = heard[u] \cup Pending
                    /\ WalkOK(w, stored, ids) /\ w \in Reading
  BY DEF ChatInv, Base
<1>2. /\ u \in room /\ w.pc # "done"
      /\ UNCHANGED <<clock, members, stored, sending, drawn, online, room, heard>>
  BY <1>1 DEF ReadHistory, GetHistory, HistoryCheck, FetchMessages, Reads,
     ChatInv, ReadersAreIn
<1>3. CASE GetHistory(u) \/ HistoryCheck(u)
  <2>1. PICK pc \in {"check", "select", "refused"} : ReadGoto(u, pc)
    BY <1>3 DEF GetHistory, HistoryCheck
  <2>2. PICK w2 : w2 = [w EXCEPT !.pc = pc] /\ reading' = [reading EXCEPT ![u] = w2]
    BY <1>1, <2>1 DEF ReadGoto
  <2>3. WalkOK(w2, stored, ids)
    BY <1>1, <1>2, <2>2, WalkMoves
  <2>4. w2 \in Reading
    BY <2>3 DEF WalkOK
  <2> QED BY <1>1, <1>2, <2>2, <2>3, <2>4, ReadStep
<1>4. CASE FetchMessages(u)
  <2>1. PICK before : before = {m \in stored : IsBefore(m, Cursor(w.pages))}
    OBVIOUS
  <2>2. PICK page, w2 :
          /\ IsPage(page, before)
          /\ w2 = [pc |-> IF Cardinality(page) < Limit THEN "done" ELSE "check",
                   pages |-> IF page = {} THEN w.pages ELSE Append(w.pages, page)]
          /\ reading' = [reading EXCEPT ![u] = w2]
    BY <1>1, <1>4, <2>1 DEF FetchMessages
  <2>3. stored \subseteq Row /\ IsFiniteSet(stored)
    BY DEF ChatInv, Base
  <2>4. WalkOK(w2, stored, ids)
    BY <1>1, <1>2, <2>1, <2>2, <2>3, WalkFetches
  <2>5. w2 \in Reading
    BY <2>4 DEF WalkOK
  <2> QED BY <1>1, <1>2, <2>2, <2>4, <2>5, ReadStep
<1> QED BY <1>3, <1>4 DEF ReadHistory

-----------------------------------------------------------------------------
(* Theorems *)

\* Nothing is stored, nobody is in.
LEMMA InitHolds == Init => ChatInv
<1> SUFFICES ASSUME Init PROVE ChatInv
  OBVIOUS
<1>1. NotReading \in Reading /\ NotReading.pc = "idle" /\ NotReading.pages = <<>>
  <2>1. <<>> \in Seq(SUBSET Row)
    OBVIOUS
  <2> QED BY <2>1 DEF NotReading, Reading
<1>2. NotSending \in Send /\ NotSending.pc = "idle"
  BY ClockAssumption DEF NotSending, Send, Time
<1>3. Base
  BY <1>1, <1>2, ClockAssumption, MessagesAssumption, FS_EmptySet
  DEF Init, Base, Time
<1>4. HeardIsStored /\ ReadersAreIn /\ \A u \in User : SendOK(sending[u])
  BY <1>1, <1>2 DEF Init, HeardIsStored, ReadersAreIn, Reads, SendOK
<1>5. \A u \in User : WalkOK(reading[u], stored, heard[u] \cup Pending)
  BY <1>1, WalkNotBegun DEF Init
<1> QED BY <1>3, <1>4, <1>5 DEF ChatInv

\* Each action keeps the invariant.
LEMMA NextKeeps == ChatInv /\ [Next]_vars => ChatInv'
<1> SUFFICES ASSUME ChatInv, [Next]_vars PROVE ChatInv'
  OBVIOUS
<1>1. ASSUME NEW u \in User, Socket(u) \/ Participate(u) PROVE ChatInv'
  BY <1>1, SocketKeeps
<1>2. ASSUME NEW u \in User, SendMessage(u) PROVE ChatInv'
  BY <1>2, SendKeeps, SavedKeeps, EmitKeeps DEF SendMessage
<1>3. ASSUME NEW u \in User, ReadHistory(u) PROVE ChatInv'
  BY <1>3, HistoryKeeps
<1>4. CASE Tick
  BY <1>4, TickKeeps
<1>5. CASE UNCHANGED vars
  <2>1. /\ clock' \in Time /\ members \subseteq User /\ online \subseteq User
        /\ room \subseteq online
    BY <1>5 DEF ChatInv, Base, vars
  <2> QED BY <1>5, <2>1, OthersStep DEF vars
<1> QED BY <1>1, <1>2, <1>3, <1>4, <1>5 DEF Next

\* The invariant holds of every behaviour.
LEMMA ChatInvHolds == Spec => []ChatInv
  BY InitHolds, NextKeeps, PTL DEF Spec

\* Every variable keeps its type, pages are never longer than Limit, and the room
\* holds only sockets that were let in.
THEOREM ChatTypeCorrect == Spec => []TypeOK
<1>1. ASSUME ChatInv PROVE TypeOK
  <2>1. \A u \in User : /\ reading[u] \in Reading
                        /\ \A i \in DOMAIN reading[u].pages :
                             /\ reading[u].pages[i] \subseteq stored
                             /\ Cardinality(reading[u].pages[i]) \in 1..Limit
    BY <1>1 DEF ChatInv, WalkOK
  <2>2. \A u \in User : reading[u].pc \in {"idle", "check", "select", "done", "refused"}
    BY <2>1 DEF Reading
  <2> QED BY <1>1, <2>1, <2>2 DEF ChatInv, Base, TypeOK
<1> QED BY <1>1, ChatInvHolds, PTL

\* What a room hears can be read in the history.
THEOREM WhatIsHeardIsStored == Spec => []HeardIsStored
<1>1. ChatInv => HeardIsStored
  BY DEF ChatInv
<1> QED BY <1>1, ChatInvHolds, PTL

\* Pages go back in time and never repeat a message, for any length of a page.
THEOREM HistoryDescends == Spec => []PagesDescend
<1>1. ChatInv => PagesDescend
  BY DEF ChatInv, WalkOK, PagesDescend
<1> QED BY <1>1, ChatInvHolds, PTL

\* Who enters the room and then reads to the end misses only messages of the same
\* millisecond as a cursor, whatever is stored and broadcast meanwhile.
THEOREM ReaderMissesNothing == Spec => []NothingMissed
<1>1. ASSUME ChatInv PROVE NothingMissed
  <2> SUFFICES ASSUME NEW u \in User, Reads(u, "done"), NEW m \in stored
               PROVE  m \in Got(u) \cup Skipped(u) \/ m.id \in heard[u] \cup Pending
    BY DEF NothingMissed
  <2>1. \/ m \in UNION Range(reading[u].pages)
        \/ SteppedOver(m, reading[u].pages)
        \/ m.id \in heard[u] \cup Pending
    BY <1>1 DEF ChatInv, WalkOK, Reads
  <2> QED BY <2>1 DEF Got, Skipped, SteppedOver
<1> QED BY <1>1, ChatInvHolds, PTL
=============================================================================
