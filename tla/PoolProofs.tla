----------------------------- MODULE PoolProofs ------------------------------
(***************************************************************************)
(* What holds of Pool for any number of requests, connections and losses.   *)
(***************************************************************************)
EXTENDS Pool, SequenceTheorems, TLAPS

\* The places of a transaction that PostgreSQL has open.
Opened == {"first", "second", "commit", "rollback"}

\* A unit has a connection exactly while it uses or awaits one, and its place is
\* one of its kind.
UnitOK(u) ==
  /\ u \in Unit
  /\ u.conn # NoConnection <=> u.pc \in Using \cup {"connecting"}
  /\ u.pc \in Opened \cup {"begin"} => u.kind = "transaction"
  /\ u.pc = "statement" => u.kind = "statement"
  /\ u.pc = "idle" <=> u.kind = "none"

\* Nothing is committed of a unit under way.
NothingYet == \A r \in Request : unit[r].pc \notin Ended => effect[r] = {}

\* The inductive invariant.
PoolInv ==
  /\ TypeOK
  /\ NoConnectionLeaks
  /\ IdleIsClean
  /\ \A r \in Request : UnitOK(unit[r])
  /\ NothingYet

-----------------------------------------------------------------------------
(* The queue *)

\* Q waits in queue q exactly when it waits in p, for all but r.
SameBut(r, q, p) == \A v : v # r => (Contains(q, v) <=> Contains(p, v))

\* Who joins the queue is its last.
LEMMA AppendQueue ==
  ASSUME NEW q \in Seq(Request), IsInjective(q), NEW r \in Request,
         ~Contains(q, r)
  PROVE  /\ Append(q, r) \in Seq(Request)
         /\ IsInjective(Append(q, r))
         /\ Contains(Append(q, r), r)
         /\ SameBut(r, Append(q, r), q)
<1> DEFINE p == Append(q, r)
<1>1. /\ Len(q) \in Nat /\ DOMAIN q = 1..Len(q)
      /\ p \in Seq(Request) /\ Len(p) = Len(q) + 1 /\ DOMAIN p = 1..Len(q)+1
      /\ \A i \in 1..Len(q) : p[i] = q[i]
      /\ p[Len(q) + 1] = r
  BY LenProperties, AppendProperties
<1> HIDE DEF p
<1>2. IsInjective(p)
  BY <1>1 DEF IsInjective, Contains
<1>3. Contains(p, r)
  BY <1>1 DEF Contains
<1>4. SameBut(r, p, q)
  BY <1>1 DEF SameBut, Contains
<1> QED BY <1>1, <1>2, <1>3, <1>4 DEF p

\* Who leaves the queue, wherever he stood, leaves the others in it.
LEMMA RemoveFromQueue ==
  ASSUME NEW q \in Seq(Request), IsInjective(q), NEW k \in DOMAIN q
  PROVE  /\ RemoveAt(q, k) \in Seq(Request)
         /\ IsInjective(RemoveAt(q, k))
         /\ ~Contains(RemoveAt(q, k), q[k])
         /\ SameBut(q[k], RemoveAt(q, k), q)
<1> DEFINE before == SubSeq(q, 1, k-1)
           after  == SubSeq(q, k+1, Len(q))
           p      == RemoveAt(q, k)
           old(i) == IF i < k THEN i ELSE i+1
<1>1. /\ Len(q) \in Nat /\ DOMAIN q = 1..Len(q) /\ k \in 1..Len(q)
      /\ \A i \in 1..Len(q) : q[i] \in Request
  BY LenProperties
<1>2. p = before \o after
  BY DEF RemoveAt
<1>3. /\ before \in Seq(Request)
      /\ Len(before) = k-1
      /\ \A i \in 1..k-1 : before[i] = q[i]
  <2>1. \A i \in 1..k-1 : q[i] \in Request
    BY <1>1
  <2> QED BY <1>1, <2>1, SubSeqProperties
<1>4. /\ after \in Seq(Request)
      /\ Len(after) = Len(q) - k
      /\ \A i \in 1..Len(q)-k : after[i] = q[i+k]
  <2>1. \A i \in k+1..Len(q) : q[i] \in Request
    BY <1>1
  <2>2. /\ after \in Seq(Request)
        /\ Len(after) = IF k+1 <= Len(q) THEN Len(q)-(k+1)+1 ELSE 0
        /\ \A i \in 1..Len(q)-(k+1)+1 : after[i] = q[(k+1)+i-1]
    BY <1>1, <2>1, SubSeqProperties
  <2> HIDE DEF after
  <2>3. Len(after) = Len(q) - k
    BY <1>1, <2>2
  <2>4. ASSUME NEW i \in 1..Len(q)-k
        PROVE  after[i] = q[i+k]
    <3>1. i \in 1..Len(q)-(k+1)+1 /\ (k+1)+i-1 = i+k
      BY <1>1
    <3> QED BY <2>2, <3>1
  <2> QED BY <2>2, <2>3, <2>4
<1> HIDE DEF before, after, p
<1>5. /\ p \in Seq(Request)
      /\ Len(p) = Len(before) + Len(after)
      /\ \A i \in 1..Len(before) + Len(after) : p[i] =
           IF i <= Len(before) THEN before[i] ELSE after[i - Len(before)]
  BY <1>2, <1>3, <1>4, ConcatProperties
<1>6. Len(p) = Len(q) - 1 /\ DOMAIN p = 1..Len(q)-1
  BY <1>1, <1>3, <1>4, <1>5, LenProperties
<1>7. ASSUME NEW i \in 1..Len(q)-1
      PROVE  p[i] = q[old(i)] /\ old(i) \in 1..Len(q) /\ old(i) # k
  <2>1. CASE i < k
    BY <1>1, <1>3, <1>4, <1>5, <2>1
  <2>2. CASE i >= k
    <3>1. p[i] = after[i - (k-1)]
      BY <1>1, <1>3, <1>4, <1>5, <2>2
    <3>2. after[i - (k-1)] = q[i - (k-1) + k]
      BY <1>1, <1>4, <2>2
    <3> QED BY <1>1, <2>2, <3>1, <3>2
  <2>3. i < k \/ i >= k
    BY <1>1
  <2> QED BY <2>1, <2>2, <2>3
<1>8. IsInjective(p)
  <2>1. SUFFICES ASSUME NEW a \in 1..Len(q)-1, NEW b \in 1..Len(q)-1, p[a] = p[b]
                 PROVE  a = b
    BY <1>6 DEF IsInjective
  <2>2. old(a) = old(b)
    <3>1. /\ old(a) \in 1..Len(q) /\ p[a] = q[old(a)]
          /\ old(b) \in 1..Len(q) /\ p[b] = q[old(b)]
      BY <1>7
    <3> HIDE DEF old
    <3> QED BY <1>1, <2>1, <3>1 DEF IsInjective
  <2> QED BY <1>1, <2>2
<1>9. ~Contains(p, q[k])
  <2>1. SUFFICES ASSUME NEW i \in 1..Len(q)-1, p[i] = q[k] PROVE FALSE
    BY <1>6 DEF Contains
  <2>2. p[i] = q[old(i)] /\ old(i) \in 1..Len(q) /\ old(i) # k
    BY <1>7
  <2> HIDE DEF old
  <2> QED BY <1>1, <2>1, <2>2 DEF IsInjective
<1>10. ASSUME NEW v, v # q[k]
       PROVE  Contains(p, v) <=> Contains(q, v)
  <2>1. ASSUME NEW i \in 1..Len(q)-1, p[i] = v
        PROVE  Contains(q, v)
    <3>1. p[i] = q[old(i)] /\ old(i) \in 1..Len(q)
      BY <1>7
    <3> HIDE DEF old
    <3> QED BY <2>1, <3>1 DEF Contains
  <2>2. ASSUME NEW j \in 1..Len(q), q[j] = v
        PROVE  Contains(p, v)
    <3>1. j # k
      BY <1>10, <2>2
    <3>2. CASE j < k
      <4>1. j \in 1..Len(q)-1 /\ p[j] = q[j]
        BY <1>1, <1>7, <3>2
      <4> QED BY <1>6, <2>2, <4>1 DEF Contains
    <3>3. CASE j > k
      <4>1. j-1 \in 1..Len(q)-1 /\ p[j-1] = q[j]
        BY <1>1, <1>7, <3>3
      <4> QED BY <1>6, <2>2, <4>1 DEF Contains
    <3> QED BY <1>1, <3>1, <3>2, <3>3
  <2> QED BY <1>6, <2>1, <2>2 DEF Contains
<1> QED BY <1>5, <1>8, <1>9, <1>10 DEF SameBut, p

\* The head is the one who leaves when his turn has come.
LEMMA TailOfQueue ==
  ASSUME NEW q \in Seq(Request), IsInjective(q), q # <<>>
  PROVE  /\ Head(q) \in Request /\ Contains(q, Head(q))
         /\ Tail(q) \in Seq(Request)
         /\ IsInjective(Tail(q))
         /\ ~Contains(Tail(q), Head(q))
         /\ SameBut(Head(q), Tail(q), q)
<1>1. /\ Len(q) \in Nat \ {0} /\ DOMAIN q = 1..Len(q) /\ Head(q) = q[1]
      /\ Head(q) \in Request
      /\ Tail(q) \in Seq(Request) /\ Len(Tail(q)) = Len(q) - 1
      /\ \A i \in 1..Len(q)-1 : Tail(q)[i] = q[i+1]
  BY LenProperties, HeadTailProperties, EmptySeq
<1>2. DOMAIN Tail(q) = 1..Len(q)-1
  BY <1>1, LenProperties
<1>3. IsInjective(Tail(q))
  <2>1. SUFFICES ASSUME NEW a \in 1..Len(q)-1, NEW b \in 1..Len(q)-1,
                        Tail(q)[a] = Tail(q)[b]
                 PROVE  a = b
    BY <1>2 DEF IsInjective
  <2>2. a+1 \in DOMAIN q /\ b+1 \in DOMAIN q /\ q[a+1] = q[b+1]
    BY <1>1, <2>1
  <2>3. a+1 = b+1
    BY <2>2 DEF IsInjective
  <2> QED BY <2>3
<1>4. ~Contains(Tail(q), Head(q))
  <2>1. SUFFICES ASSUME NEW i \in 1..Len(q)-1, Tail(q)[i] = q[1] PROVE FALSE
    BY <1>1 DEF Contains
  <2>2. i+1 \in DOMAIN q /\ 1 \in DOMAIN q /\ q[i+1] = q[1]
    BY <1>1, <2>1
  <2>3. i+1 = 1
    BY <2>2 DEF IsInjective
  <2> QED BY <2>3
<1>5. SameBut(Head(q), Tail(q), q)
  <2>1. SUFFICES ASSUME NEW v, v # q[1]
                 PROVE  Contains(Tail(q), v) <=> Contains(q, v)
    BY <1>1 DEF SameBut
  <2>2. ASSUME NEW j \in 1..Len(q), q[j] = v
        PROVE  j-1 \in 1..Len(q)-1 /\ Tail(q)[j-1] = v
    BY <1>1, <2>1, <2>2
  <2>3. ASSUME NEW i \in 1..Len(q)-1, Tail(q)[i] = v
        PROVE  i+1 \in 1..Len(q) /\ q[i+1] = v
    BY <1>1, <2>3
  <2> QED BY <1>1, <2>2, <2>3 DEF Contains
<1>6. Contains(q, Head(q))
  BY <1>1 DEF Contains
<1> QED BY <1>1, <1>3, <1>4, <1>5, <1>6

-----------------------------------------------------------------------------
(* Steps of one unit *)

\* r becomes u: it gives back the connection it had, or keeps it, or takes one
\* that nobody has.
Moves(r, u) ==
  LET had == unit[r].conn
  IN  /\ unit' = [unit EXCEPT ![r] = u]
      /\ conn' \in [Connection -> {"closed", "connecting", "idle", "held"}]
      /\ \A c \in Connection : c # had /\ c # u.conn => conn'[c] = conn[c]
      /\ u.conn # had =>
           /\ had # NoConnection => conn'[had] \in {"idle", "closed"}
           /\ \A s \in Request : unit[s].conn = u.conn => u.conn = NoConnection
      /\ u.conn # NoConnection =>
           conn'[u.conn] = IF u.pc = "connecting" THEN "connecting" ELSE "held"

\* What r leaves open and locked is on the connection it has.
KeepsClean(r, u) ==
  /\ open' \subseteq Connection
  /\ locked' \in Connection \cup {NoConnection}
  /\ \A c \in Connection : c \in open' \/ locked' = c =>
       IF c = u.conn THEN u.pc \in Opened
       ELSE c # unit[r].conn /\ (c \in open \/ locked = c)

Queues(r, u) ==
  /\ queue' \in Seq(Request) /\ IsInjective(queue')
  /\ SameBut(r, queue', queue)
  /\ u.pc = "queued" <=> Contains(queue', r)

Shows(r, u) ==
  /\ effect' \in [Request -> SUBSET {1, 2}]
  /\ \A s \in Request : s # r => effect'[s] = effect[s]
  /\ u.pc \notin Ended => effect'[r] = {}

\* A step of one unit that does these keeps the invariant.
LEMMA UnitStep ==
  ASSUME PoolInv, NEW r \in Request, NEW u, UnitOK(u), Moves(r, u),
         KeepsClean(r, u), Queues(r, u), Shows(r, u),
         up' \in BOOLEAN, losses' \in 0..MaxLosses
  PROVE  PoolInv'
<1>1. /\ unit' \in [Request -> Unit]
      /\ \A s \in Request : unit'[s] = IF s = r THEN u ELSE unit[s]
      /\ conn' \in [Connection -> {"closed", "connecting", "idle", "held"}]
      /\ \A s \in Request : unit[s].conn \in Connection \cup {NoConnection}
      /\ u.conn \in Connection \cup {NoConnection}
  BY DEF PoolInv, TypeOK, Moves, UnitOK, Unit
<1>2. TypeOK'
  <2>1. \A s \in Request : unit'[s].pc = "queued" <=> Contains(queue', s)
    <3> TAKE s \in Request
    <3>1. CASE s = r
      BY <1>1, <3>1 DEF Queues
    <3>2. CASE s # r
      BY <1>1, <3>2 DEF Queues, SameBut, PoolInv, TypeOK, At
    <3> QED BY <3>1, <3>2
  <2> QED BY <1>1, <2>1 DEF TypeOK, At, KeepsClean, Queues, Shows
<1>3. ASSUME NEW c \in Connection, conn'[c] \in {"held", "connecting"}
      PROVE  \E s \in Request : unit'[s].conn = c
  <2>1. CASE c = u.conn
    BY <1>1, <2>1
  <2>2. CASE c # u.conn
    <3>1. c # unit[r].conn
      BY <1>3, <2>2, ConnectionAssumption DEF Moves
    <3>2. conn'[c] = conn[c]
      BY <2>2, <3>1 DEF Moves
    <3>3. PICK s \in Request : unit[s].conn = c
      BY <1>3, <3>2 DEF PoolInv, NoConnectionLeaks
    <3> QED BY <1>1, <3>1, <3>3
  <2> QED BY <2>1, <2>2
<1>4. \A s \in Request : s # r /\ unit[s].conn = u.conn => u.conn = NoConnection
  <2>1. CASE u.conn = unit[r].conn
    BY <2>1 DEF PoolInv, NoConnectionLeaks
  <2>2. CASE u.conn # unit[r].conn
    BY <2>2 DEF Moves
  <2> QED BY <2>1, <2>2
<1>5. ASSUME NEW s \in Request, NEW t \in Request, s # t,
             unit'[s].conn = unit'[t].conn
      PROVE  unit'[s].conn = NoConnection
  <2>1. CASE s = r
    BY <1>1, <1>4, <1>5, <2>1
  <2>2. CASE t = r
    BY <1>1, <1>4, <1>5, <2>2
  <2>3. CASE s # r /\ t # r
    BY <1>1, <1>5, <2>3 DEF PoolInv, NoConnectionLeaks
  <2> QED BY <2>1, <2>2, <2>3
<1>6. ASSUME NEW s \in Request, unit'[s].conn # NoConnection
      PROVE  conn'[unit'[s].conn] =
               IF unit'[s].pc = "connecting" THEN "connecting" ELSE "held"
  <2>1. CASE s = r
    BY <1>1, <1>6, <2>1 DEF Moves
  <2>2. CASE s # r
    <3>1. unit'[s] = unit[s] /\ unit[s].conn \in Connection
      BY <1>1, <1>6, <2>2
    <3>2. unit[s].conn # u.conn /\ unit[s].conn # unit[r].conn
      BY <1>4, <1>6, <2>2, <3>1 DEF PoolInv, NoConnectionLeaks
    <3>3. conn'[unit[s].conn] = conn[unit[s].conn]
      BY <3>1, <3>2 DEF Moves
    <3> QED BY <1>6, <3>1, <3>3 DEF PoolInv, NoConnectionLeaks, At
  <2> QED BY <2>1, <2>2
<1>7. NoConnectionLeaks'
  BY <1>3, <1>5, <1>6 DEF NoConnectionLeaks, At
<1>8. IdleIsClean'
  <2>1. SUFFICES ASSUME NEW c \in Connection, c \in open' \/ locked' = c
                 PROVE  \E s \in Request : unit'[s].conn = c /\ unit'[s].pc \in Opened
    BY DEF IdleIsClean, Opened
  <2>2. CASE c = u.conn
    BY <1>1, <2>1, <2>2 DEF KeepsClean
  <2>3. CASE c # u.conn
    <3>1. c # unit[r].conn /\ (c \in open \/ locked = c)
      BY <2>1, <2>3 DEF KeepsClean
    <3>2. PICK s \in Request : unit[s].conn = c /\ unit[s].pc \in Opened
      BY <3>1 DEF PoolInv, IdleIsClean, Opened
    <3> QED BY <1>1, <3>1, <3>2
  <2> QED BY <2>2, <2>3
<1>9. \A s \in Request : UnitOK(unit'[s])
  BY <1>1 DEF PoolInv
<1>10. NothingYet'
  BY <1>1 DEF NothingYet, Shows, PoolInv
<1> QED BY <1>2, <1>7, <1>8, <1>9, <1>10 DEF PoolInv

-----------------------------------------------------------------------------
(* Actions of the pool *)

\* What the invariant says of one request.
LEMMA UnitFacts ==
  ASSUME PoolInv, NEW r \in Request
  PROVE  /\ unit[r] \in Unit /\ UnitOK(unit[r])
         /\ unit[r].pc \in {"idle", "queued", "connecting"} \cup Using \cup Ended
         /\ unit[r].kind \in Kind \cup {"none"}
         /\ unit[r].conn \in Connection \cup {NoConnection}
         /\ unit[r].pc \notin Ended => effect[r] = {}
         /\ up \in BOOLEAN /\ losses \in 0..MaxLosses
         /\ conn \in [Connection -> {"closed", "connecting", "idle", "held"}]
         /\ open \subseteq Connection /\ locked \in Connection \cup {NoConnection}
         /\ effect \in [Request -> SUBSET {1, 2}]
         /\ queue \in Seq(Request) /\ IsInjective(queue)
         /\ unit[r].pc = "queued" <=> Contains(queue, r)
  BY DEF PoolInv, TypeOK, Unit, NothingYet, At

\* A connection that lies idle or closed serves nobody.
LEMMA NobodyHas ==
  ASSUME PoolInv, NEW c \in Connection, conn[c] \in {"idle", "closed"}
  PROVE  /\ \A s \in Request : unit[s].conn # c
         /\ c \notin open /\ locked # c
<1>1. \A s \in Request : unit[s].conn # c
  BY ConnectionAssumption DEF PoolInv, NoConnectionLeaks
<1> QED BY <1>1 DEF PoolInv, IdleIsClean

\* Whoever had no connection may start to connect, when he has left the queue.
LEMMA NewClientKeeps ==
  ASSUME PoolInv, NEW r \in Request, NEW k \in Kind, NewClient(r, k),
         unit[r].conn = NoConnection, unit[r].pc \notin Ended,
         queue' \in Seq(Request), IsInjective(queue'),
         SameBut(r, queue', queue), ~Contains(queue', r),
         UNCHANGED <<up, open, locked, effect, losses>>
  PROVE  PoolInv'
<1>1. PICK c \in Closed :
        /\ conn' = [conn EXCEPT ![c] = "connecting"]
        /\ unit' = [unit EXCEPT ![r] = [pc |-> "connecting", kind |-> k, conn |-> c]]
  BY DEF NewClient
<1> DEFINE u == [pc |-> "connecting", kind |-> k, conn |-> c]
<1>2. c \in Connection /\ conn[c] = "closed" /\ c # NoConnection
  BY ConnectionAssumption DEF Closed
<1>3. UnitOK(u)
  BY <1>2 DEF UnitOK, Unit, Using, Kind, Opened
<1>4. u.pc = "connecting" /\ u.conn = c /\ unit' = [unit EXCEPT ![r] = u]
  BY <1>1
<1> HIDE DEF u
<1>5. Moves(r, u)
  BY <1>1, <1>2, <1>4, NobodyHas, UnitFacts DEF Moves
<1>6. KeepsClean(r, u)
  BY <1>2, <1>4, NobodyHas, UnitFacts, ConnectionAssumption DEF KeepsClean
<1>7. Queues(r, u)
  BY <1>4 DEF Queues
<1>8. Shows(r, u)
  BY UnitFacts DEF Shows
<1> QED BY <1>3, <1>5, <1>6, <1>7, <1>8, UnitFacts, UnitStep

\* A connection is lent: one that lies idle, or the one r has waited for.
LEMMA LendKeeps ==
  ASSUME PoolInv, NEW r \in Request, NEW c \in Connection, Lend(r, c),
         \/ unit[r].conn = NoConnection /\ conn[c] = "idle"
         \/ unit[r].conn = c,
         unit[r].pc \in {"queued", "connecting"},
         queue' \in Seq(Request), IsInjective(queue'),
         SameBut(r, queue', queue), ~Contains(queue', r),
         UNCHANGED <<up, open, locked, effect, losses>>
  PROVE  PoolInv'
<1> DEFINE pc == IF unit[r].kind = "transaction" THEN "begin" ELSE "statement"
           u  == [unit[r] EXCEPT !.pc = pc, !.conn = c]
<1>1. /\ unit[r] \in Unit /\ UnitOK(unit[r]) /\ c # NoConnection
      /\ unit[r].kind \in Kind
  BY UnitFacts, ConnectionAssumption DEF UnitOK, Ended, Kind
<1>2. pc \in {"begin", "statement"} /\ (pc = "begin" <=> unit[r].kind = "transaction")
  BY <1>1 DEF Kind
<1>3. unit' = [unit EXCEPT ![r] = u] /\ conn' = [conn EXCEPT ![c] = "held"]
  <2>1. u = [unit[r] EXCEPT !.pc = pc, !.conn = c]
    OBVIOUS
  <2> QED BY <2>1 DEF Lend
<1> HIDE DEF pc
<1>4. u \in Unit /\ u.pc = pc /\ u.conn = c /\ u.kind = unit[r].kind
  BY <1>1, <1>2 DEF Unit, Using
<1> HIDE DEF u
<1>5. UnitOK(u)
  BY <1>1, <1>2, <1>4 DEF UnitOK, Using, Kind, Opened
<1>6. Moves(r, u)
  BY <1>1, <1>2, <1>3, <1>4, NobodyHas, UnitFacts DEF Moves
<1>7. ASSUME NEW d \in Connection, d \in open \/ locked = d
      PROVE  d # c /\ d # unit[r].conn
  <2>1. PICK s \in Request : unit[s].conn = d /\ unit[s].pc \in Opened
    BY <1>7 DEF PoolInv, IdleIsClean, Opened
  <2>2. s # r
    BY <2>1 DEF Opened
  <2>3. unit[r].conn # d
    BY <2>1, <2>2, ConnectionAssumption DEF PoolInv, NoConnectionLeaks
  <2> QED BY <2>1, <2>3, NobodyHas
<1>8. KeepsClean(r, u)
  BY <1>4, <1>7, UnitFacts DEF KeepsClean
<1>9. Queues(r, u)
  BY <1>2, <1>4 DEF Queues
<1>10. Shows(r, u)
  BY UnitFacts DEF Shows, Ended
<1> QED BY <1>5, <1>6, <1>8, <1>9, <1>10, UnitFacts, UnitStep

\* connect() answers at once with a client that connects, or queues.
LEMMA ConnectKeeps ==
  ASSUME PoolInv, NEW r \in Request, Connect(r)
  PROVE  PoolInv'
<1>1. /\ unit[r].pc = "idle" /\ unit[r].conn = NoConnection
      /\ queue \in Seq(Request) /\ IsInjective(queue) /\ ~Contains(queue, r)
      /\ UNCHANGED <<up, open, locked, effect, losses>>
  BY UnitFacts DEF Connect, At, UnitOK, Using
<1>2. PICK k \in Kind :
        \/ NewClient(r, k) /\ UNCHANGED queue
        \/ /\ queue' = Append(queue, r)
           /\ unit' = [unit EXCEPT ![r] = [NoUnit EXCEPT !.pc = "queued",
                                                        !.kind = k]]
           /\ UNCHANGED conn
  BY DEF Connect
<1>3. CASE NewClient(r, k) /\ UNCHANGED queue
  BY <1>1, <1>3, NewClientKeeps DEF SameBut, Ended
<1>4. CASE /\ queue' = Append(queue, r)
           /\ unit' = [unit EXCEPT ![r] = [NoUnit EXCEPT !.pc = "queued",
                                                        !.kind = k]]
           /\ UNCHANGED conn
  <2> DEFINE u == [NoUnit EXCEPT !.pc = "queued", !.kind = k]
  <2>1. UnitOK(u) /\ u.pc = "queued" /\ u.conn = NoConnection
    BY DEF NoUnit, UnitOK, Unit, Using, Kind, Opened
  <2>2. unit' = [unit EXCEPT ![r] = u]
    BY <1>4
  <2> HIDE DEF u
  <2>3. Moves(r, u)
    BY <1>1, <1>4, <2>1, <2>2, UnitFacts DEF Moves
  <2>4. KeepsClean(r, u)
    BY <1>1, <2>1, UnitFacts, ConnectionAssumption DEF KeepsClean
  <2>5. Queues(r, u)
    BY <1>1, <1>4, <2>1, AppendQueue DEF Queues
  <2>6. Shows(r, u)
    BY <1>1, UnitFacts DEF Shows, Ended
  <2> QED BY <1>1, <2>1, <2>3, <2>4, <2>5, <2>6, UnitFacts, UnitStep
<1> QED BY <1>2, <1>3, <1>4

\* The first of the queue leaves it with a connection.
LEMMA PulseKeeps ==
  ASSUME PoolInv, Pulse
  PROVE  PoolInv'
<1> DEFINE r == Head(queue)
<1>1. queue \in Seq(Request) /\ IsInjective(queue) /\ queue # <<>>
  BY DEF PoolInv, TypeOK, Pulse
<1>2. /\ r \in Request /\ Contains(queue, r)
      /\ queue' \in Seq(Request) /\ IsInjective(queue')
      /\ ~Contains(queue', r) /\ SameBut(r, queue', queue)
      /\ UNCHANGED <<up, open, locked, effect, losses>>
  BY <1>1, TailOfQueue DEF Pulse
<1>3. \/ \E c \in Idle : Lend(r, c)
      \/ NewClient(r, unit[r].kind)
  BY DEF Pulse
<1> HIDE DEF r
<1>4. /\ unit[r].pc = "queued" /\ unit[r].conn = NoConnection
      /\ unit[r].kind \in Kind
  BY <1>2, UnitFacts DEF UnitOK, Using, Kind
<1>5. CASE \E c \in Idle : Lend(r, c)
  BY <1>2, <1>4, <1>5, LendKeeps DEF Idle
<1>6. CASE NewClient(r, unit[r].kind)
  BY <1>2, <1>4, <1>6, NewClientKeeps DEF Ended
<1> QED BY <1>3, <1>5, <1>6

\* A client that has connected is lent to whom it was opened for.
LEMMA ConnectedKeeps ==
  ASSUME PoolInv, NEW r \in Request, Connected(r)
  PROVE  PoolInv'
<1>1. /\ unit[r].pc = "connecting" /\ unit[r].conn \in Connection
      /\ ~Contains(queue, r)
  BY UnitFacts DEF Connected, At, UnitOK
<1> QED BY <1>1, UnitFacts, LendKeeps DEF Connected, SameBut

-----------------------------------------------------------------------------
(* Actions of a unit *)

\* Outside of a transaction r has nothing open.
LEMMA NothingOpen ==
  ASSUME PoolInv, NEW r \in Request, unit[r].pc \notin Opened,
         NEW c \in Connection, c \in open \/ locked = c
  PROVE  c # unit[r].conn
<1>1. PICK s \in Request : unit[s].conn = c /\ unit[s].pc \in Opened
  BY DEF PoolInv, IdleIsClean, Opened
<1> QED BY <1>1, ConnectionAssumption DEF PoolInv, NoConnectionLeaks

\* However a unit ends, its connection goes back or is closed, with nothing open.
LEMMA EndKeeps ==
  ASSUME PoolInv, NEW r \in Request, NEW how \in Ended, End(r, how),
         unit[r].pc \in {"queued", "connecting"} \cup Using,
         \/ unit[r].conn = NoConnection /\ UNCHANGED conn
         \/ \E state \in {"idle", "closed"} :
              conn' = [conn EXCEPT ![unit[r].conn] = state],
         \/ unit[r].pc \notin Opened /\ UNCHANGED <<open, locked>>
         \/ EndTransaction(unit[r].conn),
         queue' \in Seq(Request), IsInjective(queue'),
         SameBut(r, queue', queue), ~Contains(queue', r),
         effect' \in [Request -> SUBSET {1, 2}],
         \A s \in Request : s # r => effect'[s] = effect[s],
         UNCHANGED up, losses' \in 0..MaxLosses
  PROVE  PoolInv'
<1> DEFINE u == [unit[r] EXCEPT !.pc = how, !.conn = NoConnection]
<1>1. /\ unit[r] \in Unit /\ UnitOK(unit[r]) /\ unit[r].kind \in Kind
      /\ unit[r].conn \in Connection \cup {NoConnection}
  BY UnitFacts DEF UnitOK, Using, Kind
<1>2. /\ u \in Unit /\ u.pc = how /\ u.conn = NoConnection
      /\ u.kind = unit[r].kind
  BY <1>1 DEF Unit, Ended
<1>3. unit' = [unit EXCEPT ![r] = u]
  <2>1. u = [unit[r] EXCEPT !.pc = how, !.conn = NoConnection]
    OBVIOUS
  <2> QED BY <2>1 DEF End
<1> HIDE DEF u
<1>4. UnitOK(u)
  BY <1>1, <1>2 DEF UnitOK, Ended, Using, Opened, Kind
<1>5. Moves(r, u)
  BY <1>1, <1>2, <1>3, UnitFacts DEF Moves
<1>6. KeepsClean(r, u)
  <2>1. CASE unit[r].pc \notin Opened /\ UNCHANGED <<open, locked>>
    BY <1>2, <2>1, NothingOpen, UnitFacts, ConnectionAssumption DEF KeepsClean
  <2>2. CASE EndTransaction(unit[r].conn)
    BY <1>2, <2>2, UnitFacts, ConnectionAssumption DEF KeepsClean, EndTransaction
  <2> QED BY <2>1, <2>2
<1>7. Queues(r, u)
  BY <1>2 DEF Queues, Ended
<1>8. Shows(r, u)
  BY <1>2 DEF Shows
<1> QED BY <1>4, <1>5, <1>6, <1>7, <1>8, UnitFacts, UnitStep

\* A transaction goes on, on its own connection.
LEMMA GotoKeeps ==
  ASSUME PoolInv, NEW r \in Request, NEW pc \in Opened, Goto(r, pc),
         unit[r].pc \in {"begin", "first", "second"},
         open' \in {open, open \cup {unit[r].conn}},
         locked' \in {locked, unit[r].conn, NoConnection},
         UNCHANGED <<up, conn, queue, effect, losses>>
  PROVE  PoolInv'
<1> DEFINE u == [unit[r] EXCEPT !.pc = pc]
<1>1. /\ unit[r] \in Unit /\ UnitOK(unit[r]) /\ unit[r].kind = "transaction"
      /\ unit[r].conn \in Connection /\ unit[r].conn # NoConnection
  BY UnitFacts, ConnectionAssumption DEF UnitOK, Using, Opened
<1>2. /\ u \in Unit /\ u.pc = pc /\ u.conn = unit[r].conn
      /\ u.kind = unit[r].kind
  BY <1>1 DEF Unit, Opened, Using
<1>3. unit' = [unit EXCEPT ![r] = u]
  BY DEF Goto
<1> HIDE DEF u
<1>4. UnitOK(u)
  BY <1>1, <1>2 DEF UnitOK, Using, Opened
<1>5. conn[unit[r].conn] = "held"
  BY <1>1 DEF PoolInv, NoConnectionLeaks, At
<1>6. Moves(r, u)
  BY <1>1, <1>2, <1>3, <1>5, UnitFacts DEF Moves, Opened
<1>7. KeepsClean(r, u)
  BY <1>1, <1>2, UnitFacts, ConnectionAssumption DEF KeepsClean
<1>8. Queues(r, u)
  BY <1>2, UnitFacts DEF Queues, SameBut, Opened
<1>9. Shows(r, u)
  BY <1>2, UnitFacts DEF Shows, Ended
<1> QED BY <1>4, <1>6, <1>7, <1>8, <1>9, UnitFacts, UnitStep

\* Whoever serves a unit, it is not in the queue; nobody's place in it changes.
LEMMA NotQueued ==
  ASSUME PoolInv, NEW r \in Request, unit[r].pc # "queued", UNCHANGED queue
  PROVE  /\ queue' \in Seq(Request) /\ IsInjective(queue')
         /\ SameBut(r, queue', queue) /\ ~Contains(queue', r)
  BY UnitFacts DEF SameBut

\* The ends of the wait for a connection.
LEMMA WaitEndsKeeps ==
  ASSUME PoolInv, NEW r \in Request, ConnectFails(r) \/ TimesOut(r)
  PROVE  PoolInv'
<1>1. CASE ConnectFails(r)
  BY <1>1, NotQueued, UnitFacts, EndKeeps DEF ConnectFails, At, Ended, Opened
<1>2. CASE TimesOut(r)
  <2>1. PICK k \in DOMAIN queue : queue[k] = r /\ queue' = RemoveAt(queue, k)
    BY <1>2 DEF TimesOut
  <2>2. unit[r].pc = "queued" /\ unit[r].conn = NoConnection
    BY <1>2, UnitFacts DEF TimesOut, At, UnitOK, Using
  <2>3. /\ queue' \in Seq(Request) /\ IsInjective(queue')
        /\ SameBut(r, queue', queue) /\ ~Contains(queue', r)
    BY <2>1, UnitFacts, RemoveFromQueue
  <2>4. /\ End(r, "error") /\ UNCHANGED <<up, conn, open, locked, effect, losses>>
    BY <1>2 DEF TimesOut
  <2> QED BY <2>2, <2>3, <2>4, UnitFacts, EndKeeps DEF Ended, Opened
<1> QED BY <1>1, <1>2

\* The ends of a statement.
LEMMA StatementKeeps ==
  ASSUME PoolInv, NEW r \in Request,
         Statement(r) \/ StatementRefused(r) \/ StatementLost(r)
  PROVE  PoolInv'
<1>1. /\ unit[r].pc = "statement" /\ UNCHANGED <<up, open, locked, queue>>
      /\ \E how \in Ended : End(r, how)
      /\ \E state \in {"idle", "closed"} :
           conn' = [conn EXCEPT ![unit[r].conn] = state]
      /\ effect' \in {effect, [effect EXCEPT ![r] = {1}]}
  BY DEF Statement, StatementRefused, StatementLost, At, Ended
<1>2. losses' \in 0..MaxLosses
  BY UnitFacts, LossesAssumption DEF Statement, StatementRefused, StatementLost
<1>3. /\ effect' \in [Request -> SUBSET {1, 2}]
      /\ \A s \in Request : s # r => effect'[s] = effect[s]
  BY <1>1, UnitFacts
<1> QED BY <1>1, <1>2, <1>3, NotQueued, EndKeeps DEF Using, Opened

\* The steps of a transaction, up to its end.
LEMMA TransactionKeeps ==
  ASSUME PoolInv, NEW r \in Request,
         \/ TxBegin(r) \/ TxStatement(r) \/ TxThrows(r)
         \/ TxCommit(r) \/ TxRollback(r)
  PROVE  PoolInv'
<1>1. CASE TxBegin(r)
  BY <1>1, GotoKeeps DEF TxBegin, At, Opened
<1>2. CASE TxStatement(r)
  BY <1>2, GotoKeeps DEF TxStatement, At, Opened
<1>3. CASE TxThrows(r)
  BY <1>3, GotoKeeps DEF TxThrows, Opened
<1>4. CASE TxCommit(r) \/ TxRollback(r)
  <2>1. /\ unit[r].pc \in {"commit", "rollback"} /\ UNCHANGED <<up, queue, losses>>
        /\ \E how \in Ended : End(r, how)
        /\ EndTransaction(unit[r].conn)
        /\ conn' = [conn EXCEPT ![unit[r].conn] = "idle"]
        /\ effect' \in {effect, [effect EXCEPT ![r] = {1, 2}]}
    BY <1>4 DEF TxCommit, TxRollback, At, Ended
  <2>2. /\ effect' \in [Request -> SUBSET {1, 2}]
        /\ \A s \in Request : s # r => effect'[s] = effect[s]
    BY <2>1, UnitFacts
  <2> QED BY <2>1, <2>2, NotQueued, UnitFacts, EndKeeps DEF Using, Opened
<1> QED BY <1>1, <1>2, <1>3, <1>4

\* A slot that is free again has nothing.
LEMMA ReleaseKeeps ==
  ASSUME PoolInv, NEW r \in Request, Release(r)
  PROVE  PoolInv'
<1>1. /\ unit[r].conn = NoConnection /\ unit[r].pc # "queued"
      /\ unit' = [unit EXCEPT ![r] = NoUnit] /\ effect' = [effect EXCEPT ![r] = {}]
      /\ UNCHANGED <<up, conn, open, locked, queue, losses>>
  BY UnitFacts DEF Release, UnitOK, Using, Ended
<1>2. UnitOK(NoUnit) /\ NoUnit.conn = NoConnection /\ NoUnit.pc = "idle"
  BY DEF NoUnit, UnitOK, Unit, Using, Kind, Opened
<1>3. Moves(r, NoUnit)
  BY <1>1, <1>2, UnitFacts DEF Moves
<1>4. KeepsClean(r, NoUnit)
  BY <1>1, <1>2, UnitFacts, ConnectionAssumption DEF KeepsClean
<1>5. Queues(r, NoUnit)
  BY <1>1, <1>2, NotQueued DEF Queues
<1>6. Shows(r, NoUnit)
  BY <1>1, UnitFacts DEF Shows
<1> QED BY <1>1, <1>2, <1>3, <1>4, <1>5, <1>6, UnitFacts, UnitStep

-----------------------------------------------------------------------------
(* The process *)

\* An idle connection that is closed served nobody.
LEMMA IdleExpiresKeeps ==
  ASSUME PoolInv, NEW c \in Connection, IdleExpires(c)
  PROVE  PoolInv'
<1>1. /\ conn' = [conn EXCEPT ![c] = "closed"] /\ conn[c] = "idle"
      /\ open' \subseteq open /\ locked' \in {locked, NoConnection}
      /\ UNCHANGED <<up, queue, unit, effect, losses>>
  BY DEF IdleExpires, EndTransaction
<1>2. \A s \in Request : unit[s].conn # c
  BY <1>1, NobodyHas
<1>3. TypeOK'
  BY <1>1 DEF PoolInv, TypeOK, At
<1>4. NoConnectionLeaks'
  BY <1>1, <1>2 DEF PoolInv, NoConnectionLeaks, TypeOK, At
<1>5. IdleIsClean'
  BY <1>1, ConnectionAssumption DEF PoolInv, IdleIsClean
<1> QED BY <1>1, <1>3, <1>4, <1>5 DEF PoolInv, NothingYet

\* With the process all its connections end, and all that was under way.
LEMMA CrashKeeps ==
  ASSUME PoolInv, Crash
  PROVE  PoolInv'
<1>1. /\ up' = FALSE /\ losses < MaxLosses /\ losses' = losses + 1
      /\ conn' = [c \in Connection |-> "closed"]
      /\ open' = {} /\ locked' = NoConnection /\ queue' = <<>>
  BY DEF Crash
<1>2. \A r \in Request :
        unit'[r] = IF InProgress(r)
                   THEN [unit[r] EXCEPT !.pc = "lost", !.conn = NoConnection]
                   ELSE unit[r]
  BY DEF Crash
<1>3. \A r \in Request :
        /\ UnitOK(unit'[r]) /\ unit'[r].conn = NoConnection
        /\ unit'[r].pc \in Ended \cup {"idle"}
        /\ unit'[r].pc = "idle" => unit'[r] = unit[r]
  <2> TAKE r \in Request
  <2>1. UnitOK(unit[r]) /\ unit[r] \in Unit
    BY UnitFacts
  <2>2. CASE InProgress(r)
    <3>1. unit'[r] = [unit[r] EXCEPT !.pc = "lost", !.conn = NoConnection]
      BY <1>2, <2>2
    <3>2. /\ unit'[r] \in Unit /\ unit'[r].pc = "lost"
          /\ unit'[r].conn = NoConnection /\ unit'[r].kind = unit[r].kind
      BY <2>1, <3>1 DEF Unit, Ended
    <3>3. unit[r].kind # "none"
      BY <2>1, <2>2 DEF UnitOK, InProgress, Using
    <3> QED BY <3>2, <3>3 DEF UnitOK, Using, Opened, Ended
  <2>3. CASE ~InProgress(r)
    BY <1>2, <2>1, <2>3, UnitFacts DEF UnitOK, InProgress, Using, Ended
  <2> QED BY <2>2, <2>3
<1>4. /\ effect' \in [Request -> SUBSET {1, 2}]
      /\ \A r \in Request : unit[r].pc = "idle" => effect'[r] = effect[r]
  <2>1. PICK executed \in SUBSET {r \in Request : unit[r].pc \in {"statement", "commit"}} :
          effect' = [r \in Request |->
            IF r \in executed
            THEN IF unit[r].kind = "transaction" THEN {1, 2} ELSE {1}
            ELSE effect[r]]
    BY DEF Crash
  <2>2. effect \in [Request -> SUBSET {1, 2}]
    BY DEF PoolInv, TypeOK
  <2>3. \A r \in Request : effect'[r] \in SUBSET {1, 2}
    BY <2>1, <2>2
  <2>4. effect' \in [Request -> SUBSET {1, 2}]
    BY <2>1, <2>3
  <2>5. \A r \in Request : unit[r].pc = "idle" => effect'[r] = effect[r]
    BY <2>1
  <2> QED BY <2>4, <2>5
<1>5. TypeOK'
  <2>1. unit' \in [Request -> Unit]
    <3>1. unit' = [r \in Request |-> unit'[r]]
      BY DEF Crash
    <3> QED BY <1>3, <3>1 DEF UnitOK
  <2>2. losses' \in 0..MaxLosses
    BY <1>1, LossesAssumption DEF PoolInv, TypeOK
  <2>3. queue' \in Seq(Request) /\ IsInjective(queue')
        /\ \A r : ~Contains(queue', r)
    BY <1>1, EmptySeq DEF IsInjective, Contains
  <2>4. \A r \in Request : unit'[r].pc = "queued" <=> Contains(queue', r)
    BY <1>3, <2>3 DEF Ended
  <2> QED BY <1>1, <1>4, <2>1, <2>2, <2>3, <2>4 DEF TypeOK, At
<1>6. NoConnectionLeaks'
  BY <1>1, <1>3 DEF NoConnectionLeaks
<1>7. IdleIsClean'
  BY <1>1, ConnectionAssumption DEF IdleIsClean
<1>8. NothingYet'
  BY <1>3, <1>4 DEF PoolInv, NothingYet, Ended
<1> QED BY <1>3, <1>5, <1>6, <1>7, <1>8 DEF PoolInv

-----------------------------------------------------------------------------
(* The invariant *)

\* Nothing is asked, nothing is open.
LEMMA InitHolds == Init => PoolInv
<1> SUFFICES ASSUME Init PROVE PoolInv
  OBVIOUS
<1>1. /\ \A r \in Request : unit[r] = NoUnit
      /\ UnitOK(NoUnit) /\ NoUnit.pc = "idle" /\ NoUnit.conn = NoConnection
  BY DEF Init, NoUnit, UnitOK, Unit, Using, Kind, Opened
<1>2. /\ queue \in Seq(Request) /\ IsInjective(queue)
      /\ \A r : ~Contains(queue, r)
  BY EmptySeq DEF Init, IsInjective, Contains
<1>3. TypeOK
  <2>1. unit \in [Request -> Unit]
    BY <1>1 DEF Init, UnitOK
  <2> QED BY <1>1, <1>2, <2>1, LossesAssumption DEF Init, TypeOK, At
<1>4. NoConnectionLeaks /\ IdleIsClean
  BY <1>1, ConnectionAssumption DEF Init, NoConnectionLeaks, IdleIsClean
<1>5. NothingYet
  BY DEF Init, NothingYet
<1> QED BY <1>1, <1>3, <1>4, <1>5 DEF PoolInv

\* One step for each action of Next.
LEMMA NextKeeps == PoolInv /\ [Next]_vars => PoolInv'
<1> SUFFICES ASSUME PoolInv, [Next]_vars PROVE PoolInv'
  OBVIOUS
<1>1. ASSUME NEW r \in Request, Connect(r) \/ Release(r)
      PROVE  PoolInv'
  BY <1>1, ConnectKeeps, ReleaseKeeps
<1>2. ASSUME NEW r \in Request, Serve(r)
      PROVE  PoolInv'
  BY <1>2, ConnectedKeeps, StatementKeeps, TransactionKeeps DEF Serve
<1>3. ASSUME NEW r \in Request, Fail(r) \/ TimesOut(r)
      PROVE  PoolInv'
  BY <1>3, WaitEndsKeeps, StatementKeeps, TransactionKeeps DEF Fail
<1>4. CASE Pulse
  BY <1>4, PulseKeeps
<1>5. ASSUME NEW c \in Connection, IdleExpires(c)
      PROVE  PoolInv'
  BY <1>5, IdleExpiresKeeps
<1>6. CASE Crash
  BY <1>6, CrashKeeps
<1>7. CASE Restart
  BY <1>7 DEF Restart, PoolInv, TypeOK, NoConnectionLeaks, IdleIsClean,
              NothingYet, At
<1>8. CASE UNCHANGED vars
  BY <1>8 DEF vars, PoolInv, TypeOK, NoConnectionLeaks, IdleIsClean,
              NothingYet, At
<1> QED BY <1>1, <1>2, <1>3, <1>4, <1>5, <1>6, <1>7, <1>8 DEF Next

\* The invariant is inductive.
LEMMA PoolInvHolds == Spec => []PoolInv
  BY InitHolds, NextKeeps, PTL DEF Spec

\* The queue holds those who wait, once each, whatever timers run out.
THEOREM PoolTypeCorrect == Spec => []TypeOK
  BY PoolInvHolds, PTL DEF PoolInv

\* The pool loses no connection to a unit that has ended, however it ended.
THEOREM ConnectionsComeBack == Spec => []NoConnectionLeaks
  BY PoolInvHolds, PTL DEF PoolInv

\* No connection comes back with a transaction open or a row locked.
THEOREM IdleConnectionsClean == Spec => []IdleIsClean
  BY PoolInvHolds, PTL DEF PoolInv

-----------------------------------------------------------------------------
(* Pool implements Store *)

\* What Store sees of the units: the mapping of S.
kinds    == [r \in Request |-> unit[r].kind]
outcomes == [r \in Request |-> IF At(r, "idle") THEN "none"
                               ELSE IF InProgress(r) THEN "pending"
                               ELSE unit[r].pc]
seen     == <<kinds, effect, outcomes>>

\* A step between two places of a unit under way is not seen.
LEMMA UnseenStep ==
  ASSUME UNCHANGED effect,
         \A r \in Request :
           \/ unit'[r] = unit[r]
           \/ /\ InProgress(r) /\ unit'[r].kind = unit[r].kind
              /\ unit'[r].pc \in {"queued", "connecting"} \cup Using
  PROVE  UNCHANGED seen
<1>1. \A r \in Request : unit'[r].kind = unit[r].kind
  OBVIOUS
<1>2. \A r \in Request :
        (IF unit'[r].pc = "idle" THEN "none"
         ELSE IF unit'[r].pc \in {"queued", "connecting"} \cup Using THEN "pending"
         ELSE unit'[r].pc)
        = (IF unit[r].pc = "idle" THEN "none"
           ELSE IF unit[r].pc \in {"queued", "connecting"} \cup Using THEN "pending"
           ELSE unit[r].pc)
  BY DEF InProgress, Using
<1> QED BY <1>1, <1>2 DEF seen, kinds, outcomes, At, InProgress

\* The end of a unit is seen as one step, with the effect that Store allows.
LEMMA FinishMaps ==
  ASSUME PoolInv, NEW r \in Request, NEW end \in {"ok", "error"},
         InProgress(r), End(r, end),
         NEW shown \in SUBSET {1, 2}, effect' = [effect EXCEPT ![r] = shown],
         \/ end = "error" /\ shown = {}
         \/ unit[r].kind = "statement" /\ shown = {1}
         \/ end = "ok" /\ unit[r].kind = "transaction" /\ shown = {1, 2}
  PROVE  S!Finish(r, end)
<1>1. /\ unit[r] \in Unit /\ unit[r].pc # "idle"
  BY UnitFacts DEF InProgress, Using
<1>2. /\ unit'[r] = [unit[r] EXCEPT !.pc = end, !.conn = NoConnection]
      /\ \A s \in Request : s # r => unit'[s] = unit[s]
      /\ unit \in [Request -> Unit]
  BY DEF End, PoolInv, TypeOK
<1>3. unit'[r].kind = unit[r].kind /\ unit'[r].pc = end
  BY <1>1, <1>2 DEF Unit
<1>4. kinds[r] = unit[r].kind /\ outcomes[r] = "pending"
  BY <1>1 DEF kinds, outcomes, At
<1>5. UNCHANGED kinds
  BY <1>2, <1>3 DEF kinds
<1>6. outcomes' = [outcomes EXCEPT ![r] = end]
  <2>1. \A s \in Request : outcomes'[s] = IF s = r THEN end ELSE outcomes[s]
    BY <1>2, <1>3 DEF outcomes, At, InProgress, Using
  <2>2. outcomes' = [s \in Request |-> outcomes'[s]]
    BY DEF outcomes
  <2> QED BY <2>1, <2>2 DEF outcomes
<1>7. shown \in {{}, S!Whole(kinds[r])}
  BY <1>4 DEF S!Whole
<1>8. S!Allowed(r, end, shown)
  BY <1>4, <1>7 DEF S!Allowed, S!Whole, kinds
<1> QED BY <1>4, <1>5, <1>6, <1>7, <1>8 DEF S!Finish, kinds, outcomes

\* What Store sees of a unit.
Look(u) == IF u.pc = "idle" THEN "none"
           ELSE IF u.pc \in {"queued", "connecting"} \cup Using THEN "pending"
           ELSE u.pc

\* A step of one unit that is seen: what Store sees of the others stays.
LEMMA SeenOfOne ==
  ASSUME PoolInv, NEW r \in Request, NEW u, unit' = [unit EXCEPT ![r] = u]
  PROVE  /\ kinds' = [kinds EXCEPT ![r] = u.kind]
         /\ outcomes' = [outcomes EXCEPT ![r] = Look(u)]
<1>1. \A s \in Request : unit'[s] = IF s = r THEN u ELSE unit[s]
  BY DEF PoolInv, TypeOK
<1>2. \A s \in Request : outcomes'[s] = IF s = r THEN Look(u) ELSE outcomes[s]
  BY <1>1 DEF outcomes, At, InProgress, Look
<1>3. \A s \in Request : kinds'[s] = IF s = r THEN u.kind ELSE kinds[s]
  BY <1>1 DEF kinds
<1>4. /\ kinds' = [s \in Request |-> kinds'[s]]
      /\ kinds = [s \in Request |-> kinds[s]]
      /\ outcomes' = [s \in Request |-> outcomes'[s]]
      /\ outcomes = [s \in Request |-> outcomes[s]]
  BY DEF kinds, outcomes
<1>5. kinds' = [kinds EXCEPT ![r] = u.kind]
  BY <1>3, <1>4
<1> QED BY <1>2, <1>4, <1>5

\* A unit asked for is one that starts.
LEMMA ConnectMaps ==
  ASSUME PoolInv, NEW r \in Request, Connect(r)
  PROVE  \E k \in S!Kind : S!Start(r, k)
<1>1. unit[r].pc = "idle" /\ UNCHANGED effect
  BY DEF Connect, At
<1>2. PICK k \in Kind :
        \/ NewClient(r, k)
        \/ unit' = [unit EXCEPT ![r] = [NoUnit EXCEPT !.pc = "queued", !.kind = k]]
  BY DEF Connect
<1>3. PICK u : /\ unit' = [unit EXCEPT ![r] = u] /\ u.kind = k
               /\ u.pc \in {"queued", "connecting"}
  <2>1. CASE NewClient(r, k)
    <3>1. PICK c : unit' = [unit EXCEPT ![r] =
                              [pc |-> "connecting", kind |-> k, conn |-> c]]
      BY <2>1 DEF NewClient
    <3> DEFINE v == [pc |-> "connecting", kind |-> k, conn |-> c]
    <3>2. unit' = [unit EXCEPT ![r] = v] /\ v.kind = k /\ v.pc = "connecting"
      BY <3>1
    <3> HIDE DEF v
    <3> QED BY <3>2
  <2>2. CASE unit' = [unit EXCEPT ![r] = [NoUnit EXCEPT !.pc = "queued", !.kind = k]]
    <3> DEFINE v == [NoUnit EXCEPT !.pc = "queued", !.kind = k]
    <3>1. unit' = [unit EXCEPT ![r] = v] /\ v.kind = k /\ v.pc = "queued"
      BY <2>2 DEF NoUnit
    <3> HIDE DEF v
    <3> QED BY <3>1
  <2> QED BY <1>2, <2>1, <2>2
<1>4. /\ kinds' = [kinds EXCEPT ![r] = k]
      /\ outcomes' = [outcomes EXCEPT ![r] = "pending"]
  <2>1. Look(u) = "pending"
    BY <1>3 DEF Look
  <2> QED BY <1>3, <2>1, SeenOfOne
<1>5. outcomes[r] = "none"
  BY <1>1 DEF outcomes, At
<1>6. S!Start(r, k)
  BY <1>1, <1>4, <1>5 DEF S!Start, kinds, outcomes
<1> QED BY <1>6 DEF S!Kind, Kind

\* A slot that is free again is a unit forgotten.
LEMMA ReleaseMaps ==
  ASSUME PoolInv, NEW r \in Request, Release(r)
  PROVE  S!Forget(r)
<1>1. /\ unit[r].pc \in Ended /\ unit' = [unit EXCEPT ![r] = NoUnit]
      /\ effect' = [effect EXCEPT ![r] = {}]
  BY DEF Release
<1>2. /\ kinds' = [kinds EXCEPT ![r] = "none"]
      /\ outcomes' = [outcomes EXCEPT ![r] = "none"]
  <2>1. PICK u : /\ u = NoUnit /\ unit' = [unit EXCEPT ![r] = u]
    BY <1>1
  <2>2. u.kind = "none" /\ Look(u) = "none"
    BY <2>1 DEF NoUnit, Look
  <2>3. /\ kinds' = [kinds EXCEPT ![r] = u.kind]
        /\ outcomes' = [outcomes EXCEPT ![r] = Look(u)]
    BY <2>1, SeenOfOne
  <2> QED BY <2>2, <2>3
<1>3. outcomes[r] \in S!Ends
  BY <1>1 DEF outcomes, At, InProgress, Using, Ended, S!Ends
<1> QED BY <1>1, <1>2, <1>3 DEF S!Forget, kinds, outcomes

\* The end of the process loses what is under way, and a statement or a COMMIT
\* that PostgreSQL still executes shows the whole of its unit.
LEMMA CrashMaps ==
  ASSUME PoolInv, Crash
  PROVE  S!Crash
<1>1. PICK executed \in SUBSET {r \in Request : unit[r].pc \in {"statement", "commit"}} :
        effect' = [r \in Request |->
          IF r \in executed
          THEN IF unit[r].kind = "transaction" THEN {1, 2} ELSE {1}
          ELSE effect[r]]
  BY DEF Crash
<1>2. \A r \in Request :
        unit'[r] = IF InProgress(r)
                   THEN [unit[r] EXCEPT !.pc = "lost", !.conn = NoConnection]
                   ELSE unit[r]
  BY DEF Crash
<1>3. \A r \in Request : /\ UnitOK(unit[r]) /\ unit[r] \in Unit
  BY UnitFacts
<1>4. \A r \in Request :
        unit'[r].kind = unit[r].kind /\ (InProgress(r) => unit'[r].pc = "lost")
  BY <1>2, <1>3 DEF Unit
<1>5. UNCHANGED kinds
  BY <1>4 DEF kinds
<1>6. \A r \in Request : outcomes[r] = "pending" <=> InProgress(r)
  BY <1>3 DEF outcomes, At, InProgress, Using, Unit, Ended
<1>7. outcomes' = [r \in Request |-> IF outcomes[r] = "pending" THEN "lost"
                                     ELSE outcomes[r]]
  <2>1. ASSUME NEW r \in Request
        PROVE  outcomes'[r] = IF outcomes[r] = "pending" THEN "lost" ELSE outcomes[r]
    <3>1. CASE InProgress(r)
      <4>1. unit'[r].pc = "lost"
        BY <1>4, <3>1
      <4>2. outcomes'[r] = "lost"
        BY <4>1 DEF outcomes, At, InProgress, Using
      <4> QED BY <1>6, <3>1, <4>2
    <3>2. CASE ~InProgress(r)
      <4>1. unit'[r] = unit[r]
        BY <1>2, <3>2
      <4>2. outcomes'[r] = outcomes[r]
        BY <4>1 DEF outcomes, At, InProgress
      <4> QED BY <1>6, <3>2, <4>2
    <3> QED BY <3>1, <3>2
  <2>2. outcomes' = [r \in Request |-> outcomes'[r]]
    BY DEF outcomes
  <2> QED BY <2>1, <2>2
<1>8. executed \in SUBSET {r \in Request : outcomes[r] = "pending"}
  BY <1>6 DEF InProgress, Using
<1>9. effect' = [r \in Request |->
                   IF r \in executed THEN S!Whole(kinds[r]) ELSE effect[r]]
  <2>1. ASSUME NEW r \in executed
        PROVE  S!Whole(kinds[r]) = IF unit[r].kind = "transaction" THEN {1, 2} ELSE {1}
    BY <1>3 DEF UnitOK, Opened, kinds, S!Whole
  <2> QED BY <1>1, <2>1
<1> QED BY <1>5, <1>7, <1>8, <1>9 DEF S!Crash, kinds, outcomes

\* The steps that serve a unit, or refuse it, end it or are not seen.
LEMMA ServeMaps ==
  ASSUME PoolInv, NEW r \in Request, Serve(r) \/ Fail(r) \/ TimesOut(r)
  PROVE  UNCHANGED seen \/ \E end \in {"ok", "error"} : S!Finish(r, end)
<1> DEFINE Done == \E end \in {"ok", "error"} : S!Finish(r, end)
<1>1. /\ UnitOK(unit[r]) /\ unit[r] \in Unit
      /\ effect \in [Request -> SUBSET {1, 2}]
      /\ unit \in [Request -> Unit]
      /\ unit[r].pc \notin Ended => effect = [effect EXCEPT ![r] = {}]
  BY UnitFacts DEF PoolInv, TypeOK
<1>2. ASSUME NEW pc \in Using, unit[r].pc \in {"connecting"} \cup Using,
             UNCHANGED effect,
             \/ unit' = [unit EXCEPT ![r].pc = pc]
             \/ \E c : unit' = [unit EXCEPT ![r].pc = pc, ![r].conn = c]
      PROVE  UNCHANGED seen
  <2>1. unit'[r].kind = unit[r].kind /\ unit'[r].pc = pc
    BY <1>1, <1>2 DEF Unit
  <2>2. \A s \in Request : s # r => unit'[s] = unit[s]
    BY <1>1, <1>2
  <2> QED BY <1>2, <2>1, <2>2, UnseenStep DEF InProgress
<1>3. ASSUME unit[r].pc \in {"queued", "connecting"} \cup Using,
             End(r, "error"), UNCHANGED effect
      PROVE  Done
  <2>1. effect' = [effect EXCEPT ![r] = {}]
    BY <1>1, <1>3 DEF Using, Ended
  <2>2. S!Finish(r, "error")
    BY <1>3, <2>1, FinishMaps DEF InProgress
  <2> QED BY <2>2
<1>4. ASSUME NEW end \in {"ok", "error"}, unit[r].pc = "statement", End(r, end),
             effect' = [effect EXCEPT ![r] = {1}]
      PROVE  Done
  <2>1. unit[r].kind = "statement"
    BY <1>1, <1>4 DEF UnitOK
  <2>2. S!Finish(r, end)
    BY <1>4, <2>1, FinishMaps DEF InProgress, Using
  <2> QED BY <2>2
<1>5. CASE Connected(r)
  <2>1. PICK pc \in Using :
          unit' = [unit EXCEPT ![r].pc = pc, ![r].conn = unit[r].conn]
    BY <1>5 DEF Connected, Lend, Using
  <2> QED BY <1>2, <1>5, <2>1 DEF Connected, At
<1>6. CASE TxBegin(r) \/ TxStatement(r) \/ TxThrows(r)
  <2>1. PICK pc \in Using : Goto(r, pc)
    BY <1>6 DEF TxBegin, TxStatement, TxThrows, Using
  <2>2. unit[r].pc \in Using /\ UNCHANGED effect
    BY <1>6 DEF TxBegin, TxStatement, TxThrows, At, Using
  <2> QED BY <1>2, <2>1, <2>2 DEF Goto
<1>7. CASE Statement(r)
  BY <1>4, <1>7 DEF Statement, At
<1>8. CASE StatementLost(r) /\ ~UNCHANGED effect
  BY <1>4, <1>8 DEF StatementLost, At
<1>9. CASE \/ ConnectFails(r) \/ TimesOut(r) \/ StatementRefused(r) \/ TxRollback(r)
           \/ StatementLost(r) /\ UNCHANGED effect
  BY <1>3, <1>9 DEF ConnectFails, TimesOut, StatementRefused, TxRollback,
                    StatementLost, At, Using
<1>10. CASE TxCommit(r)
  <2>1. /\ unit[r].pc = "commit" /\ End(r, "ok")
        /\ effect' = [effect EXCEPT ![r] = {1, 2}]
    BY <1>10 DEF TxCommit, At
  <2>2. unit[r].kind = "transaction"
    BY <1>1, <2>1 DEF UnitOK, Opened
  <2>3. S!Finish(r, "ok")
    BY <2>1, <2>2, FinishMaps DEF InProgress, Using
  <2> QED BY <2>3
<1> QED BY <1>5, <1>6, <1>7, <1>8, <1>9, <1>10 DEF Serve, Fail

\* A step of Pool is one of Store, or is not seen.
LEMMA NextMaps == PoolInv /\ [Next]_vars => S!Next \/ UNCHANGED seen
<1> SUFFICES ASSUME PoolInv, [Next]_vars PROVE S!Next \/ UNCHANGED seen
  OBVIOUS
<1>1. ASSUME NEW r \in Request, Connect(r) PROVE S!Next
  BY <1>1, ConnectMaps DEF S!Next
<1>2. ASSUME NEW r \in Request, Release(r) PROVE S!Next
  BY <1>2, ReleaseMaps DEF S!Next
<1>3. ASSUME NEW r \in Request, Serve(r) \/ Fail(r) \/ TimesOut(r)
      PROVE  S!Next \/ UNCHANGED seen
  BY <1>3, ServeMaps DEF S!Next
<1>4. CASE Pulse
  <2>1. /\ queue \in Seq(Request) /\ IsInjective(queue) /\ queue # <<>>
        /\ unit \in [Request -> Unit]
    BY <1>4 DEF PoolInv, TypeOK, Pulse
  <2> DEFINE r == Head(queue)
  <2>2. r \in Request /\ Contains(queue, r)
    BY <2>1, TailOfQueue
  <2>3. \/ \E c \in Idle : Lend(r, c)
        \/ NewClient(r, unit[r].kind)
    BY <1>4 DEF Pulse
  <2>4. UNCHANGED effect
    BY <1>4 DEF Pulse
  <2> HIDE DEF r
  <2>5. unit[r].pc = "queued" /\ unit[r] \in Unit
    BY <2>2, UnitFacts
  <2>6. /\ unit'[r].kind = unit[r].kind
        /\ unit'[r].pc \in {"connecting", "begin", "statement"}
        /\ \A s \in Request : s # r => unit'[s] = unit[s]
    <3>1. CASE \E c \in Idle : Lend(r, c)
      <4>1. PICK c \in Idle : Lend(r, c)
        BY <3>1
      <4>2. PICK pc \in {"begin", "statement"} :
              unit' = [unit EXCEPT ![r].pc = pc, ![r].conn = c]
        BY <4>1 DEF Lend
      <4> QED BY <2>1, <2>2, <2>5, <4>2 DEF Unit
    <3>2. CASE NewClient(r, unit[r].kind)
      BY <2>1, <2>2, <3>2 DEF NewClient
    <3> QED BY <2>3, <3>1, <3>2
  <2> QED BY <2>4, <2>5, <2>6, UnseenStep DEF InProgress, Using
<1>5. CASE Restart \/ \E c \in Connection : IdleExpires(c)
  BY <1>5, UnseenStep DEF Restart, IdleExpires
<1>6. CASE Crash
  BY <1>6, CrashMaps DEF S!Next
<1>7. CASE UNCHANGED vars
  BY <1>7, UnseenStep DEF vars
<1> QED BY <1>1, <1>2, <1>3, <1>4, <1>5, <1>6, <1>7 DEF Next

\* To its callers DatabaseService is Store: a unit of work takes effect whole or
\* not at all, whole once it is answered, and a transaction answered with an
\* error has not; whatever is lost, refused or timed out.
THEOREM PoolImplementsStore == Spec => ImplementsStore
<1>1. Init => S!Init
  <2>1. NoUnit.kind = "none" /\ NoUnit.pc = "idle"
    BY DEF NoUnit
  <2> QED BY <2>1 DEF Init, S!Init, At
<1>2. UNCHANGED seen => UNCHANGED S!vars
  BY DEF seen, kinds, outcomes, S!vars
<1>3. PoolInv /\ [Next]_vars => [S!Next]_(S!vars)
  BY <1>2, NextMaps
<1>4. Spec => S!Spec
  BY <1>1, <1>3, PoolInvHolds, PTL DEF Spec, S!Spec
<1> QED BY <1>4 DEF ImplementsStore
=============================================================================
