-------------------------------- MODULE Pool ---------------------------------
(***************************************************************************)
(* DatabaseService and its pool of connections (database.service.ts).       *)
(*                                                                         *)
(* query and execute lend a connection to one statement, transaction lends  *)
(* one to BEGIN, the statements of fn and COMMIT or ROLLBACK.  The pool is   *)
(* pg-pool's, as the service configures it: max connections, a queue of      *)
(* those who wait for one, and a timer for each of them.                    *)
(*                                                                         *)
(* Neither the pool nor the client of a transaction has a listener for       *)
(* 'error': losing a connection that lies idle or serves a transaction ends  *)
(* the process.  pool.query listens to its own.                             *)
(***************************************************************************)
EXTENDS Integers, SequencesExt

CONSTANTS
  Request,      \* who may use the database at the same time
  Connection,   \* max: the connections the pool may have open
  NoConnection, \* no connection
  MaxLosses     \* how many connections may be lost

ASSUME ConnectionAssumption == NoConnection \notin Connection
ASSUME LossesAssumption     == MaxLosses \in Nat

VARIABLES
  up,      \* is the process running?
  conn,    \* the state of each connection, as the pool knows it
  open,    \* the connections on which PostgreSQL has a transaction open
  locked,  \* the connection whose transaction has locked the row all write
  queue,   \* the requests that wait for a connection, in order
  unit,    \* what each request is doing
  effect,  \* which of its writes are committed
  losses   \* how many connections have been lost

vars == <<up, conn, open, locked, queue, unit, effect, losses>>

Kind == {"statement", "transaction"}
\* The places of a unit that has been lent a connection.
Using == {"statement", "begin", "first", "second", "commit", "rollback"}
Ended == {"ok", "error", "lost"}

Unit == [pc : {"idle", "queued", "connecting"} \cup Using \cup Ended,
         kind : Kind \cup {"none"},
         conn : Connection \cup {NoConnection}]

NoUnit == [pc |-> "idle", kind |-> "none", conn |-> NoConnection]

At(r, pc)   == unit[r].pc = pc
Goto(r, pc) == unit' = [unit EXCEPT ![r].pc = pc]
End(r, how) == unit' = [unit EXCEPT ![r].pc = how, ![r].conn = NoConnection]

Idle   == {c \in Connection : conn[c] = "idle"}
Closed == {c \in Connection : conn[c] = "closed"}

-----------------------------------------------------------------------------
(* The pool. *)

\* A new client connects for r, which waits for it outside the queue.
NewClient(r, k) ==
  \E c \in Closed :
    /\ conn' = [conn EXCEPT ![c] = "connecting"]
    /\ unit' = [unit EXCEPT ![r] =
                  [pc |-> "connecting", kind |-> k, conn |-> c]]

\* Lent a connection, query sends its statement and transaction a BEGIN.
Lend(r, c) ==
  /\ conn' = [conn EXCEPT ![c] = "held"]
  /\ unit' = [unit EXCEPT
       ![r].pc = IF unit[r].kind = "transaction" THEN "begin" ELSE "statement",
       ![r].conn = c]

\* connect(): opens a client only if none lies idle and the pool is not full.
Connect(r) ==
  /\ up /\ At(r, "idle")
  /\ \E k \in Kind :
       \/ Idle = {} /\ Closed # {} /\ NewClient(r, k) /\ UNCHANGED queue
       \/ /\ Idle # {} \/ Closed = {}
          /\ queue' = Append(queue, r)
          /\ unit' = [unit EXCEPT ![r] = [NoUnit EXCEPT !.pc = "queued",
                                                        !.kind = k]]
          /\ UNCHANGED conn
  /\ UNCHANGED <<up, open, locked, effect, losses>>

\* _pulseQueue, after a client came back or was removed.
Pulse ==
  /\ queue # <<>>
  /\ LET r == Head(queue)
     IN  \/ \E c \in Idle : Lend(r, c)
         \/ Idle = {} /\ NewClient(r, unit[r].kind)
  /\ queue' = Tail(queue)
  /\ UNCHANGED <<up, open, locked, effect, losses>>

Connected(r) ==
  /\ At(r, "connecting")
  /\ Lend(r, unit[r].conn)
  /\ UNCHANGED <<up, open, locked, queue, effect, losses>>

\* PostgreSQL refuses the connection, or connectionTimeoutMillis passes.
ConnectFails(r) ==
  /\ At(r, "connecting")
  /\ conn' = [conn EXCEPT ![unit[r].conn] = "closed"]
  /\ End(r, "error")
  /\ UNCHANGED <<up, open, locked, queue, effect, losses>>

\* A mutant: the one whose timer ran out keeps his place.
TimesOutInPlace(r) ==
  /\ At(r, "queued")
  /\ End(r, "error")
  /\ UNCHANGED <<up, conn, open, locked, queue, effect, losses>>

\* connectionTimeoutMillis passes before a connection came free.
TimesOut(r) ==
  /\ At(r, "queued")
  /\ \E i \in DOMAIN queue : queue[i] = r /\ queue' = RemoveAt(queue, i)
  /\ End(r, "error")
  /\ UNCHANGED <<up, conn, open, locked, effect, losses>>

\* PostgreSQL ends the transaction of a connection and frees its row.
EndTransaction(c) ==
  /\ open' = open \ {c}
  /\ locked' = IF locked = c THEN NoConnection ELSE locked

\* idleTimeoutMillis: the client ends its session, and with it what it has open.
IdleExpires(c) ==
  /\ conn[c] = "idle"
  /\ conn' = [conn EXCEPT ![c] = "closed"]
  /\ EndTransaction(c)
  /\ UNCHANGED <<up, queue, unit, effect, losses>>

-----------------------------------------------------------------------------
(* query and execute: pool.query takes a client back as soon as its only      *)
(* statement is over, and destroys the client of one that failed.            *)

Statement(r) ==
  /\ At(r, "statement")
  /\ locked = NoConnection
  /\ effect' = [effect EXCEPT ![r] = {1}]
  /\ conn' = [conn EXCEPT ![unit[r].conn] = "idle"]
  /\ End(r, "ok")
  /\ UNCHANGED <<up, open, locked, queue, losses>>

\* A constraint is violated, a deadlock broken.
StatementRefused(r) ==
  /\ At(r, "statement")
  /\ conn' = [conn EXCEPT ![unit[r].conn] = "closed"]
  /\ End(r, "error")
  /\ UNCHANGED <<up, open, locked, queue, effect, losses>>

\* The connection is lost, before the statement was executed or after it.
StatementLost(r) ==
  /\ losses < MaxLosses
  /\ At(r, "statement")
  /\ \/ UNCHANGED effect
     \/ locked = NoConnection /\ effect' = [effect EXCEPT ![r] = {1}]
  /\ conn' = [conn EXCEPT ![unit[r].conn] = "closed"]
  /\ End(r, "error")
  /\ losses' = losses + 1
  /\ UNCHANGED <<up, open, locked, queue>>

-----------------------------------------------------------------------------
(* transaction *)

TxBegin(r) ==
  /\ At(r, "begin")
  /\ open' = open \cup {unit[r].conn}
  /\ Goto(r, "first")
  /\ UNCHANGED <<up, conn, locked, queue, effect, losses>>

\* A mutant: fn sends its statements to the pool and not to its client.
TxStatementPooled(r) ==
  /\ \/ /\ At(r, "first") /\ locked = NoConnection /\ Goto(r, "second")
        /\ effect' = [effect EXCEPT ![r] = {1}]
     \/ At(r, "second") /\ Goto(r, "commit") /\ UNCHANGED effect
  /\ UNCHANGED <<up, conn, open, locked, queue, losses>>

\* The statements of fn; the first waits for the row and locks it.
TxStatement(r) ==
  /\ \/ At(r, "first") /\ locked = NoConnection /\ locked' = unit[r].conn
                       /\ Goto(r, "second")
     \/ At(r, "second") /\ Goto(r, "commit") /\ UNCHANGED locked
  /\ UNCHANGED <<up, conn, open, queue, effect, losses>>

\* A mutant: no catch, so that finally gives back a client in a transaction.
TxThrowsUncaught(r) ==
  /\ unit[r].pc \in {"first", "second"}
  /\ conn' = [conn EXCEPT ![unit[r].conn] = "idle"]
  /\ End(r, "error")
  /\ UNCHANGED <<up, open, locked, queue, effect, losses>>

\* PostgreSQL refuses a statement and frees the row at once, or fn throws.
TxThrows(r) ==
  /\ unit[r].pc \in {"first", "second"}
  /\ locked' \in {locked, IF locked = unit[r].conn THEN NoConnection ELSE locked}
  /\ Goto(r, "rollback")
  /\ UNCHANGED <<up, conn, open, queue, effect, losses>>

TxCommit(r) ==
  LET c == unit[r].conn
  IN  /\ At(r, "commit")
      /\ EndTransaction(c)
      /\ effect' = [effect EXCEPT ![r] = {1, 2}]
      /\ conn' = [conn EXCEPT ![c] = "idle"]
      /\ End(r, "ok")
      /\ UNCHANGED <<up, queue, losses>>

\* A mutant: the client is given back after COMMIT, not in finally.
TxRollbackKept(r) ==
  /\ At(r, "rollback")
  /\ EndTransaction(unit[r].conn)
  /\ End(r, "error")
  /\ UNCHANGED <<up, conn, queue, effect, losses>>

\* The catch sends ROLLBACK and throws again; finally gives the client back.
TxRollback(r) ==
  LET c == unit[r].conn
  IN  /\ At(r, "rollback")
      /\ EndTransaction(c)
      /\ conn' = [conn EXCEPT ![c] = "idle"]
      /\ End(r, "error")
      /\ UNCHANGED <<up, queue, effect, losses>>

-----------------------------------------------------------------------------
(* The process. *)

InProgress(r) == unit[r].pc \in {"queued", "connecting"} \cup Using

\* 'error' has no listener: the process ends, and PostgreSQL rolls back what it
\* had open.  A statement or a COMMIT on its way may still be executed.
Crash ==
  /\ up
  /\ losses < MaxLosses
  /\ \E c \in Connection :
       \/ conn[c] = "idle"
       \/ \E r \in Request : unit[r].conn = c /\ unit[r].pc \in Using
                             /\ unit[r].kind = "transaction"
  /\ \E executed \in SUBSET {r \in Request : unit[r].pc \in {"statement", "commit"}} :
       effect' = [r \in Request |->
         IF r \in executed
         THEN IF unit[r].kind = "transaction" THEN {1, 2} ELSE {1}
         ELSE effect[r]]
  /\ up' = FALSE
  /\ losses' = losses + 1
  /\ conn' = [c \in Connection |-> "closed"]
  /\ open' = {}
  /\ locked' = NoConnection
  /\ queue' = <<>>
  /\ unit' = [r \in Request |->
       IF InProgress(r) THEN [unit[r] EXCEPT !.pc = "lost", !.conn = NoConnection]
       ELSE unit[r]]

Restart ==
  /\ ~up
  /\ up' = TRUE
  /\ UNCHANGED <<conn, open, locked, queue, unit, effect, losses>>

Release(r) ==
  /\ unit[r].pc \in Ended
  /\ unit' = [unit EXCEPT ![r] = NoUnit]
  /\ effect' = [effect EXCEPT ![r] = {}]
  /\ UNCHANGED <<up, conn, open, locked, queue, losses>>

-----------------------------------------------------------------------------
Init ==
  /\ up = TRUE
  /\ conn = [c \in Connection |-> "closed"]
  /\ open = {}
  /\ locked = NoConnection
  /\ queue = <<>>
  /\ unit = [r \in Request |-> NoUnit]
  /\ effect = [r \in Request |-> {}]
  /\ losses = 0

\* A request takes its next step.
Serve(r) == \/ Connected(r) \/ Statement(r)
            \/ TxBegin(r) \/ TxStatement(r) \/ TxCommit(r) \/ TxRollback(r)

Fail(r) == \/ ConnectFails(r) \/ StatementRefused(r) \/ StatementLost(r)
           \/ TxThrows(r)

Next == \/ \E r \in Request : Connect(r) \/ Serve(r) \/ Fail(r) \/ TimesOut(r)
                              \/ Release(r)
        \/ Pulse
        \/ \E c \in Connection : IdleExpires(c)
        \/ Crash \/ Restart

Spec == Init /\ [][Next]_vars

\* Node runs its timers and the continuations of what has settled; PostgreSQL
\* runs every statement, and gives a row to those who wait for it in turn.
\* Nothing has to fail, and nobody has to call.
FairSpec == /\ Spec
            /\ WF_vars(Pulse)
            /\ \A r \in Request : SF_vars(Serve(r)) /\ WF_vars(TimesOut(r))

-----------------------------------------------------------------------------
(* Properties *)

\* Every variable has its type, and those who wait are in the queue, once each.
TypeOK ==
  /\ up \in BOOLEAN
  /\ conn \in [Connection -> {"closed", "connecting", "idle", "held"}]
  /\ open \subseteq Connection
  /\ locked \in Connection \cup {NoConnection}
  /\ queue \in Seq(Request) /\ IsInjective(queue)
  /\ unit \in [Request -> Unit]
  /\ \A r \in Request : At(r, "queued") <=> Contains(queue, r)
  /\ effect \in [Request -> SUBSET {1, 2}]
  /\ losses \in 0..MaxLosses

\* However a unit ends, its connection goes back: what the pool counts as lent
\* serves exactly one unit still under way, so that the pool never shrinks.
NoConnectionLeaks ==
  /\ \A c \in Connection : conn[c] \in {"held", "connecting"} =>
       \E r \in Request : unit[r].conn = c
  /\ \A r, s \in Request :
       r # s /\ unit[r].conn = unit[s].conn => unit[r].conn = NoConnection
  /\ \A r \in Request : unit[r].conn # NoConnection =>
       conn[unit[r].conn] = IF At(r, "connecting") THEN "connecting" ELSE "held"

\* release() says nothing of an error: a connection that comes back to the pool
\* has no transaction open and no row locked, whatever ended its last unit.
IdleIsClean ==
  \A c \in Connection : c \in open \/ locked = c =>
    \E r \in Request : /\ unit[r].conn = c
                       /\ unit[r].pc \in {"first", "second", "commit", "rollback"}

\* Whoever asks for a connection gets an answer, unless the process ends:
\* neither the queue nor the row holds him for ever.
EveryUnitEnds == \A r \in Request : InProgress(r) ~> unit[r].pc \in Ended

\* Seen from the callers, Pool is Store: a transaction shows all its writes or
\* none, none once it is answered with an error, all once it is answered.
S == INSTANCE Store WITH
       kind    <- [r \in Request |-> unit[r].kind],
       outcome <- [r \in Request |->
                     IF At(r, "idle") THEN "none"
                     ELSE IF InProgress(r) THEN "pending" ELSE unit[r].pc]

ImplementsStore == S!Spec
=============================================================================
