# Wordevent: a verification of the backend

TLA+ modules of the wordevent backend (`src/backend`) and of its migrations
(`src/bdd`), TLC runs on small instances, and TLAPS proofs for every instance.
The reference is the code of `src/`; each definition that models code is listed in
`PROJECT.json` under `map`, with the lines it stands for.

## 1. The system

A NestJS process serves HTTP and WebSocket requests. It keeps everything in
PostgreSQL. Each handler is an `async` function: it sends a statement, awaits
its answer, decides, and sends the next. There is no lock, no cache and no
queue of its own in the process: **all coordination between two requests is what
PostgreSQL gives to single statements**, and to one transaction, that of
`handleCreatorLeave`. What the process does keep is the pool of connections and
the rooms of its sockets. The database's schema is brought up to date by
`bdd/migrate.ts`, which the container runs before the backend.

| Component | State | Operations that change it | Interacts with |
|---|---|---|---|
| `ParticipationsService` | `participations`; `events.creator_id`, `events.active` | `join`, `leave` (with `handleCreatorLeave`) | reads `events`, `invitations`, `messages`; calls both gateways |
| `EventsService`, `EventsCrudService` | `events`, the creator's first `participations` row | `create`, `update`, `remove` | `EventsGateway`; `ON DELETE CASCADE` on all the other tables |
| `InvitationsService` | `invitations` | `create`, `updateStatus` | reads `users`, `events`; `EventsGateway` |
| `MessagesService`, `MessagesGateway` | `messages`; the rooms `chat:<id>` | `saveMessage`, `getHistory` (reads), `chat:join`, `chat:leave`, `chat:send`, `kickFromChat` | reads `events`, `participations` |
| `EventsGateway` | the rooms of the socket server | subscriptions; `emitJoined`, `emitLeft`, `emitCreated`, ... | called after the statements of a handler |
| `DatabaseService` | a pool of ten connections, its queue and timers | `query`, `execute`, `transaction` | every service |
| `AuthService`, `UsersService` | `users`, hash of the refresh token | `register`, `login`, OAuth find-or-create, `remove` | `ON DELETE CASCADE` of a removed user |
| `PlacesOfInterestService` | `places_of_interest` of one user | `create`, `update`, `remove` | `REFERENCES users` |
| Guards | none; they read the caller's row for each call | | run before every handler |
| `migrate.ts`, `seed.ts` | the schema, `_migrations`; the administrator's row | `migrate`, `seed` | started by the container and by `make` |
| PostgreSQL schema | tables, `UNIQUE`, `REFERENCES ... ON DELETE CASCADE` | single statements | |
| `EventsGeoService` | none | read-only queries | |
| Filter, throttler, configuration, nginx, UX prototypes | none that the services share | | |

### What is hard in it

* **Check, then act, in two statements.** `join` reads the event, the
  invitation and the count, and inserts in a fourth statement; `remove` and
  `update` read the creator first; `updateStatus` reads `PENDING` first;
  `saveMessage` checks the participation first; `findOrCreateOAuth` looks for the
  address first; `migrate` looks for the file first. Anything may run in between.
* **One transaction among single statements.** `handleCreatorLeave` deletes a
  row, reads the heir and writes the event at READ COMMITTED, without
  `FOR UPDATE`.
* **Row locks that nobody wrote down.** `DELETE FROM events` takes the event and
  then its participations; a creator's leave takes a participation and then the
  event. They wait for each other, and may deadlock. Two migrations wait for
  each other's uncommitted catalogue rows.
* **Effects after the effect.** Counting, emitting and kicking come after the
  row has changed and may fail, or come in another order than the changes. A
  message is stored by one statement and broadcast later.
* **Two statements for one change.** `applyUpdate` writes the scalar columns, if the dto
  has any, and the location, if it has both its numbers, in two statements; `register`
  inserts a row in one and stores its token in another. The second may fail, or find
  the row changed or gone.
* **A pool at its limit.** A transaction keeps a connection while it waits for a row;
  whoever finds none waits in a queue, with a timer that may run out as a connection
  comes free. Losing a connection that nobody listens to ends the process.
* **Restarts.** The container may stop between the SQL of a migration, the `INSERT` of
  its name and the `COMMIT`.

### What makes each component correct

* Participations: no row twice, none without an event; an event is not oversold
  by more than the overlap of the requests explains; the heir of a leaving
  creator is the participant of longest standing; the leave of a creator is all
  or nothing; every request ends.
* Events: nothing refers to a removed event; served one request at a time,
  only its creator or an admin changes or removes it.
* Invitations: a guest of a private event was invited and accepted.
* Messages: what is stored belongs to an event that exists; what a room hears can be
  read in the history; a history's pages go back in time; a client that enters
  the room and then reads misses nothing.
* Events' rooms: between calls, the count a room was last told is the table's.
* Pool: no connection is lost to it or comes back with a transaction open; a unit of
  work takes effect whole or not at all; every unit ends.
* Accounts: an address has one account; who was answered tokens has one stored; a
  place is written and removed by its owner, and what one update wrote in both its
  statements is there together until a later one replaces a part, unless two
  overlapped or one failed half way.
* Migrations: each file is applied once and in order; the backend serves only on a
  schema that is up to date; a migration ends.

All the hazards, at their lines and with the properties that would catch them,
are in `PROJECT.json` under `hazards`.

## 2. The modules

```
Tables          tables, request slots, row locks, cascade, failure, deadlock
  |-- Participations    join, leave, handleCreatorLeave
  |-- Events            create, update, remove
  |-- Invitations       create, updateStatus
  |-- Messages          saveMessage
        \ all four / Backend       Next, Spec, FairSpec, properties
                        |-- Attendance    abstract specification (INSTANCE)
                        |-- Promises      what the documents say and the code breaks
                        |     `- MCBackend      symmetry, for TLC
                        `-- BackendProofs theorems: types, locks, waits, capacity
                              |-- GuestsProofs      private events
                              `-- AttendanceProofs  one request at a time, refinement

Pool            connections, queue, timers, units of work, the end of the process
  |-- Store             abstract specification (INSTANCE ... WITH)
  `-- PoolProofs        theorems, the refinement among them

Migrations      migrate.ts by several processes, the container, make
  `-- MigrationsProofs  theorems

Accounts        users, tokens, places of interest, removal, seed
  |-- MCAccounts        symmetry, for TLC
  `-- AccountsProofs    theorems

Chat            sockets, room, messages with their dates, pages of the history
  |-- MCChat            symmetry, for TLC
  `-- ChatProofs        theorems
```

The five groups share no state that a property of one needs from another. What
`Backend` supposes of the database - a statement commits alone, a transaction whole -
is what `Store` says and `Pool` is shown to implement; the messages of `Backend` have no
dates and no readers, those of `Chat` have both and only one event.

### How state corresponds to code

`Tables`, and with it `Backend`:

| Variable | Code |
|---|---|
| `events` | the rows of `events`: `creator_id`, `capacity`, `visibility`, `active` |
| `participations[e]` | the users of the rows of event `e`, oldest first (`joined_at`) |
| `invitations[e][u]` | `status` of the only row for `(e, u)`, `"NONE"` if there is none |
| `senders[e]` | the users with a row in `messages` for `e` |
| `announced[e]` | the last `participantCount` emitted for `e` |
| `spent` | the UUIDs `create` has drawn; a UUID is never drawn twice |
| `req[r]` | a request in flight: its place in its handler and the locals read later |
| `failures` | statements that have failed, up to `MaxFailures` |

One action is one `await` of a handler, with the code that runs between it and
the next. `pc` values name the handler and the statement it is about to send
(`"join:capacity"`, `"tx:next"`). A request's `Begin` chooses the operation, the
user and the event; every error path is an `Answer` with its HTTP status.

`Pool`:

| Variable | Code |
|---|---|
| `up` | whether the Node process runs |
| `conn[c]` | what `pg-pool` knows of a client: closed, connecting, idle or held |
| `open`, `locked` | PostgreSQL's side: sessions in a transaction; who has the contended row |
| `queue` | `_pendingQueue` |
| `unit[r]` | a call of `query`, `execute` or `transaction`: its place and its client |
| `effect[r]` | which of its writes are committed |
| `losses` | connections that have been lost, up to `MaxLosses` |

`Migrations`: `present` (files in the directory), `table`, `schema` and `recorded` (the
table `_migrations`, the files whose SQL is committed, its rows), `mig[m]` (a
process: its place, its file, the files it has listed, `--dry-run`), `backend` (the
container) and `faults`.

`Chat`: `clock` (`now()`), `members` (whom `assertParticipant` lets pass), `stored` (the
rows), `sending[u]` and `reading[u]` (a `chat:send` and a walk through the history),
`drawn` (ids), `online` and `room` (sockets), `heard[u]` (what has been received).

`Accounts`: `users` and `places` (rows), `spent` (ids drawn), `holders` (whose tokens a
client has been answered), `req[r]`, `failures`, and two variables that only the
properties read: `editions` (for each create and update, in the order of their first
statements, its caller and the parts its dto has) and `entangled` (places in which two
updates have overlapped or one has failed half way). A place's `scalars` and `location`
hold the number of the edition they were written by.

**Transactions.** Between `TxDelete` and `TxCommit` nobody else sees what
`handleCreatorLeave` has written, so `participations` and `events` change only at
`TxCommit`; until then the writes are a function of the request (`OpenPc`,
`write`, `peer`). The row locks are such functions too: `HoldsRow` (a deleted
participation), `HoldsEvent` (an updated or deleted event), `Deletes`,
`HasCascaded`. A statement whose row is held is not enabled. An `INSERT` checks
`UNIQUE` before the foreign key, so it meets `RowHeld` before `BeingDeleted`.
A `DELETE FROM events` is two steps, `remove:delete` (takes the event) and
`remove:cascade` (takes its participations), because it may hold the first while
it waits for the second. The `DELETE FROM users` of `Accounts` is one step: a place's
`INSERT` takes the user's row `FOR KEY SHARE` and so comes before the `DELETE` or after it.

**Failures.** `StatementFails` lets any statement of a handler reject (connection
lost, `connectionTimeoutMillis`): the transaction, if there is one, is rolled
back, and the request is answered 500. Its locals are gone, its committed effects
stay. A statement executed whose answer is lost is this failure at the statement
after it; a last statement, such as the `COMMIT` that closes an event, never loses
its answer in `Backend` (in `Pool` it does, and the process with it).

### Abstractions

* Title, dates, address, location, image, category, message content and avatars
  are not kept: no guard reads them.
* An invitation's id is its `(event, user)` pair, which is `UNIQUE`.
* `joined_at` is represented by the order of the `INSERT`s. `now()` is read when a
  statement starts, so of two overlapping inserts the later row may have the
  earlier date. The property that needs the order, `CreatorIsOldest`, and the
  refinement are about requests served one at a time, where the two orders
  agree; no property over overlapping requests depends on the order. In `Chat` the
  dates are kept, and an `INSERT` draws its date before its row can be seen.
* In `Backend` no user is removed, so every JWT names a user and `findUserOrFail` finds one;
  `Accounts` removes users and models the guard's look-up.
* Emissions are synchronous calls, not statements: they cannot fail, except
  `kickFromChat`, whose throw is modelled (`KickFromChat`, and `Participate` in `Chat`).
* In `Chat` the event stays, and a client forgets what it has received when its socket
  leaves the room or disconnects: it reads the history again when it is back.
* In `Pool` all transactions write one contended row, the worst case for the queue, and a
  transaction sends two statements between its `BEGIN` and its `COMMIT`.
* In `Accounts` a password is right or wrong, and a provider's token names an address.
  `name`, `description` and `icon` are one part of a place, as one statement writes
  them; the dto of an update has this part, the location, both or none (`FirstStatement`),
  and a `lat` without a `lng`, which the code ignores, is none. `SpareAccount`,
  `SparePlace` and `SpareEdition` let a call begin only if the finite sets of ids still
  have what it may need: bounds of the model.
* The query of the JWT guard is an action of `Accounts` alone. The read-only operations
  (`findAll`, `findById`, `findParticipants`, `findNearby`, `findAllPending`) change
  nothing and are not actions; `getHistory` is one, in `Chat`, because its pages relate
  several reads.

## 3. Constants and assumptions

| Constant | Meaning | Assumed |
|---|---|---|
| `User`, `Admin`, `Nobody` | users, those with role ADMIN, no user | `Nobody \notin User`, `Admin \subseteq User` |
| `Event`, `NoEvent` | the UUIDs that may be drawn | `NoEvent \notin Event` |
| `Request` | slots for requests in flight | in `Backend` finite, not empty |
| `MaxCapacity` | greatest capacity of a dto | positive (`@Min(1)`) |
| `MaxFailures`, `MaxLosses`, `MaxFaults` | statements, connections, containers that may fail | natural |
| `Operation` | operations the clients call | none: a choice of what a run exercises |
| `EventsHasActive` | does `events` have the column `active`? | Boolean |
| `ChatServer` | what Nest injects in the chat gateway | `"Namespace"` or `"Server"` |
| `Connection`, `NoConnection` | the pool's connections (`max`), none | `NoConnection \notin Connection` |
| `Migrator`, `Container` | processes that migrate; the container's | `Container \in Migrator` |
| `LastFile`, `Repeatable` | migration files; those that could run twice | positive; a subset of the files |
| `Account`, `Place`, `Email`, ... | ids and addresses | `AdminEmail \in Email`, no id is `NoAccount` or `NoPlace` |
| `Limit`, `Millisecond`, `MaxClock`, `MaxMessages` | a page's messages, ticks in a millisecond, bounds | `Limit`, `Millisecond` positive |
| `MaxEditions` | creates and updates of places | natural |

`EventsHasActive` is `FALSE` for the migration as shipped and `TRUE` for the schema
the code was written for. As shipped, `join` and `leave` answer 500 at their first
statement, `getEventOrThrow`; all runs suppose the column, and the proofs hold for
both. `ChatServer` is `"Namespace"`, because the gateway is declared with
`namespace: '/chat'`.

## 4. The runs that pass

| Run | Instance | Shows |
|---|---|---|
| `one_by_one` | 3 users, 1 event, 1 slot, capacities to 3, 1 failure, every operation | `ImplementsAttendance`, `CreatorIsOldest`, `RoomsAreCurrent` |
| `overlapping` | 2 users (1 admin), 1 event, 2 slots, capacities to 2, 1 failure, all but `update` | `TypeOK`, `NoOrphans`, `GuestsWereInvited` |
| `three_at_once` | 3 users, 1 event, 3 slots, capacities to 2 | `OvershootBounded`, `OpenTransactionHoldsRow`, `LocksExclusive`, `WaitsEnd` |
| `answered` | 2 users, 1 event, 2 slots, capacities to 2 | `EveryRequestAnswered` |
| `pool` | 3 requests, 2 connections, 1 loss | `TypeOK`, `NoConnectionLeaks`, `IdleIsClean`, `EveryUnitEnds`, `ImplementsStore` |
| `migrations` | 2 processes, 3 files, 2 faults | `TypeOK`, `AppliedOnceInOrder`, `ServesMigrated`, `EveryMigrationEnds` |
| `chat` | 2 users, 2 messages, pages of 1, 3 ticks, 2 of them in one millisecond | `TypeOK`, `HeardIsStored`, `PagesDescend`, `NothingMissed` |
| `accounts` | 3 accounts, 1 place, 2 addresses, 2 slots, 3 editions, 1 failure | `TypeOK`, `HoldersAreStored`, `WrittenByOwner`, `OwnersRemove`, `PlacesAreWhole` |

* **`ImplementsAttendance`**: with one request at a time, the
  statements of each handler amount to one atomic step of `Attendance`, or to none;
  also when a statement fails half-way. The refinement mapping is the identity on
  the tables: `Attendance` never mentions requests. A failing `TxCommit` must leave
  nothing behind; a failing `join:count` must leave the whole join.
* **`CreatorIsOldest`**: however joins, leaves and handovers follow each other, the
  creator has the oldest row of an active event. Three users and capacity 3 let an
  heir be chosen from two, and a former creator rejoin behind them.
* **`RoomsAreCurrent`**: once nothing is in flight, the last `participantCount` emitted is
  the table's. It needs every handler to count after it writes, and to emit what it has
  counted. It is about single calls: two joins that overlap may emit in the other
  order, which no document excludes.
* **`GuestsWereInvited`**: no request changes `visibility` in this run. A guest's
  invitation may have become `DECLINED` since, through a second overlapping
  answer (section 5), but never was only `PENDING`.
* **`NoOrphans`**: an `INSERT` into `participations`, `invitations` or `messages` that
  overlaps a removal either waits for it and fails, or is cascaded.
* **`OvershootBounded`**: joins oversell an event, but rows plus joins about to insert
  never exceed `MaxCapacity + Cardinality(Request) - 1`.
* **`OpenTransactionHoldsRow`, `LocksExclusive`**: the modelled PostgreSQL locks do
  what the transaction relies on.
* **`WaitsEnd`**: `Waits` gathers, place by place, what each statement waits for. Whoever
  waits does so for an open leave or removal of his event, and one of those goes on or is
  party to a deadlock of exactly two; and two that the model takes for deadlocked do wait
  for each other. So the rule of `DeadlockAbort` neither misses a cycle nor breaks what is
  none. Three slots let a third request wait behind two that wait for each other.
* **`EveryRequestAnswered`**: no request waits for ever, although removals and creators'
  leaves deadlock. Checked under `FairSpec`, without symmetry.
* **`ImplementsStore`**: seen from its callers the pool is `Store`: a statement or a
  transaction takes effect at once and whole or not at all; one answered with a result
  has; a transaction answered with an error has not. When the process ends nobody knows.
  `kind` and `outcome` are read off `unit`; `effect` is itself.
* **`NoConnectionLeaks`, `IdleIsClean`, `EveryUnitEnds`**: whatever a unit ends with, its
  connection goes back, with no transaction open (`release()` is told of no error, so the
  pool never discards one), and whoever waits for a connection or for the row is served,
  or times out. Three requests and two connections let two transactions hold all there
  is while a third waits and one of the two waits for the other's row.
* **`AppliedOnceInOrder`, `ServesMigrated`, `EveryMigrationEnds`**: the container's migration
  and another find the same file unrecorded; PostgreSQL's locks, the `UNIQUE` name and
  one transaction for the SQL and its row let one of them commit. A stop between any two
  statements leaves nothing half done, and a migration that fails never goes for one
  that has ended well.
* **`HeardIsStored`, `PagesDescend`, `NothingMissed`**: who hears a message can read it;
  no message comes on two pages whatever is stored meanwhile; who enters the room
  *before* he reads has read, heard or is about to hear every message, but for those of
  the same millisecond as a cursor, which `<` steps over. A clock with two ticks in a
  millisecond is the least in which this happens; pages of one message let two messages
  take two pages.
* **`HoldersAreStored`, `WrittenByOwner`, `OwnersRemove`**: see section 1. Three accounts
  let one be removed and its address registered again while another is logged in; two
  slots let an update overlap another, a removal of the place or of its owner.
* **`PlacesAreWhole`**: a create followed by an update of the name alone leaves columns of
  two dtos, and rightly so. `Torn` is something else: a part shows an edition that had the
  other part too, while the other part shows an earlier one. Three editions let two updates
  with both parts overlap after a create, or one with a single part come between.

**Bounds.** One event: no guard and no lock relates two events, so two
events add only products of independent behaviours. Two slots suffice for every
two-party race; three are used where the property counts requests or where a
third may slip between two that wait. Capacity 2 is the least at which an event
has a place for a guest. One failure suffices because a failing request ends. The
theorems of section 6 hold without these bounds.

**Fairness.** `SF(Serve(r))`, in `Backend` and in `Pool`: Node runs the continuation of every
settled await, and PostgreSQL runs every statement; the waiters of a row are queued in the
order in which they came, so a statement whose row is free again and again gets it.
Weak fairness would not do: other requests may take the row anew each time it
comes free. `WF(DeadlockAbort(r))`: PostgreSQL looks for a cycle whenever a
statement has waited `deadlock_timeout` and fails one statement of it. `WF(Pulse)`:
`pg-pool` calls `_pulseQueue` whenever a client comes back or goes. `WF(TimesOut(r))`: the
timer of `connectionTimeoutMillis`. `WF(Migrate(m))`: a migration goes on when it can; two
of them never wait for each other in a cycle. Clients, failures, stops and restarts have
no fairness: nobody has to call, and nothing has to fail.

Every property of a passing run has a mutant in `PROJECT.json`: an operator placed
just before the one it replaces (`JoinCapacityOneMore`, `TxDeletePooled`, ...), a bug
of the kind a change to that code could bring, under which TLC finds the property
violated.

## 5. The runs that find a divergence

Each states what a document or a comment of the repository says, and TLC shows a
behaviour of the code that breaks it. The quotations are in `PROJECT.json` under
`findings`.

| Run | Promise | What the code does |
|---|---|---|
| `lead_to_leaver` | `LeadTakesPart` (`Promises`) | the heir leaves between the `SELECT` that names him and the `UPDATE` |
| `erased_with_guest` | `ErasedWhenAlone` (`Promises`) | a user joins after the creator was found alone; his row goes with the event |
| `first_start` | `FirstStartSucceeds` (`Migrations`) | `make up-build` runs a migration beside the container's; both send `CREATE TABLE _migrations` to the empty database, the later one is refused, and if it is the container's the backend does not start |
| `first_login` | `FirstLoginServed` (`Accounts`) | of two first logins with one address at once the second answers 500 |

Met while modelling, visible in the models, without a run of their own:

* two joins count before either inserts and oversell the event
  (`participations.service.ts:165`; `docs/architecture.md:93`);
* a former creator removes the event when his leave hands it over between `remove`'s check
  and its `DELETE` (`events-crud.service.ts:97`; the comment at `:88`): the check is of
  another statement, and the `DELETE` names only the event;
* of two overlapping answers to an invitation both find it `PENDING`, and the later
  overwrites the earlier (`invitations.service.ts:87`; `docs/features.md:85`);
* two joins emit their counts in the opposite order, and the room keeps the older one
  (`participations.service.ts:57`; `docs/features.md:71` promises a broadcast at each join
  and leave, and no order);
* `kickFromChat` reads `this.server.sockets.sockets` of a namespace and throws after the
  leave has been committed, which answers 500; who has left stays in the chat's room
  (`messages.gateway.ts:66`; `participations.e2e-spec.ts:132`, `PLAN.md:281`);
* `events` has no column `active` as shipped (`participations.service.ts:148`,
  `001_init.sql:29`);
* `POST /auth/refresh` has no guard and looks up the user `undefined`: always 404
  (`auth.controller.ts:64`; `auth.e2e-spec.ts:113` expects 201);
* `JwtStrategy.validate` answers 404, not the `UnauthorizedException` it mentions, for a
  removed user (`jwt.strategy.ts:23`); the login of an account removed meanwhile still
  answers tokens (`auth.service.ts:79`);
* the history skips messages of the same millisecond as its cursor
  (`messages.service.ts:92`);
* `--dry-run` creates `_migrations` although it prints that nothing will be changed
  (`migrate.ts:18,21`); the seed prints "Admin créé" also on a conflict (`seed.ts:22,27`);
* losing a connection that lies idle or serves a transaction ends the process: neither
  the pool nor the client has a listener for `error` (`database.service.ts:9,53`);
* `findAll` lists closed events although its comment says "actifs"
  (`events-geo.service.ts:24`); the leave of a lone
  creator emits nothing to the room (`participations.service.ts:139`); a join that has
  read the event active inserts after it was deactivated (`:50`); a message
  whose check passed is stored after its sender has left (`messages.service.ts:51`); the
  leave of a creator is carried out although `participations.e2e-spec.ts:145` expects 403.

## 6. What is proved

For every value of the constants within the assumptions of section 3: any number of users,
ids, files, connections and requests, and any bound on failures and losses.

| Module | Theorem | States |
|---|---|---|
| `BackendProofs` | `TypeCorrect` | `Spec => []TypeOK` |
| | `TransactionsHold` | `Spec => []OpenTransactionHoldsRow` |
| | `LocksExclude` | `Spec => []LocksExclusive` |
| | `NothingOrphaned` | `Spec => []NoOrphans` |
| | `OvershootIsBounded` | `Spec => []OvershootBounded` |
| | `NoLongerDeadlock` | `Spec => []WaitsEnd` |
| `GuestsProofs` | `GuestsInvited` | `"update" \notin Operation => (Spec => []GuestsWereInvited)` |
| `AttendanceProofs` | `OldestLeads` | `OneSlot => (Spec => []CreatorIsOldest)` |
| | `RoomsStayCurrent` | `OneSlot => (Spec => []RoomsAreCurrent)` |
| | `BackendImplementsAttendance` | `OneSlot => (Spec => ImplementsAttendance)` |
| `PoolProofs` | `PoolTypeCorrect` | `Spec => []TypeOK` |
| | `ConnectionsComeBack` | `Spec => []NoConnectionLeaks` |
| | `IdleConnectionsClean` | `Spec => []IdleIsClean` |
| | `PoolImplementsStore` | `Spec => ImplementsStore` |
| `MigrationsProofs` | `MigrationsTypeCorrect` | `Spec => []TypeOK` |
| | `FilesAppliedOnce` | `Spec => []AppliedOnceInOrder` |
| | `ServedOnMigrated` | `Spec => []ServesMigrated` |
| `ChatProofs` | `ChatTypeCorrect` | `Spec => []TypeOK` |
| | `WhatIsHeardIsStored` | `Spec => []HeardIsStored` |
| | `HistoryDescends` | `Spec => []PagesDescend` |
| | `ReaderMissesNothing` | `Spec => []NothingMissed` |
| `AccountsProofs` | `AccountsTypeCorrect` | `Spec => []TypeOK` |
| | `TokensAreStored` | `Spec => []HoldersAreStored` |
| | `OwnersWrite` | `Spec => []WrittenByOwner` |
| | `PlacesGoWithOwners` | `Spec => OwnersRemove` |
| | `WholePlaces` | `Spec => []PlacesAreWhole` |

### The backend

**Types.** `TypeOK` is inductive: it includes `WellFormed`, which says which locals a
request has at which place, and that no user has two rows in an event. The lemmas
about `WithoutRow` and `Append` say what `DELETE` and `INSERT` do to a sequence
without duplicates; there is one lemma per handler, one step per action.

**Locks.** None of `OpenTransactionHoldsRow`, `LocksExclusive` and `NoOrphans` is
inductive by itself. A commit keeps another transaction's row only because no two
hold the same row; an `INSERT` leaves no orphan only because no event is removed
while it is referred to; a fresh event hits no open transaction only because no
request has its UUID. Their conjunction is:

    LockInv == TypeOK /\ OpenTransactionHoldsRow /\ LocksExclusive
               /\ NoOrphans /\ DrawnOnce

where `DrawnOnce` says that requests name UUIDs that have been drawn, and that a
request about to insert an event is the only one to name its UUID. Most steps take no lock:
`Quiet(r)` says so once, `QuietStep` shows that such a step keeps `LockInv` if it keeps
what is true of the tables, and the few that take a lock (`TxDelete`, `TxWrite`,
`TxCascade`, `RemoveDelete`) go through `TakingStep`: every lock taken was free.

**Overshoot.** The invariant counts, besides the rows, the joins that have found room
and not inserted. It is inductive given `TypeOK`: a step that adds to the sum is
`JoinCapacity`, which saw `rows < capacity`, and the requests at `join:insert` are then at most
all the others, `Cardinality(Request) - 1`, and the one that passes; an `INSERT`
moves a request from one summand to the other; a request that serves another event
or another step (`Elsewhere`: it brings nobody to the insertion) adds nothing.

**Waits.** `WaitsEnd` follows from `LockInv` state by state, for any number of requests.
Whoever waits does so for a request that holds rows of the same event
(`WaitsForHolder`): an open leave or a removal. If that one waits too (`HolderGoesOn`), it
is either a leave about to write the event, and who has written it is at its `COMMIT` or
in a cascade, which makes a deadlock of two; or a cascade, and the leave that it waits
for goes on, or is about to write the event, a deadlock of two again, or is in a cascade
itself, which `LocksExclusive` excludes. `ServedNotWaiting` says that a request for which
`Waits` holds takes no step. That every other can take one is a matter of `ENABLED`, and
TLC's: `EveryRequestAnswered` would fail otherwise.

**Guests** (`GuestsProofs`).

    GuestInv == LockInv /\ GuestsWereInvited /\ "update" \notin Operation
                /\ \A r \in Request : req[r].pc \notin UpdatePc /\ Vouched(r)

The check of an invitation and the `INSERT` of the guest are two statements, and the lead
may pass on between them; `GuestsWereInvited` alone says nothing of who is about to
insert or to lead. `Vouched(r)` does: a join past its check is of a user whose invitation
is still accepted, or declined since; an open leave is its creator's, or the lead has
passed to a guest who was invited; and so was the heir it has read. The hypothesis is that
of the property: with `update`, an event that becomes private keeps the guests it had, as
in the code.

**One request at a time** (`AttendanceProofs`). With overlapping requests
`CreatorIsOldest`, `RoomsAreCurrent` and the refinement do not hold: section 5 names the
interleavings. `OneSlot`, that there is one request slot, is therefore a hypothesis of the
three theorems; users, events, capacities, operations, failures and the length of the
behaviour are free.

    SoloInv == LockInv /\ OneSlot /\ CreatorIsOldest /\ RoomsTold
               /\ \A r \in Request : Finds(r)

`Finds` says of every place of every handler what it has found out of its event and still
holds: `join` about to insert has found an active event that its user does not lead,
with room and, if private, an accepted invitation; a creator's transaction that is to
transfer has its heir at the head of the other rows, one that is to close finds none.
`RoomsTold` weakens `RoomsAreCurrent` while a handler is between a change of the rows and
its emission (`Telling`). A fresh UUID names no event because only drawn ones do
(`EventsDrawn`, inductive by itself).

**The refinement.** The mapping is the identity on the four tables. Each handler has one
step that changes them - the `INSERT` of `join`, the `DELETE` of `leave`, the `COMMIT` of
a creator's leave, the statement of `create`, the `UPDATE` of the scalar columns, the
cascade of `remove`, the one write of `invite`, `updateStatus` and `saveMessage` - and
`Finds` there is the guard of the action of `Attendance`; every other step is a stutter,
failures among them. `OthersIsWithoutRow` and `AloneIsOneRow` relate the rows `Attendance`
speaks of to what `DELETE` leaves. `Attendance` defines those rows by their places and not
with `SelectSeq`, whose recursive definition the provers cannot open.

### The pool

    PoolInv == TypeOK /\ NoConnectionLeaks /\ IdleIsClean
               /\ \A r \in Request : UnitOK(unit[r]) /\ NothingYet

`UnitOK` ties a unit's place to its connection and its kind: it has one exactly while it
uses or awaits one. That is why a connection that comes free is nobody else's, which
`NoConnectionLeaks` and `IdleIsClean` need of each other: a clean connection can only be
lent to one unit, and a unit gives back the one it has. `NothingYet` says that nothing is
committed of a unit under way. Two lemmas say what joining and leaving a queue does to a
sequence without repetitions; `UnitStep` covers the steps that lend or give back nothing.

**Refinement.** Under the mapping each action of `Pool` is a step of `Store` or a stutter:
`Connect` is `Start`; the action that ends a unit is `Finish`, with the effect it leaves,
which by `NothingYet` is what it adds; `Crash` is `Crash`, whose `applied` are the statements
and commits that were on their way; the rest changes neither `kind`, `outcome` nor
`effect`. The theorem is about safety; the liveness of the pool stays with TLC.

### The migrations

    MigrationInv == TypeOK /\ AppliedOnceInOrder /\ OneCommits /\ Served
                    /\ \A m \in Migrator : InPlace(mig[m], present, Len(schema))

`AppliedOnceInOrder` is not inductive: that a `COMMIT` appends the *next* file needs to know
that a process about to commit is at file `Len(schema) + 1` (`InPlace`), and stays there
because it is the only one (`OneCommits`), which the `UNIQUE` name enforces. `Served` adds
that the container's own migration has ended well, and is no dry run.

### The chat

    ChatInv == Base /\ HeardIsStored /\ \A u \in User : SendOK(sending[u])
               /\ ReadersAreIn
               /\ \A u \in User : WalkOK(reading[u], stored, heard[u] \cup Pending)

`WalkOK` is what makes `PagesDescend` and `NothingMissed` inductive: the cursor is not later
than any message the walk has, and each message stored is still before the cursor, or the
walk has it, has stepped over it, or its client has heard it or is about to. A message
stored meanwhile is about to be heard; one that is broadcast reaches the reader because
`ReadersAreIn` the room; a page leaves out only what is of its oldest message's
millisecond or older (`TruncatedOrder`). That a page has an oldest message is
`LeastTime`, from the well-foundedness of `<` on the naturals. TLC's run has pages of one
message; the theorems are for any `Limit`.

### The accounts

    AccountInv == TypeOK /\ IdsDrawn /\ HoldersAreStored
                  /\ WrittenByOwner /\ EditionsKnown /\ PlacesAreWhole /\ OneHalfway
                  /\ \A r \in Request : SlotOK(req[r])

`WrittenByOwner` survives the gap between check and write because an owner never changes
and an id is never drawn twice: `SlotOK` says that the place a request is about to write
or delete is still its caller's (`IsOwner`), or gone. `OwnersRemove` follows from that step
by step. `PlacesAreWhole` needs `OneHalfway`: a place that is not entangled has at most one
request half through it, and its scalar columns come from that request's edition or from a
later one that leaves the location alone (`Leads`), so that its second statement tears
nothing. An edition gets its number with its first statement: then the newest one is what
has just been written (`EditionNumber`), and what is torn or leads depends only on the
editions that a place shows, which later ones do not change (`TornStays`, `LeadsStays`).
`IdsDrawn` is why a new row
has no tokens in circulation. `SlotKept` shows once for all actions that what a request
knows stays true; `StillStep` serves those that only read, `ShrinkStep` the deletions.

### Only model-checked

* Liveness, which is out of the prover's reach: `EveryRequestAnswered`, `EveryUnitEnds`,
  `EveryMigrationEnds`.
* The violations, which are TLC's.

## 7. Not modelled

* **The removal of a user as the events see it.** `DELETE FROM users` cascades to his events,
  participations, invitations and messages. `Accounts` models the cascade to places;
  in `Backend` users stay. The cascade would take rows of all four tables and their locks
  in an order that the schema does not fix.
* **Who is in the rooms of `EventsGateway`.** `announced` is what a room is told; a socket's
  subscriptions change nothing else.
* **`EventsGeoService`** and the other read-only queries: they keep no state and are a
  single statement each.
* **The throttler**, which refuses a request before its handler; **the OAuth verifiers**,
  whose answer is the provider's; **configuration**, fixed at start-up; nginx and the
  database's container.
* **`ux/`**: two generated prototypes that do not call the backend, with mock data and no
  rules of their own. They are some 15 000 of the repository's 19 500 lines of
  implementation, which is why the lines that `map` names are a small share of the
  whole, and a large one of what has state. `mobile/` has no code.

## 8. Plan

1. Done: `Tables`, `Participations`, `Events`, `Invitations`, `Messages`, `Backend`, the
   abstract `Attendance`, `Promises`.
2. Done: `Pool` and `Store`, `Migrations`, `Chat`, `Accounts`, and the proofs of their
   safety properties.
3. Done: `GuestsWereInvited` without `update`; `CreatorIsOldest`, `RoomsAreCurrent` and
   `ImplementsAttendance` for one slot; `WaitsEnd`. Every invariant, every action
   property and both refinements that a passing run checks are theorems.
4. Next, proofs: what overlapping requests keep of `CreatorIsOldest` (an event that is
   closed takes no new row but those of joins under way) and of `RoomsAreCurrent`.
5. Perhaps: the cascade of a removed user in the tables of `Backend`.

## 9. Running

    tlc -workers 2 -config one_by_one.cfg MCBackend
    tlc -workers 2 -config pool.cfg Pool
    tlapm PoolProofs.tla

| Runs | Module |
|---|---|
| `one_by_one`, `overlapping`, `three_at_once`, `answered`, `lead_to_leaver`, `erased_with_guest` | `MCBackend` |
| `pool` | `Pool` |
| `migrations`, `first_start` | `Migrations` |
| `chat` | `MCChat` |
| `accounts`, `first_login` | `MCAccounts` |

The runs take from a second to about two minutes; the proofs of `BackendProofs`,
`GuestsProofs` and `AttendanceProofs` some minutes each, the others less than one.
