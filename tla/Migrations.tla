----------------------------- MODULE Migrations ------------------------------
(***************************************************************************)
(* bdd/migrate.ts, and the start of the backend that depends on it.         *)
(*                                                                         *)
(* The container of the backend runs "npm run migrate && npm run start:dev"  *)
(* (backend/Dockerfile:12) and is not restarted when that ends.  "make up"    *)
(* starts it and at once runs a second "npm run migrate" in it               *)
(* (Makefile:5-8); an operator may run more of them.  What runs in the        *)
(* container ends with it.                                                  *)
(*                                                                         *)
(* The files are 1, 2, ... in the order of their names; new ones come last.  *)
(***************************************************************************)
EXTENDS Integers, SequencesExt

CONSTANTS
  Migrator,    \* the processes that run migrate.ts
  Container,   \* the one the container starts with
  LastFile,    \* how many migration files there will be
  Repeatable,  \* the files PostgreSQL would run a second time
  MaxFaults    \* how often a file's SQL or the container may fail

ASSUME MigratorAssumption == Container \in Migrator
ASSUME FilesAssumption    == LastFile \in Nat \ {0} /\ Repeatable \subseteq 1..LastFile
ASSUME FaultsAssumption   == MaxFaults \in Nat

VARIABLES
  present,   \* the files in the directory are 1..present
  table,     \* does the table _migrations exist?
  schema,    \* the files whose SQL has been committed, in that order
  recorded,  \* the rows of _migrations
  mig,       \* what each process is doing
  backend,   \* "down", "migrating" or "running"
  faults     \* how often either has failed

db   == <<table, schema, recorded>>
vars == <<present, db, mig, backend, faults>>

Running == {"create", "list", "select", "begin", "sql", "insert", "commit",
            "rollback"}

Process == [pc : Running \cup {"idle", "ok", "failed"},
            file : 0..LastFile,  \* the file it is at
            last : 0..LastFile,  \* the last file readdirSync has shown
            dry : BOOLEAN]   \* --dry-run

At(m, pc)   == mig[m].pc = pc
Goto(m, pc) == mig' = [mig EXCEPT ![m].pc = pc]

\* A mutant: the loop runs one file too far.
NextFileOneMore(m) ==
  [mig[m] EXCEPT !.pc = IF mig[m].file <= mig[m].last THEN "select" ELSE "ok",
                 !.file = IF mig[m].file <= mig[m].last THEN @ + 1 ELSE @]

\* The next file, or the end of the loop.
NextFile(m) ==
  [mig[m] EXCEPT !.pc = IF mig[m].file < mig[m].last THEN "select" ELSE "ok",
                 !.file = IF mig[m].file < mig[m].last THEN @ + 1 ELSE @]

\* A process that has come to its end leaves the container running or down.
Outcome(m, p) ==
  IF m # Container THEN backend
  ELSE CASE p.pc = "ok"     -> "running"
         [] p.pc = "failed" -> "down"
         [] OTHER           -> backend

Become(m, p) == mig' = [mig EXCEPT ![m] = p] /\ backend' = Outcome(m, p)

-----------------------------------------------------------------------------
(* PostgreSQL *)

\* m has run the SQL of f, or inserted its row, and not committed.
HasRun(m, f)      == mig[m].pc \in {"insert", "commit"} /\ mig[m].file = f
HasInserted(m, f) == At(m, "commit") /\ mig[m].file = f

\* Both refuse what is committed and wait for what is not.
SqlWaits(m)    == \E o \in Migrator \ {m} : HasRun(o, mig[m].file)
InsertWaits(m) == \E o \in Migrator \ {m} : HasInserted(o, mig[m].file)

-----------------------------------------------------------------------------
(* migrate *)

Start(m, isDryRun) ==
  /\ mig[m].pc \in {"idle", "ok", "failed"}
  /\ mig' = [mig EXCEPT ![m] =
       [pc |-> "create", file |-> 0, last |-> 0, dry |-> isDryRun]]

\* CREATE TABLE IF NOT EXISTS _migrations.  Two that both have found no table
\* insert the same name into the catalogue: the later one is refused, and its
\* process exits as after a ROLLBACK.
CreateTable(m) ==
  /\ At(m, "create")
  /\ table' = TRUE
  /\ \E late \in SUBSET {o \in Migrator \ {m} : At(o, "create") /\ ~table} :
       mig' = [o \in Migrator |->
         IF o = m THEN [mig[m] EXCEPT !.pc = "list"]
         ELSE IF o \in late THEN [mig[o] EXCEPT !.pc = "rollback"] ELSE mig[o]]
  /\ UNCHANGED <<present, schema, recorded, backend, faults>>

\* readdirSync, sorted
ListFiles(m) ==
  /\ At(m, "list")
  /\ Become(m, [mig[m] EXCEPT !.pc = IF present = 0 THEN "ok" ELSE "select",
                              !.file = IF present = 0 THEN 0 ELSE 1,
                              !.last = present])
  /\ UNCHANGED <<present, db, faults>>

\* SELECT 1 FROM _migrations: a recorded file is skipped, and a dry run only
\* names the others.
SelectFile(m) ==
  /\ At(m, "select")
  /\ \/ /\ mig[m].file \in recorded \/ mig[m].dry
        /\ Become(m, NextFile(m))
     \/ /\ mig[m].file \notin recorded /\ ~mig[m].dry
        /\ Become(m, [mig[m] EXCEPT !.pc = "begin"])
  /\ UNCHANGED <<present, db, faults>>

BeginFile(m) ==
  /\ At(m, "begin")
  /\ Goto(m, "sql")
  /\ UNCHANGED <<present, db, backend, faults>>

RunSql(m) ==
  LET f == mig[m].file
      again == f \in Range(schema) /\ f \notin Repeatable
  IN  /\ At(m, "sql")
      /\ f \in Repeatable \/ ~SqlWaits(m)
      /\ Goto(m, IF again THEN "rollback" ELSE "insert")
      /\ UNCHANGED <<present, db, backend, faults>>

\* PostgreSQL refuses the file's SQL for a reason of its own.
SqlFails(m) ==
  /\ At(m, "sql")
  /\ faults < MaxFaults
  /\ faults' = faults + 1
  /\ Goto(m, "rollback")
  /\ UNCHANGED <<present, db, backend>>

\* A mutant: filename is not UNIQUE.
InsertRowUnchecked(m) ==
  /\ At(m, "insert")
  /\ Goto(m, "commit")
  /\ UNCHANGED <<present, db, backend, faults>>

\* INSERT INTO _migrations: UNIQUE (filename)
InsertRow(m) ==
  /\ At(m, "insert")
  /\ ~InsertWaits(m)
  /\ Goto(m, IF mig[m].file \in recorded THEN "rollback" ELSE "commit")
  /\ UNCHANGED <<present, db, backend, faults>>

Commit(m) ==
  /\ At(m, "commit")
  /\ schema' = Append(schema, mig[m].file)
  /\ recorded' = recorded \cup {mig[m].file}
  /\ Become(m, NextFile(m))
  /\ UNCHANGED <<present, table, faults>>

\* What runs in the container is killed when its first process ends.
Killed(p) == IF p.pc \in Running THEN [p EXCEPT !.pc = "failed"] ELSE p

\* Each uncommitted transaction is rolled back, but for a COMMIT on its way.
RolledBack ==
  \/ UNCHANGED db
  \/ \E m \in Migrator :
       /\ At(m, "commit")
       /\ schema' = Append(schema, mig[m].file)
       /\ recorded' = recorded \cup {mig[m].file}
       /\ UNCHANGED table

\* A mutant: the catch does not throw again, and the loop goes on.
RollbackSwallowed(m) ==
  /\ At(m, "rollback")
  /\ Become(m, NextFile(m))
  /\ UNCHANGED <<present, db, faults>>

\* A mutant: what failed is tried again.
RollbackRetries(m) ==
  /\ At(m, "rollback")
  /\ Goto(m, IF mig[m].file = 0 THEN "create" ELSE "begin")
  /\ UNCHANGED backend
  /\ UNCHANGED <<present, db, faults>>

\* The catch: ROLLBACK, then throw, then exit(1).
Rollback(m) ==
  /\ At(m, "rollback")
  /\ \/ /\ m # Container
        /\ Become(m, [mig[m] EXCEPT !.pc = "failed"])
        /\ UNCHANGED db
     \/ /\ m = Container
        /\ mig' = [o \in Migrator |-> Killed(mig[o])]
        /\ backend' = "down"
        /\ RolledBack
  /\ UNCHANGED <<present, faults>>

Migrate(m) == \/ CreateTable(m) \/ ListFiles(m) \/ SelectFile(m)
              \/ BeginFile(m) \/ RunSql(m) \/ InsertRow(m) \/ Commit(m)
              \/ Rollback(m)

-----------------------------------------------------------------------------
(* The container *)

\* docker compose up -d
Up ==
  /\ backend = "down"
  /\ backend' = "migrating"
  /\ Start(Container, FALSE)
  /\ UNCHANGED <<present, db, faults>>

\* docker compose exec backend npm run migrate
Exec(m) ==
  /\ backend # "down"
  /\ m # Container
  /\ \E isDryRun \in BOOLEAN : Start(m, isDryRun)
  /\ UNCHANGED <<present, db, backend, faults>>

\* docker compose down, a crash, a lost connection
Stop ==
  /\ backend # "down"
  /\ faults < MaxFaults
  /\ faults' = faults + 1
  /\ backend' = "down"
  /\ mig' = [m \in Migrator |-> Killed(mig[m])]
  /\ RolledBack
  /\ UNCHANGED present

\* A new file appears in the directory, which is mounted.
AddFile ==
  /\ present < LastFile
  /\ present' = present + 1
  /\ UNCHANGED <<db, mig, backend, faults>>

-----------------------------------------------------------------------------
Init ==
  /\ present = 1
  /\ table = FALSE
  /\ schema = <<>>
  /\ recorded = {}
  /\ mig = [m \in Migrator |->
       [pc |-> "idle", file |-> 0, last |-> 0, dry |-> FALSE]]
  /\ backend = "down"
  /\ faults = 0

Next == \/ \E m \in Migrator : Migrate(m) \/ SqlFails(m) \/ Exec(m)
        \/ Up \/ Stop \/ AddFile

Spec == Init /\ [][Next]_vars

\* Node and PostgreSQL go on with what can go on.
FairSpec == Spec /\ \A m \in Migrator : WF_vars(Migrate(m))

-----------------------------------------------------------------------------
(* Properties *)

\* Every variable has its type, and a process is at a file it has listed.
TypeOK ==
  /\ present \in 1..LastFile
  /\ table \in BOOLEAN
  /\ schema \in Seq(1..LastFile)
  /\ recorded \subseteq 1..LastFile
  /\ mig \in [Migrator -> Process]
  /\ \A m \in Migrator :
       /\ mig[m].file <= mig[m].last /\ mig[m].last <= present
       /\ mig[m].pc \in Running \ {"create", "list", "rollback"} => mig[m].file >= 1
  /\ backend \in {"down", "migrating", "running"}
  /\ faults \in 0..MaxFaults

\* Whoever migrates at the same time, and whenever they are stopped, each file's
\* SQL is committed exactly once, in the order of the names, and with its row.
AppliedOnceInOrder ==
  /\ \A i \in DOMAIN schema : schema[i] = i
  /\ recorded = 1..Len(schema)

\* The backend serves only on a schema that has every file its own migrate.ts
\* has listed: a failed migration never goes for a finished one.
ServesMigrated ==
  backend = "running" => 1..mig[Container].last \subseteq recorded

\* Two migrations wait for each other's transaction at most until it ends.
EveryMigrationEnds ==
  \A m \in Migrator : mig[m].pc \in Running ~> mig[m].pc \notin Running

\* README.md:75: "make up-build" is the first start.  The container's migration and
\* the one make runs beside it may both send their CREATE TABLE before there is
\* _migrations.  The later one is refused, and the backend does not start if it is
\* the container's.
FirstStartSucceeds == faults = 0 => ~At(Container, "failed")
=============================================================================
