-------------------------- MODULE MigrationsProofs --------------------------
(***************************************************************************)
(* What holds of Migrations for any number of processes, files and faults.  *)
(***************************************************************************)
EXTENDS Migrations, SequenceTheorems, TLAPS

\* The places at which a process has a file, and those between BEGIN and COMMIT.
AtFile  == {"select", "begin", "sql", "insert", "commit"}
Writing == {"begin", "sql", "insert", "commit"}

\* A process that has come to its file in a directory of n files, when the SQL
\* of k files has been committed: all before its file are among the k, unless it
\* only lists them; and the row it is about to commit is of the next one.
InPlace(p, n, k) ==
  /\ p.file <= p.last /\ p.last <= n
  /\ p.pc \in AtFile => p.file >= 1
  /\ p.pc \in AtFile /\ ~p.dry => p.file <= k + 1
  /\ p.dry => p.pc \notin Writing
  /\ p.pc = "commit" => p.file = k + 1

\* UNIQUE (filename): one process at a time is about to commit.
OneCommits == \A m, o \in Migrator : At(m, "commit") /\ At(o, "commit") => m = o

\* The backend runs only after its own migration, which is not a dry run.
Served ==
  /\ ~mig[Container].dry
  /\ backend = "running" => /\ At(Container, "ok")
                            /\ mig[Container].last <= Len(schema)

\* The inductive invariant.
MigrationInv ==
  /\ TypeOK
  /\ AppliedOnceInOrder
  /\ \A m \in Migrator : InPlace(mig[m], present, Len(schema))
  /\ OneCommits
  /\ Served

\* What the process m becomes, when it is p.
Fits(m, p) ==
  /\ p \in Process
  /\ InPlace(p, present, Len(schema))
  /\ p.pc = "commit" => \A o \in Migrator \ {m} : ~At(o, "commit")
  /\ m = Container => ~p.dry

-----------------------------------------------------------------------------
(* Steps *)

\* A process that steps within the schema as it is keeps the invariant.
LEMMA ProcessStep ==
  ASSUME MigrationInv, NEW m \in Migrator, NEW p, Fits(m, p),
         mig' = [mig EXCEPT ![m] = p],
         UNCHANGED <<present, schema, recorded>>,
         table' \in BOOLEAN, faults' \in 0..MaxFaults,
         backend' \in {"down", "migrating", "running"},
         backend' = "running" =>
           IF m = Container THEN p.pc = "ok" /\ p.last <= Len(schema)
           ELSE backend = "running"
  PROVE  MigrationInv'
<1> USE DEF MigrationInv
<1>1. /\ mig' \in [Migrator -> Process]
      /\ \A o \in Migrator : mig'[o] = IF o = m THEN p ELSE mig[o]
  BY DEF TypeOK, Fits
<1>2. \A o \in Migrator : InPlace(mig'[o], present, Len(schema))
  BY <1>1 DEF Fits
<1>3. TypeOK'
  BY <1>1, <1>2 DEF TypeOK, InPlace, AtFile, Running
<1>4. OneCommits'
  BY <1>1 DEF OneCommits, At, Fits
<1>5. Served'
  BY <1>1, MigratorAssumption DEF Served, At, Fits
<1>6. AppliedOnceInOrder'
  BY DEF AppliedOnceInOrder
<1> QED BY <1>2, <1>3, <1>4, <1>5, <1>6

\* The end of the loop: what NextFile gives m, its file being among the k
\* committed or only listed.
LEMMA NextFileFits ==
  ASSUME MigrationInv, NEW m \in Migrator, mig[m].pc \in AtFile,
         NEW k \in Nat, Len(schema) <= k, mig[m].dry \/ mig[m].file <= k
  PROVE  /\ NextFile(m) \in Process
         /\ InPlace(NextFile(m), present, k)
         /\ NextFile(m).pc \in {"select", "ok"}
         /\ NextFile(m).dry = mig[m].dry
         /\ NextFile(m).pc = "ok" =>
              NextFile(m).last = mig[m].last /\ mig[m].last = mig[m].file
<1> DEFINE p == mig[m]
<1>1. /\ p \in Process /\ InPlace(p, present, Len(schema)) /\ p.file >= 1
      /\ p.file \in 0..LastFile /\ p.last \in 0..LastFile /\ p.dry \in BOOLEAN
      /\ LastFile \in Nat /\ present \in 1..LastFile
  BY FilesAssumption DEF MigrationInv, TypeOK, InPlace, Process
<1>2. CASE p.file < p.last
  <2>1. NextFile(m) = [pc |-> "select", file |-> p.file + 1, last |-> p.last,
                       dry |-> p.dry]
    <3>1. NextFile(m) = [p EXCEPT !.pc = "select", !.file = p.file + 1]
      BY <1>2 DEF NextFile
    <3>2. p = [pc |-> p.pc, file |-> p.file, last |-> p.last, dry |-> p.dry]
      BY <1>1 DEF Process
    <3> HIDE DEF p
    <3> QED BY <3>1, <3>2, ZenonT(20)
  <2>2. p.file + 1 \in 0..LastFile /\ p.last <= present
    BY <1>1, <1>2 DEF InPlace
  <2>3. p.file <= k \/ p.dry
    OBVIOUS
  <2> QED BY <1>1, <1>2, <2>1, <2>2, <2>3
          DEF Process, Running, InPlace, AtFile, Writing
<1>3. CASE ~(p.file < p.last)
  <2>1. NextFile(m) = [pc |-> "ok", file |-> p.file, last |-> p.last,
                       dry |-> p.dry]
    <3>1. NextFile(m) = [p EXCEPT !.pc = "ok", !.file = p.file]
      BY <1>3 DEF NextFile
    <3>2. p = [pc |-> p.pc, file |-> p.file, last |-> p.last, dry |-> p.dry]
      BY <1>1 DEF Process
    <3> HIDE DEF p
    <3> QED BY <3>1, <3>2, ZenonT(20)
  <2>2. p.file = p.last
    BY <1>1, <1>3 DEF InPlace
  <2> QED BY <1>1, <1>3, <2>1, <2>2 DEF Process, Running, InPlace, AtFile, Writing
<1> QED BY <1>2, <1>3

\* A COMMIT appends the next file, and with it the row of that file.
LEMMA CommitApplies ==
  ASSUME MigrationInv, NEW m \in Migrator, At(m, "commit"),
         schema' = Append(schema, mig[m].file),
         recorded' = recorded \cup {mig[m].file}
  PROVE  /\ schema' \in Seq(1..LastFile)
         /\ Len(schema) \in Nat /\ Len(schema)' = Len(schema) + 1
         /\ recorded' \subseteq 1..LastFile
         /\ AppliedOnceInOrder'
<1> DEFINE f == mig[m].file
<1>1. /\ f \in 1..LastFile /\ f = Len(schema) + 1
      /\ schema \in Seq(1..LastFile) /\ recorded \subseteq 1..LastFile
  BY FilesAssumption
     DEF MigrationInv, TypeOK, InPlace, AtFile, At, Process
<1>2. /\ Len(schema) \in Nat
      /\ DOMAIN schema = 1..Len(schema)
      /\ schema' \in Seq(1..LastFile)
      /\ Len(schema)' = Len(schema) + 1
      /\ \A i \in 1..Len(schema) : schema'[i] = schema[i]
      /\ schema'[Len(schema) + 1] = f
  BY <1>1, LenProperties, AppendProperties
<1>3. DOMAIN schema' = 1..Len(schema)+1
  BY <1>2, LenProperties
<1>4. \A i \in DOMAIN schema' : schema'[i] = i
  BY <1>1, <1>2, <1>3 DEF MigrationInv, AppliedOnceInOrder
<1>5. recorded' = 1..Len(schema)'
  BY <1>1, <1>2 DEF MigrationInv, AppliedOnceInOrder
<1> QED BY <1>1, <1>2, <1>4, <1>5 DEF AppliedOnceInOrder

-----------------------------------------------------------------------------
(* Actions *)

\* Who starts again has no file yet.
LEMMA StartKeeps ==
  ASSUME MigrationInv, NEW m \in Migrator, NEW isDryRun \in BOOLEAN,
         Start(m, isDryRun), m = Container => ~isDryRun,
         UNCHANGED <<present, db, faults>>,
         \/ m # Container /\ UNCHANGED backend
         \/ backend' = "migrating"
  PROVE  MigrationInv'
<1> DEFINE p == [pc |-> "create", file |-> 0, last |-> 0, dry |-> isDryRun]
<1>1. p \in Process /\ InPlace(p, present, Len(schema))
  BY FilesAssumption
     DEF Process, Running, InPlace, AtFile, Writing, MigrationInv, TypeOK
<1>2. Fits(m, p) /\ mig' = [mig EXCEPT ![m] = p]
  BY <1>1 DEF Fits, Start
<1> HIDE DEF p
<1> QED BY <1>2, ProcessStep DEF MigrationInv, TypeOK, db

\* The table _migrations exists for one process, and not for those refused.
LEMMA CreateTableKeeps ==
  ASSUME MigrationInv, NEW m \in Migrator, CreateTable(m)
  PROVE  MigrationInv'
<1> USE DEF MigrationInv
<1>1. PICK late \in SUBSET {o \in Migrator \ {m} : At(o, "create") /\ ~table} :
        mig' = [o \in Migrator |->
          IF o = m THEN [mig[m] EXCEPT !.pc = "list"]
          ELSE IF o \in late THEN [mig[o] EXCEPT !.pc = "rollback"] ELSE mig[o]]
  BY DEF CreateTable
<1>2. \A o \in Migrator :
        /\ mig[o] \in Process
        /\ \/ mig'[o] = mig[o]
           \/ /\ mig[o].pc = "create"
              /\ \E pc \in {"list", "rollback"} :
                   mig'[o] = [mig[o] EXCEPT !.pc = pc]
  BY <1>1 DEF TypeOK, CreateTable, At
<1>3. \A o \in Migrator :
        /\ mig'[o] \in Process
        /\ mig'[o].file = mig[o].file /\ mig'[o].last = mig[o].last
        /\ mig'[o].dry = mig[o].dry
        /\ \/ mig'[o].pc = mig[o].pc
           \/ mig[o].pc = "create" /\ mig'[o].pc \in {"list", "rollback"}
  BY <1>2 DEF Process, Running
<1>4. UNCHANGED <<present, schema, recorded, backend, faults>> /\ table' = TRUE
  BY DEF CreateTable
<1>5. mig' \in [Migrator -> Process]
  BY <1>1, <1>3
<1>6. \A o \in Migrator : InPlace(mig'[o], present, Len(schema))
  BY <1>3 DEF InPlace, AtFile, Writing
<1>7. TypeOK'
  BY <1>3, <1>4, <1>5, <1>6 DEF TypeOK, InPlace, AtFile, Running
<1>8. OneCommits'
  BY <1>3 DEF OneCommits, At
<1>9. Served'
  BY <1>3, <1>4, MigratorAssumption DEF Served, At
<1>10. AppliedOnceInOrder'
  BY <1>4 DEF AppliedOnceInOrder
<1> QED BY <1>4, <1>6, <1>7, <1>8, <1>9, <1>10

\* The first file listed is the first of all.
LEMMA ListFilesKeeps ==
  ASSUME MigrationInv, NEW m \in Migrator, ListFiles(m)
  PROVE  MigrationInv'
<1> DEFINE p == [mig[m] EXCEPT !.pc = "select", !.file = 1, !.last = present]
<1>1. present \in 1..LastFile /\ mig[m] \in Process /\ Len(schema) \in Nat
  BY LenProperties DEF MigrationInv, TypeOK
<1>2. Become(m, p)
  <2>1. present # 0
    BY <1>1
  <2> QED BY <2>1 DEF ListFiles
<1>3. /\ p.pc = "select" /\ p.file = 1 /\ p.last = present /\ p.dry = mig[m].dry
      /\ p \in Process
  <2>1. /\ [mig[m] EXCEPT !.pc = "select"] \in Process
        /\ \A q \in Process : [q EXCEPT !.file = 1] \in Process
        /\ \A q \in Process : [q EXCEPT !.last = present] \in Process
    BY <1>1, FilesAssumption DEF Process, Running
  <2>2. p \in Process
    BY <2>1
  <2> QED BY <1>1, <2>2 DEF Process
<1> HIDE DEF p
<1>4. Fits(m, p)
  BY <1>1, <1>3
     DEF Fits, InPlace, AtFile, Writing, MigrationInv, Served, ListFiles, At
<1>5. backend' = backend /\ mig' = [mig EXCEPT ![m] = p]
  BY <1>2, <1>3 DEF Become, Outcome
<1>6. m = Container => backend # "running"
  BY DEF ListFiles, At, MigrationInv, Served
<1> QED BY <1>4, <1>5, <1>6, ProcessStep DEF ListFiles, db, MigrationInv, TypeOK

\* A file is passed over only when it is recorded, or by a dry run.
LEMMA SelectFileKeeps ==
  ASSUME MigrationInv, NEW m \in Migrator, SelectFile(m)
  PROVE  MigrationInv'
<1>1. /\ At(m, "select") /\ mig[m] \in Process /\ Len(schema) \in Nat
      /\ mig[m].file \in Nat /\ recorded = 1..Len(schema)
      /\ InPlace(mig[m], present, Len(schema))
      /\ UNCHANGED <<present, table, schema, recorded, faults>>
  BY LenProperties, FilesAssumption
     DEF SelectFile, db, MigrationInv, TypeOK, AppliedOnceInOrder, Process
<1>2. /\ m = Container => backend # "running" /\ ~mig[m].dry
      /\ backend \in {"down", "migrating", "running"}
      /\ table \in BOOLEAN /\ faults \in 0..MaxFaults
  BY <1>1 DEF At, MigrationInv, Served, TypeOK
<1>3. CASE (mig[m].file \in recorded \/ mig[m].dry) /\ Become(m, NextFile(m))
  <2> DEFINE p == NextFile(m)
  <2>1. mig[m].dry \/ mig[m].file <= Len(schema)
    BY <1>1, <1>3
  <2>2. mig[m].pc \in AtFile
    BY <1>1 DEF At, AtFile
  <2>3. /\ p \in Process /\ InPlace(p, present, Len(schema))
        /\ p.pc \in {"select", "ok"} /\ p.dry = mig[m].dry
        /\ p.pc = "ok" => p.last = mig[m].last /\ mig[m].last = mig[m].file
    BY <1>1, <2>1, <2>2, NextFileFits
  <2> HIDE DEF p
  <2>4. Fits(m, p)
    BY <1>2, <2>3 DEF Fits
  <2>5. mig' = [mig EXCEPT ![m] = p] /\ backend' = Outcome(m, p)
    BY <1>3 DEF Become, p
  <2>6. /\ backend' \in {"down", "migrating", "running"}
        /\ backend' = "running" =>
             IF m = Container THEN p.pc = "ok" /\ p.last <= Len(schema)
             ELSE backend = "running"
    BY <1>2, <2>1, <2>3, <2>5 DEF Outcome
  <2> QED BY <1>1, <1>2, <2>4, <2>5, <2>6, ProcessStep
<1>4. CASE /\ mig[m].file \notin recorded /\ ~mig[m].dry
           /\ Become(m, [mig[m] EXCEPT !.pc = "begin"])
  <2> DEFINE p == [mig[m] EXCEPT !.pc = "begin"]
  <2>1. /\ p.pc = "begin" /\ p.file = mig[m].file /\ p.last = mig[m].last
        /\ p.dry = mig[m].dry /\ p \in Process
    BY <1>1 DEF Process, Running
  <2>2. mig' = [mig EXCEPT ![m] = p] /\ backend' = Outcome(m, p)
    BY <1>4 DEF Become
  <2> HIDE DEF p
  <2>3. Fits(m, p)
    BY <1>1, <1>2, <1>4, <2>1 DEF Fits, InPlace, AtFile, Writing, At
  <2>4. backend' = backend
    BY <2>1, <2>2 DEF Outcome
  <2> QED BY <1>1, <1>2, <2>2, <2>3, <2>4, ProcessStep
<1> QED BY <1>3, <1>4 DEF SelectFile

\* A step inside the transaction of a file; the row is inserted only when the
\* file is not recorded and nobody else has inserted it.
LEMMA GotoKeeps ==
  ASSUME MigrationInv, NEW m \in Migrator, mig[m].pc \in Writing,
         NEW pc \in {"sql", "insert", "commit", "rollback"}, Goto(m, pc),
         UNCHANGED <<present, db, backend>>, faults' \in 0..MaxFaults,
         pc = "commit" => mig[m].file \notin recorded /\ ~InsertWaits(m)
  PROVE  MigrationInv'
<1> DEFINE p == [mig[m] EXCEPT !.pc = pc]
<1>1. /\ mig[m] \in Process /\ Len(schema) \in Nat /\ recorded = 1..Len(schema)
      /\ mig[m].file \in Nat /\ InPlace(mig[m], present, Len(schema))
      /\ backend \in {"down", "migrating", "running"} /\ table \in BOOLEAN
  BY LenProperties, FilesAssumption
     DEF MigrationInv, TypeOK, AppliedOnceInOrder, Process
<1>2. /\ p \in Process /\ p.pc = pc /\ p.file = mig[m].file
      /\ p.last = mig[m].last /\ p.dry = mig[m].dry
  BY <1>1 DEF Process, Running
<1>3. mig' = [mig EXCEPT ![m] = p]
  BY DEF Goto
<1> HIDE DEF p
<1>4. ~mig[m].dry /\ mig[m].file >= 1 /\ mig[m].file <= Len(schema) + 1
  BY <1>1, Zenon DEF InPlace, Writing, AtFile
<1>5. pc = "commit" => /\ mig[m].file = Len(schema) + 1
                       /\ \A o \in Migrator \ {m} : ~At(o, "commit")
  <2>1. pc = "commit" => mig[m].file = Len(schema) + 1
    BY <1>1, <1>4
  <2>2. \A o \in Migrator : At(o, "commit") => mig[o].file = Len(schema) + 1
    BY DEF MigrationInv, InPlace, At
  <2> QED BY <2>1, <2>2 DEF InsertWaits, HasInserted
<1>6. Fits(m, p)
  BY <1>1, <1>2, <1>4, <1>5 DEF Fits, InPlace, AtFile, Writing
<1>7. backend = "running" => m # Container
  BY DEF MigrationInv, Served, At, Writing
<1> QED BY <1>1, <1>3, <1>6, <1>7, ProcessStep DEF db

\* The steps between BEGIN and COMMIT.
LEMMA TransactionKeeps ==
  ASSUME MigrationInv, NEW m \in Migrator,
         BeginFile(m) \/ RunSql(m) \/ SqlFails(m) \/ InsertRow(m)
  PROVE  MigrationInv'
<1>1. faults \in 0..MaxFaults /\ MaxFaults \in Nat
  BY FaultsAssumption DEF MigrationInv, TypeOK
<1>2. CASE BeginFile(m)
  BY <1>1, <1>2, GotoKeeps DEF BeginFile, At, Writing
<1>3. CASE RunSql(m)
  <2>1. PICK pc \in {"rollback", "insert"} : Goto(m, pc)
    BY <1>3 DEF RunSql
  <2> QED BY <1>1, <1>3, <2>1, GotoKeeps DEF RunSql, At, Writing
<1>4. CASE SqlFails(m)
  BY <1>1, <1>4, GotoKeeps DEF SqlFails, At, Writing
<1>5. CASE InsertRow(m)
  <2>1. PICK pc \in {"rollback", "commit"} :
          Goto(m, pc) /\ (pc = "commit" => mig[m].file \notin recorded)
    BY <1>5 DEF InsertRow
  <2> QED BY <1>1, <1>5, <2>1, GotoKeeps DEF InsertRow, At, Writing
<1> QED BY <1>2, <1>3, <1>4, <1>5

\* After a COMMIT all others are where they were in a longer schema.
LEMMA CommitKeeps ==
  ASSUME MigrationInv, NEW m \in Migrator, Commit(m)
  PROVE  MigrationInv'
<1> DEFINE p == NextFile(m)
<1>1. /\ schema' \in Seq(1..LastFile)
      /\ Len(schema) \in Nat /\ Len(schema)' = Len(schema) + 1
      /\ recorded' \subseteq 1..LastFile
      /\ AppliedOnceInOrder'
  BY CommitApplies DEF Commit
<1>2. /\ mig[m].pc = "commit" /\ mig[m].file = Len(schema)' /\ ~mig[m].dry
      /\ mig[m].pc \in AtFile
  BY <1>1 DEF Commit, At, MigrationInv, InPlace, Writing, AtFile
<1>3. /\ p \in Process /\ InPlace(p, present, Len(schema)')
      /\ p.pc \in {"select", "ok"} /\ p.dry = mig[m].dry
      /\ p.pc = "ok" => p.last = mig[m].last /\ mig[m].last = mig[m].file
  BY <1>1, <1>2, NextFileFits
<1>4. mig' = [mig EXCEPT ![m] = p] /\ backend' = Outcome(m, p)
  BY DEF Commit, Become
<1> HIDE DEF p
<1>5. /\ mig' \in [Migrator -> Process]
      /\ \A o \in Migrator : mig'[o] = IF o = m THEN p ELSE mig[o]
  BY <1>3, <1>4 DEF MigrationInv, TypeOK
<1>6. \A o \in Migrator \ {m} : ~At(o, "commit")
  BY <1>2 DEF MigrationInv, OneCommits, At
<1>7. /\ UNCHANGED <<present, table, faults>>
      /\ backend \in {"down", "migrating", "running"}
  BY DEF Commit, MigrationInv, TypeOK
<1>8. \A o \in Migrator : InPlace(mig'[o], present, Len(schema)')
  <2> TAKE o \in Migrator
  <2>1. CASE o = m
    BY <1>3, <1>5, <2>1
  <2>2. CASE o # m
    <3>1. InPlace(mig[o], present, Len(schema)) /\ mig[o].pc # "commit"
          /\ mig[o].file \in Nat
      BY <1>6, <2>2, FilesAssumption DEF MigrationInv, TypeOK, Process, At
    <3>2. mig'[o] = mig[o]
      BY <1>5, <2>2
    <3> QED BY <1>1, <3>1, <3>2 DEF InPlace
  <2> QED BY <2>1, <2>2
<1>9. TypeOK'
  <2>1. backend' \in {"down", "migrating", "running"}
    BY <1>4, <1>7 DEF Outcome
  <2>2. \A o \in Migrator :
          /\ mig'[o].file <= mig'[o].last /\ mig'[o].last <= present
          /\ mig'[o].pc \in Running \ {"create", "list", "rollback"}
               => mig'[o].file >= 1
    BY <1>8 DEF InPlace, AtFile, Running
  <2> QED BY <1>1, <1>5, <1>7, <2>1, <2>2 DEF MigrationInv, TypeOK
<1>10. OneCommits'
  BY <1>3, <1>5, <1>6 DEF OneCommits, At
<1>11. Served'
  <2>1. CASE m = Container
    <3>1. backend # "running"
      BY <1>2, <2>1 DEF MigrationInv, Served, At
    <3>2. backend' = "running" => p.pc = "ok"
      BY <1>4, <2>1, <3>1 DEF Outcome
    <3>3. ~mig'[Container].dry
      BY <1>2, <1>3, <1>5, <2>1, MigratorAssumption
    <3>4. backend' = "running" => /\ mig'[Container].pc = "ok"
                                  /\ mig'[Container].last <= Len(schema)'
      BY <1>1, <1>2, <1>3, <1>5, <2>1, <3>2, MigratorAssumption
    <3> QED BY <3>3, <3>4 DEF Served, At
  <2>2. CASE m # Container
    <3>1. /\ mig'[Container] = mig[Container] /\ backend' = backend
          /\ mig[Container] \in Process
      BY <1>4, <1>5, <2>2, MigratorAssumption DEF Outcome, MigrationInv, TypeOK
    <3>2. mig[Container].last \in Nat
      BY <3>1, FilesAssumption DEF Process
    <3> QED BY <1>1, <3>1, <3>2 DEF MigrationInv, Served, At
  <2> QED BY <2>1, <2>2
<1> QED BY <1>1, <1>7, <1>8, <1>9, <1>10, <1>11 DEF MigrationInv

\* What is killed has failed, and one COMMIT on its way at the most is executed.
LEMMA KilledKeeps ==
  ASSUME MigrationInv, RolledBack, mig' = [m \in Migrator |-> Killed(mig[m])],
         backend' = "down", faults' \in 0..MaxFaults, UNCHANGED present
  PROVE  MigrationInv'
<1>1. /\ schema' \in Seq(1..LastFile)
      /\ recorded' \subseteq 1..LastFile
      /\ AppliedOnceInOrder'
      /\ UNCHANGED table
  <2>1. CASE UNCHANGED db
    BY <2>1 DEF db, MigrationInv, TypeOK, AppliedOnceInOrder
  <2>2. CASE ~UNCHANGED db
    <3>1. PICK m \in Migrator : /\ At(m, "commit")
                                /\ schema' = Append(schema, mig[m].file)
                                /\ recorded' = recorded \cup {mig[m].file}
                                /\ UNCHANGED table
      BY <2>2 DEF RolledBack
    <3> QED BY <3>1, CommitApplies
  <2> QED BY <2>1, <2>2
<1>2. \A m \in Migrator :
        /\ mig[m] \in Process
        /\ mig'[m] \in Process
        /\ mig'[m].pc \notin Running
        /\ mig'[m].file = mig[m].file /\ mig'[m].last = mig[m].last
        /\ mig'[m].dry = mig[m].dry
  BY DEF Killed, Process, MigrationInv, TypeOK, Running
<1>3. \A m \in Migrator : InPlace(mig'[m], present, Len(schema)')
  BY <1>2 DEF MigrationInv, InPlace, AtFile, Writing, Running
<1>4. TypeOK'
  <2>1. mig' \in [Migrator -> Process]
    BY <1>2
  <2>2. \A m \in Migrator :
          /\ mig'[m].file <= mig'[m].last /\ mig'[m].last <= present
          /\ mig'[m].pc \in Running \ {"create", "list", "rollback"}
               => mig'[m].file >= 1
    BY <1>2, <1>3 DEF InPlace
  <2> QED BY <1>1, <2>1, <2>2 DEF MigrationInv, TypeOK
<1>5. OneCommits'
  BY <1>2 DEF OneCommits, At, Running
<1>6. Served'
  BY <1>2, MigratorAssumption DEF MigrationInv, Served
<1> QED BY <1>1, <1>3, <1>4, <1>5, <1>6 DEF MigrationInv

\* A ROLLBACK ends its process, and in the container whatever else runs there.
LEMMA RollbackKeeps ==
  ASSUME MigrationInv, NEW m \in Migrator, Rollback(m)
  PROVE  MigrationInv'
<1>0. faults' \in 0..MaxFaults /\ UNCHANGED present
  BY DEF Rollback, MigrationInv, TypeOK
<1>1. CASE m = Container
  BY <1>0, <1>1, KilledKeeps DEF Rollback
<1>2. CASE m # Container
  <2> DEFINE p == [mig[m] EXCEPT !.pc = "failed"]
  <2>1. /\ mig[m] \in Process /\ InPlace(mig[m], present, Len(schema))
        /\ backend \in {"down", "migrating", "running"} /\ table \in BOOLEAN
    BY DEF MigrationInv, TypeOK
  <2>2. /\ p \in Process /\ p.pc = "failed" /\ p.file = mig[m].file
        /\ p.last = mig[m].last /\ p.dry = mig[m].dry
    BY <2>1 DEF Process, Running
  <2>3. Become(m, p) /\ UNCHANGED db
    BY <1>2 DEF Rollback
  <2> HIDE DEF p
  <2>4. Fits(m, p)
    BY <1>2, <2>1, <2>2 DEF Fits, InPlace, AtFile, Writing
  <2>5. mig' = [mig EXCEPT ![m] = p] /\ backend' = backend
    BY <1>2, <2>3 DEF Become, Outcome
  <2> QED BY <1>0, <1>2, <2>1, <2>3, <2>4, <2>5, ProcessStep DEF db
<1> QED BY <1>1, <1>2

\* A new file comes after those that are listed.
LEMMA AddFileKeeps ==
  ASSUME MigrationInv, AddFile
  PROVE  MigrationInv'
<1>1. /\ present \in Nat /\ present' = present + 1 /\ present' \in 1..LastFile
      /\ UNCHANGED <<table, schema, recorded, mig, backend, faults>>
  BY FilesAssumption DEF AddFile, db, MigrationInv, TypeOK
<1>2. \A m \in Migrator : /\ mig[m].last \in Nat /\ mig[m].file \in Nat
                           /\ InPlace(mig[m], present, Len(schema))
  BY FilesAssumption DEF MigrationInv, TypeOK, Process
<1>3. \A m \in Migrator : InPlace(mig[m], present', Len(schema))
  BY <1>1, <1>2 DEF InPlace
<1>4. TypeOK'
  <2>1. \A m \in Migrator :
          /\ mig[m].file <= mig[m].last /\ mig[m].last <= present'
          /\ mig[m].pc \in Running \ {"create", "list", "rollback"}
               => mig[m].file >= 1
    BY <1>3 DEF InPlace, AtFile, Running
  <2> QED BY <1>1, <2>1 DEF MigrationInv, TypeOK
<1> QED BY <1>1, <1>3, <1>4
        DEF MigrationInv, AppliedOnceInOrder, OneCommits, Served, At

-----------------------------------------------------------------------------
(* Theorems *)

\* A fresh database and an empty container.
LEMMA InitHolds == Init => MigrationInv
<1> SUFFICES ASSUME Init PROVE MigrationInv
  OBVIOUS
<1> DEFINE p == [pc |-> "idle", file |-> 0, last |-> 0, dry |-> FALSE]
<1>1. p \in Process /\ 1 \in 1..LastFile /\ 0 \in 0..MaxFaults
  BY FilesAssumption, FaultsAssumption DEF Process
<1>2. InPlace(p, 1, 0) /\ p.pc = "idle" /\ ~p.dry
  BY DEF InPlace, AtFile, Writing
<1>3. \A m \in Migrator : mig[m] = p
  BY DEF Init
<1>4. schema = <<>> /\ Len(schema) = 0 /\ schema \in Seq(1..LastFile)
  BY EmptySeq DEF Init
<1> HIDE DEF p
<1>5. TypeOK
  <2>1. mig \in [Migrator -> Process]
    BY <1>1 DEF Init, p
  <2>2. \A m \in Migrator :
          /\ mig[m].file <= mig[m].last /\ mig[m].last <= present
          /\ mig[m].pc \in Running \ {"create", "list", "rollback"}
               => mig[m].file >= 1
    BY <1>2, <1>3 DEF InPlace, Running, Init
  <2> QED BY <1>1, <1>4, <2>1, <2>2 DEF Init, TypeOK
<1>6. AppliedOnceInOrder
  BY <1>4 DEF Init, AppliedOnceInOrder
<1>7. OneCommits /\ Served
  BY <1>2, <1>3, MigratorAssumption DEF OneCommits, Served, At, Init
<1> QED BY <1>2, <1>3, <1>4, <1>5, <1>6, <1>7 DEF MigrationInv, Init

\* One step for each action of Next.
LEMMA NextKeeps == MigrationInv /\ [Next]_vars => MigrationInv'
<1> SUFFICES ASSUME MigrationInv, [Next]_vars PROVE MigrationInv'
  OBVIOUS
<1>1. ASSUME NEW m \in Migrator, Migrate(m)
      PROVE  MigrationInv'
  BY <1>1, CreateTableKeeps, ListFilesKeeps, SelectFileKeeps, TransactionKeeps,
     CommitKeeps, RollbackKeeps DEF Migrate
<1>2. ASSUME NEW m \in Migrator, SqlFails(m)
      PROVE  MigrationInv'
  BY <1>2, TransactionKeeps
<1>3. ASSUME NEW m \in Migrator, Exec(m)
      PROVE  MigrationInv'
  BY <1>3, StartKeeps DEF Exec
<1>4. CASE Up
  BY <1>4, StartKeeps, MigratorAssumption DEF Up
<1>5. CASE Stop
  <2>1. faults' \in 0..MaxFaults
    BY <1>5, FaultsAssumption DEF Stop, MigrationInv, TypeOK
  <2> QED BY <1>5, <2>1, KilledKeeps DEF Stop
<1>6. CASE AddFile
  BY <1>6, AddFileKeeps
<1>7. CASE UNCHANGED vars
  BY <1>7 DEF vars, db, MigrationInv, TypeOK, AppliedOnceInOrder, OneCommits,
              Served, At
<1> QED BY <1>1, <1>2, <1>3, <1>4, <1>5, <1>6, <1>7 DEF Next

\* The invariant is inductive.
LEMMA MigrationInvHolds == Spec => []MigrationInv
  BY InitHolds, NextKeeps, PTL DEF Spec

\* Every process is at a file it has listed, whatever stops it.
THEOREM MigrationsTypeCorrect == Spec => []TypeOK
  BY MigrationInvHolds, PTL DEF MigrationInv

\* However many migrations overlap, and whenever they are stopped, the SQL of
\* each file is committed once, after that of the files before it, with its row.
THEOREM FilesAppliedOnce == Spec => []AppliedOnceInOrder
  BY MigrationInvHolds, PTL DEF MigrationInv

\* The backend never serves on a schema that lacks a file it has listed.
THEOREM ServedOnMigrated == Spec => []ServesMigrated
<1>1. MigrationInv => ServesMigrated
  <2> SUFFICES ASSUME MigrationInv, backend = "running"
               PROVE  1..mig[Container].last \subseteq recorded
    BY DEF ServesMigrated
  <2>1. /\ mig[Container].last <= Len(schema) /\ mig[Container].last \in Nat
        /\ Len(schema) \in Nat /\ recorded = 1..Len(schema)
    BY MigratorAssumption, FilesAssumption, LenProperties
       DEF MigrationInv, Served, AppliedOnceInOrder, TypeOK, Process
  <2> QED BY <2>1
<1> QED BY <1>1, MigrationInvHolds, PTL
=============================================================================
