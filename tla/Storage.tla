------------------------------ MODULE Storage ------------------------------
(***************************************************************************)
(* The life of the database file: it is opened and migrated when a process *)
(* starts, and kept small while one runs (the constructor, migration and   *)
(* retention of src/server/src/storage/marketDataStore.ts, maintenance.ts).*)
(*                                                                         *)
(* An old file keys its instruments by the identifier alone. Such a file   *)
(* is saved to a backup, the backup is read back, and only then the table  *)
(* is built anew inside one transaction. The process can be killed after   *)
(* every step; what it wrote outside a committed transaction is gone, a    *)
(* file of a backup stays.                                                 *)
(*                                                                         *)
(* A tick of the clock is a day. A row of the other tables is its day.     *)
(***************************************************************************)
EXTENDS Nothing, Integers, FiniteSets, FiniteSetsExt, Sequences, Functions

CONSTANTS TickDays,   \* STORE_RETENTION_DAYS: 0 keeps every tick
          BarDays,    \* STORE_BARS_RETENTION_DAYS: 0 keeps every bar
          Vacuums,    \* STORE_VACUUM (BOOLEAN)
          Chunk,      \* rows a statement of the chunked purge deletes (20000)
          MaxDay,     \* bound: days
          MaxStarts   \* bound: starts of a process

VARIABLES day,
          starts,         \* history: processes started
          phase,          \* how far the process is
          master,         \* instrument_master: [key, rows], key "id" in an old file and "pair" in a new one
          foreignKeys,    \* PRAGMA foreign_keys of the connection
          transaction,    \* the table that the open transaction has built, None without one
          backups,        \* the backup files: [rows, whole]
          tables,         \* the other tables: the days of their rows
          revoked,        \* revoked_tokens: the days on which they expire
          purging,        \* the chunked purge: [left, cutoffs], None when none runs
          lastVacuumDay,
          vacuums,        \* history: the days on which this process vacuumed
          original        \* history: instrument_master as the first process found it

fileVars == <<phase, master, foreignKeys, transaction, backups>>
rowVars == <<tables, revoked, purging, lastVacuumDay, vacuums>>
storageVars == <<day, starts, fileVars, rowVars, original>>

TickTables == <<"trades", "gaps", "ingestion_checkpoints", "depth_snapshots">>
Tables == {TickTables[i] : i \in DOMAIN TickTables} \cup {"bars"}

-----------------------------------------------------------------------------
(* The constructor. Two rows of one dataset with one raw symbol make the   *)
(* unique index fail, and with it the start.                               *)

RawIsUnique(rows) == \A r, s \in rows : r.dataset = s.dataset /\ r.raw = s.raw => r = s

Down == phase' = "down" /\ transaction' = None /\ foreignKeys' = TRUE

needsMigration == master.key = "id"

initSchema ==
    /\ phase = "down" /\ starts < MaxStarts /\ starts' = starts + 1
    /\ IF RawIsUnique(master.rows)
       THEN phase' = (IF needsMigration THEN "old" ELSE "open") /\ UNCHANGED <<transaction, foreignKeys>>
       ELSE Down
    /\ lastVacuumDay' = None /\ vacuums' = <<>> /\ purging' = None
    /\ UNCHANGED <<day, master, backups, tables, revoked, original>>

\* A step of the migration: the process goes on, or the constructor throws.
Migrating == UNCHANGED <<day, starts, rowVars, original>>

\* VACUUM INTO writes the file, and may leave a broken one or none.
Backup(whole) ==
    /\ phase = "old" /\ Migrating
    /\ backups' = backups \cup {[rows |-> master.rows, whole |-> whole]}
    /\ phase' = "saved" /\ UNCHANGED <<master, foreignKeys, transaction>>

BackupFailed == phase = "old" /\ Migrating /\ Down /\ UNCHANGED <<master, backups>>

\* A fault: the file that is there is good enough.
AnyBackup(b) == TRUE
\* PRAGMA quick_check of the file that was just written.
quickCheck(b) == b.whole

Verify(b) ==
    /\ phase = "saved" /\ b \in backups /\ Migrating /\ UNCHANGED master
    /\ IF quickCheck(b) THEN phase' = "safe" /\ UNCHANGED <<backups, transaction, foreignKeys>>
       ELSE Down /\ backups' \in {backups, backups \ {b}}

\* INSERT INTO instrument_master_migrated SELECT ... FROM instrument_master
Copied(rows) == rows

Rebuild ==
    /\ phase = "safe" /\ Migrating
    /\ foreignKeys' = FALSE /\ transaction' = [key |-> "pair", rows |-> Copied(master.rows)]
    /\ phase' = "built" /\ UNCHANGED <<master, backups>>

\* A statement fails, or foreign_key_check finds a row: ROLLBACK, and the constructor throws.
RebuildFailed == phase \in {"safe", "built"} /\ Migrating /\ Down /\ UNCHANGED <<master, backups>>

CommitMigration ==
    /\ phase = "built" /\ Migrating
    /\ master' = transaction /\ transaction' = None /\ foreignKeys' = TRUE
    /\ phase' = "open" /\ UNCHANGED backups

Crash ==
    /\ phase # "down" /\ Down
    /\ purging' = None /\ UNCHANGED <<day, starts, master, backups, tables, revoked, lastVacuumDay, vacuums, original>>

-----------------------------------------------------------------------------
(* Retention.                                                              *)

StillFile == UNCHANGED <<starts, fileVars, original>>

\* A fault: the bars are kept as long as the ticks.
OneWindow(table) == TickDays
Window(table) == IF table = "bars" THEN BarDays ELSE TickDays

\* A window of 0 deletes nothing.
cutoffs == [t \in {u \in Tables : Window(u) > 0} |-> day - Window(t)]
Old(t, before) == {x \in tables[t] : x < before[t]}

\* The statements of purgeOldData, in their order: without a transaction the first `done` of them stay.
Statements == (IF TickDays > 0 THEN TickTables ELSE <<>>) \o (IF BarDays > 0 THEN <<"bars">> ELSE <<>>)
purgeOldData(done) ==
    LET before == cutoffs
        deleted == Range(SubSeq(Statements, 1, done))
    IN [t \in Tables |-> IF t \in deleted THEN tables[t] \ Old(t, before) ELSE tables[t]]

VacuumDue == Vacuums /\ day # lastVacuumDay

runOnce(done, ok) ==
    /\ phase = "open" /\ done \in 0..Len(Statements) /\ StillFile
    /\ ok => done = Len(Statements)
    /\ tables' = purgeOldData(done)
    /\ IF ok
       THEN /\ revoked' = {x \in revoked : x >= day}
            /\ lastVacuumDay' = (IF VacuumDue THEN day ELSE lastVacuumDay)
            /\ vacuums' = (IF VacuumDue THEN Append(vacuums, day) ELSE vacuums)
       ELSE UNCHANGED <<revoked, lastVacuumDay, vacuums>>
    /\ UNCHANGED <<day, purging>>

purgeOldDataNonBlocking ==
    /\ phase = "open" /\ purging = None /\ StillFile
    /\ purging' = [left |-> Statements, cutoffs |-> cutoffs]
    /\ UNCHANGED <<day, tables, revoked, lastVacuumDay, vacuums>>

\* One statement of the chunked purge: a full chunk asks for another, a failure gives the table up.
DeleteChunk(ok) ==
    /\ purging # None /\ StillFile
    /\ IF purging.left = <<>> THEN purging' = None /\ UNCHANGED tables
       ELSE LET t == Head(purging.left)
                old == Old(t, purging.cutoffs)
                full == Cardinality(old) >= Chunk
            IN /\ \E gone \in (IF ~ok THEN {{}} ELSE IF full THEN kSubset(Chunk, old) ELSE {old}) :
                     tables' = [tables EXCEPT ![t] = @ \ gone]
               /\ purging' = IF ok /\ full THEN purging ELSE [purging EXCEPT !.left = Tail(@)]
    /\ UNCHANGED <<day, revoked, lastVacuumDay, vacuums>>

\* A row of today or, of a history that is fetched late, of an earlier day.
Save(t, x) ==
    /\ phase = "open" /\ x <= day /\ tables' = [tables EXCEPT ![t] = @ \cup {x}] /\ StillFile
    /\ UNCHANGED <<day, revoked, purging, lastVacuumDay, vacuums>>

NextDay == day < MaxDay /\ day' = day + 1 /\ UNCHANGED <<starts, fileVars, rowVars, original>>

StorageInit(file, rows) ==
    /\ day = 2 /\ starts = 0 /\ phase = "down" /\ foreignKeys = TRUE /\ transaction = None /\ backups = {}
    /\ master = file /\ original = file
    /\ tables = rows /\ revoked = {1, 3} /\ purging = None /\ lastVacuumDay = None /\ vacuums = <<>>

Migration ==
    \/ initSchema \/ BackupFailed \/ Rebuild \/ RebuildFailed \/ CommitMigration \/ Crash
    \/ \E whole \in BOOLEAN : Backup(whole)
    \/ \E b \in backups : Verify(b)

Retention(saved, days) ==
    \/ initSchema \/ Crash \/ NextDay \/ purgeOldDataNonBlocking
    \/ \E ok \in BOOLEAN : DeleteChunk(ok) \/ \E done \in 0..5 : runOnce(done, ok)
    \/ \E t \in saved, x \in days : Save(t, x)

\* The life of a file with the rows it is found with.
StorageSpec(file, rows) ==
    StorageInit(file, rows) /\ [][Migration \/ Retention(Tables, Nat)]_storageVars

\* Days are counted, and a chunk has rows.
StorageAssumption == TickDays \in Nat /\ BarDays \in Nat /\ Chunk \in Nat \ {0}

-----------------------------------------------------------------------------
(* Properties.                                                             *)

(* Wherever the process is killed and whichever step of the migration      *)
(* fails, the file holds every instrument it held before, and a file with  *)
(* the new key has a whole backup of the old rows beside it. (the          *)
(* "FAIL-CLOSED" backup and the "safe, transactional, and idempotent"      *)
(* rebuild of migrateInstrumentMasterCompositePk)                          *)
MigrationKeepsRows ==
    /\ master.rows = original.rows
    /\ master.key # original.key => \E b \in backups : b.whole /\ b.rows = original.rows

(* A row goes only when it is older than the window of its own table, also *)
(* when the chunked purge goes on over days in which other rows are saved; *)
(* and a process vacuums once in a day. (purgeOldData,                     *)
(* purgeOldDataNonBlocking, runOnce of startMaintenance)                   *)
OnlyOldRowsGo ==
    [][ /\ \A t \in Tables : \A x \in tables[t] \ tables'[t] :
             LET kept == IF t = "bars" THEN BarDays ELSE TickDays IN kept > 0 /\ x < day - kept
        /\ \A i, j \in DOMAIN vacuums' : vacuums'[i] = vacuums'[j] => i = j ]_storageVars
=============================================================================
