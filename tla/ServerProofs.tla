----------------------------- MODULE ServerProofs -----------------------------
(***************************************************************************)
(* What the server keeps beside its feed, for any values of the constants: *)
(* the rows of a file that is migrated and purged (Storage), what is paid  *)
(* to the vendor for the chains of a page (Vendor), its front door: failed *)
(* logins, budgets of requests, passwords and tokens (Access), the alerts  *)
(* that it sends (Alerts), the instruments it knows (Catalogue), what it   *)
(* tells of the tape (Tape) and of a chain of options (Options).           *)
(***************************************************************************)
EXTENDS Access, Storage, Vendor, Alerts, Catalogue, Tape, SequenceTheorems, FiniteSetTheorems, TLAPS

-----------------------------------------------------------------------------
(* Storage: the migration.                                                  *)

(* What is saved is the file as it was found; past the check there is a whole copy of it, and   *)
(* what the transaction built has the same rows.                                                *)
MigrationInv ==
  /\ MigrationKeepsRows
  /\ \A b \in backups : b.rows = original.rows
  /\ phase \in {"safe", "built"} => \E b \in backups : b.whole
  /\ phase = "built" => transaction.rows = master.rows

(* Purges, days and new rows leave the file of the instruments alone.                           *)
LEMMA RetentionLeavesTheFile ==
  ASSUME MigrationInv, Retention(Tables, Nat), ~initSchema, ~Crash
  PROVE  MigrationInv'
<1>1. UNCHANGED <<phase, master, backups, transaction, original>>
  BY DEF Retention, NextDay, purgeOldDataNonBlocking, DeleteChunk, runOnce, Save, StillFile, fileVars
<1> QED BY <1>1 DEF MigrationInv, MigrationKeepsRows

(* A step of the migration: nothing is rebuilt before a whole copy was read back.               *)
LEMMA MigrationSteps ==
  ASSUME MigrationInv, Migration PROVE MigrationInv'
<1> USE DEF MigrationInv, MigrationKeepsRows
<1>1. CASE initSchema
  BY <1>1 DEF initSchema, Down
<1>2. CASE BackupFailed \/ RebuildFailed \/ Crash
  BY <1>2 DEF BackupFailed, RebuildFailed, Crash, Down, Migrating
<1>3. ASSUME NEW whole \in BOOLEAN, Backup(whole) PROVE MigrationInv'
  BY <1>3 DEF Backup, Migrating
<1>4. ASSUME NEW b \in backups, Verify(b) PROVE MigrationInv'
  BY <1>4 DEF Verify, Migrating, Down, quickCheck
<1>5. CASE Rebuild
  BY <1>5 DEF Rebuild, Migrating, Copied
<1>6. CASE CommitMigration
  BY <1>6 DEF CommitMigration, Migrating
<1> QED BY <1>1, <1>2, <1>3, <1>4, <1>5, <1>6 DEF Migration

(* Storage, migrateInstrumentMasterCompositePk: whichever step of the migration fails and       *)
(* wherever the process is killed, the file has the rows it was found with, and a file with the *)
(* new key has a whole backup of them beside it.                                                *)
THEOREM MigrationKeepsRowsTheorem ==
  ASSUME NEW CONSTANT file, NEW CONSTANT rows
  PROVE  StorageSpec(file, rows) => []MigrationKeepsRows
<1>1. StorageInit(file, rows) => MigrationInv
  BY DEF StorageInit, MigrationInv, MigrationKeepsRows
<1>2. MigrationInv /\ [Migration \/ Retention(Tables, Nat)]_storageVars => MigrationInv'
  <2>1. CASE Migration
    BY <2>1, MigrationSteps
  <2>2. CASE Retention(Tables, Nat)
    BY <2>2, MigrationSteps, RetentionLeavesTheFile DEF Migration
  <2>3. CASE UNCHANGED storageVars
    BY <2>3 DEF storageVars, fileVars, MigrationInv, MigrationKeepsRows
  <2> QED BY <2>1, <2>2, <2>3
<1>3. MigrationInv => MigrationKeepsRows
  BY DEF MigrationInv
<1> QED BY <1>1, <1>2, <1>3, PTL DEF StorageSpec

-----------------------------------------------------------------------------
(* Storage: the retention.                                                  *)

(* The tables that are purged at all. *)
Limited == {t \in Tables : Window(t) > 0}

(* A purge that goes on keeps the cutoffs it began with, which the days only leave further      *)
(* behind; a process that vacuumed today knows it.                                              *)
RetentionInv ==
  /\ day \in Nat
  /\ tables \in [Tables -> SUBSET Nat]
  /\ purging # None =>
       /\ purging \in [left : Seq(Limited), cutoffs : [Limited -> Int]]
       /\ \A t \in Limited : purging.cutoffs[t] <= day - Window(t)
  /\ vacuums \in Seq(Nat)
  /\ \A i \in DOMAIN vacuums :
       /\ vacuums[i] <= day /\ (vacuums[i] = day => lastVacuumDay = day)
       /\ \A j \in DOMAIN vacuums : vacuums[i] = vacuums[j] => i = j

(* What a step of the retention may do. *)
OnlyOld ==
  /\ \A t \in Tables : \A x \in tables[t] \ tables'[t] :
       LET kept == IF t = "bars" THEN BarDays ELSE TickDays IN kept > 0 /\ x < day - kept
  /\ \A i, j \in DOMAIN vacuums' : vacuums'[i] = vacuums'[j] => i = j

(* A statement of a purge is about a table with a window. *)
LEMMA StatementsAreLimited ==
  ASSUME StorageAssumption
  PROVE  /\ Statements \in Seq(Limited)
         /\ DOMAIN cutoffs = Limited
         /\ \A t \in Limited : Window(t) \in Nat /\ cutoffs[t] = day - Window(t)
<1>1. TickDays > 0 => TickTables \in Seq(Limited)
  BY DEF TickTables, Limited, Tables, Window
<1>2. BarDays > 0 => <<"bars">> \in Seq(Limited)
  BY DEF TickTables, Limited, Tables, Window
<1>3. <<>> \in Seq(Limited)
  OBVIOUS
<1>4. Statements \in Seq(Limited)
  BY <1>1, <1>2, <1>3 DEF Statements
<1>5. DOMAIN cutoffs = Limited /\ \A t \in Limited : cutoffs[t] = day - Window(t)
  BY DEF cutoffs, Limited
<1>6. \A t \in Limited : Window(t) \in Nat
  BY DEF Window, StorageAssumption
<1> QED BY <1>4, <1>5, <1>6

(* startMaintenance's pass: the first statements of purgeOldData, and a vacuum once a day.      *)
LEMMA PassTakesOld ==
  ASSUME StorageAssumption, RetentionInv,
         NEW done \in Nat, NEW ok \in BOOLEAN, runOnce(done, ok)
  PROVE  RetentionInv' /\ OnlyOld
<1>1. /\ Statements \in Seq(Limited)
      /\ DOMAIN cutoffs = Limited
      /\ \A t \in Limited : Window(t) \in Nat /\ cutoffs[t] = day - Window(t)
  BY StatementsAreLimited
<1>2. done \in 0..Len(Statements) /\ tables' = purgeOldData(done) /\ UNCHANGED <<day, purging>>
  BY DEF runOnce
<1> DEFINE deleted == Range(SubSeq(Statements, 1, done))
<1>3. deleted \subseteq Limited
  <2>1. SubSeq(Statements, 1, done) \in Seq(Limited)
    BY <1>1, <1>2
  <2> QED BY <2>1 DEF Range
<1>4. tables' = [t \in Tables |-> IF t \in deleted THEN tables[t] \ Old(t, cutoffs) ELSE tables[t]]
  BY <1>2 DEF purgeOldData
<1>5. tables' \in [Tables -> SUBSET Nat]
  BY <1>4 DEF RetentionInv, Old
<1>6. ASSUME NEW t \in Tables, NEW x \in tables[t] \ tables'[t]
      PROVE  (IF t = "bars" THEN BarDays ELSE TickDays) > 0
             /\ x < day - (IF t = "bars" THEN BarDays ELSE TickDays)
  <2>1. t \in Limited /\ x \in Old(t, cutoffs)
    BY <1>3, <1>4, <1>6
  <2>2. x < day - Window(t) /\ Window(t) > 0
    BY <1>1, <2>1 DEF Old, Limited
  <2> QED BY <2>2 DEF Window
<1>7. \/ vacuums' = vacuums /\ lastVacuumDay' = lastVacuumDay
      \/ VacuumDue /\ vacuums' = Append(vacuums, day) /\ lastVacuumDay' = day
  BY DEF runOnce
<1>8. /\ vacuums' \in Seq(Nat)
      /\ \A i \in DOMAIN vacuums' :
           /\ vacuums'[i] <= day /\ (vacuums'[i] = day => lastVacuumDay' = day)
           /\ \A j \in DOMAIN vacuums' : vacuums'[i] = vacuums'[j] => i = j
  <2>1. CASE vacuums' = vacuums /\ lastVacuumDay' = lastVacuumDay
    BY <2>1 DEF RetentionInv
  <2>2. CASE VacuumDue /\ vacuums' = Append(vacuums, day) /\ lastVacuumDay' = day
    <3>1. \A i \in DOMAIN vacuums : vacuums[i] \in Nat /\ vacuums[i] <= day /\ vacuums[i] # day
      BY <2>2 DEF VacuumDue, RetentionInv
    <3>2. vacuums' \in Seq(Nat) /\ DOMAIN vacuums' = 1..Len(vacuums) + 1
          /\ vacuums'[Len(vacuums) + 1] = day /\ \A i \in DOMAIN vacuums : vacuums'[i] = vacuums[i]
      BY <2>2 DEF RetentionInv
    <3>3. DOMAIN vacuums = 1..Len(vacuums) /\ Len(vacuums) \in Nat /\ day \in Nat
      BY DEF RetentionInv
    <3>4. \A i \in DOMAIN vacuums' : i \in DOMAIN vacuums \/ i = Len(vacuums) + 1
      BY <3>2, <3>3
    <3> QED BY <2>2, <3>1, <3>2, <3>4 DEF RetentionInv
  <2> QED BY <1>7, <2>1, <2>2
<1> QED BY <1>2, <1>5, <1>6, <1>8 DEF RetentionInv, OnlyOld

(* One statement of the chunked purge, by the cutoffs of the day it began.                      *)
LEMMA ChunkTakesOld ==
  ASSUME StorageAssumption, RetentionInv, NEW ok \in BOOLEAN, DeleteChunk(ok)
  PROVE  RetentionInv' /\ OnlyOld
<1>1. purging # None /\ UNCHANGED <<day, lastVacuumDay, vacuums>>
  BY DEF DeleteChunk
<1>2. CASE purging.left = <<>>
  BY <1>1, <1>2 DEF DeleteChunk, RetentionInv, OnlyOld
<1>3. CASE purging.left # <<>>
  <2> DEFINE t == Head(purging.left)
             old == Old(t, purging.cutoffs)
  <2>1. t \in Limited /\ t \in Tables /\ Tail(purging.left) \in Seq(Limited)
    BY <1>1, <1>3 DEF RetentionInv, Limited
  <2>2. PICK gone \in SUBSET old : tables' = [tables EXCEPT ![t] = @ \ gone]
    <3>1. PICK gone \in (IF ~ok THEN {{}} ELSE IF Cardinality(old) >= Chunk THEN kSubset(Chunk, old) ELSE {old}) :
              tables' = [tables EXCEPT ![t] = @ \ gone]
      BY <1>3 DEF DeleteChunk
    <3>2. gone \in SUBSET old
      BY <3>1 DEF kSubset
    <3> QED BY <3>1, <3>2
  <2>3. purging' = purging \/ purging' = [purging EXCEPT !.left = Tail(purging.left)]
    BY <1>3 DEF DeleteChunk
  <2>4. /\ purging' \in [left : Seq(Limited), cutoffs : [Limited -> Int]]
        /\ purging'.cutoffs = purging.cutoffs
    BY <1>1, <2>1, <2>3 DEF RetentionInv
  <2>5. tables' \in [Tables -> SUBSET Nat]
    BY <2>1, <2>2 DEF RetentionInv
  <2>6. ASSUME NEW u \in Tables, NEW x \in tables[u] \ tables'[u]
        PROVE  (IF u = "bars" THEN BarDays ELSE TickDays) > 0
               /\ x < day - (IF u = "bars" THEN BarDays ELSE TickDays)
    <3>1. u = t /\ x \in old
      BY <2>1, <2>2, <2>6 DEF RetentionInv
    <3>2. x \in Nat /\ x < purging.cutoffs[t]
      BY <3>1 DEF Old, RetentionInv
    <3>3. purging.cutoffs[t] \in Int /\ purging.cutoffs[t] <= day - Window(t) /\ Window(t) \in Nat
      BY <1>1, <2>1, StatementsAreLimited DEF RetentionInv
    <3>4. x < day - Window(t) /\ Window(t) > 0
      BY <2>1, <3>2, <3>3 DEF Limited, RetentionInv
    <3> QED BY <3>1, <3>4 DEF Window
  <2> QED BY <1>1, <2>4, <2>5, <2>6 DEF RetentionInv, OnlyOld
<1> QED BY <1>2, <1>3

(* Every step of the retention. *)
LEMMA RetentionStep ==
  ASSUME StorageAssumption, RetentionInv, Retention(Tables, Nat) PROVE RetentionInv' /\ OnlyOld
<1>1. CASE initSchema
  BY <1>1 DEF initSchema, RetentionInv, OnlyOld
<1>2. CASE Crash
  BY <1>2 DEF Crash, RetentionInv, OnlyOld
<1>3. CASE NextDay
  <2>1. /\ day' = day + 1 /\ UNCHANGED <<tables, purging, lastVacuumDay, vacuums>>
    BY <1>3 DEF NextDay, rowVars
  <2>2. \A t \in Limited : Window(t) \in Nat
    BY StatementsAreLimited
  <2> QED BY <2>1, <2>2 DEF RetentionInv, OnlyOld
<1>4. CASE purgeOldDataNonBlocking
  <2>1. /\ purging' = [left |-> Statements, cutoffs |-> cutoffs]
        /\ UNCHANGED <<day, tables, lastVacuumDay, vacuums>>
    BY <1>4 DEF purgeOldDataNonBlocking
  <2>2. cutoffs \in [Limited -> Int]
    <3>1. cutoffs = [t \in Limited |-> day - Window(t)]
      BY DEF cutoffs, Limited
    <3>2. \A t \in Limited : day - Window(t) \in Int
      BY StatementsAreLimited DEF RetentionInv
    <3> QED BY <3>1, <3>2
  <2>3. /\ purging' \in [left : Seq(Limited), cutoffs : [Limited -> Int]]
        /\ \A t \in Limited : purging'.cutoffs[t] <= day - Window(t)
    BY <2>1, <2>2, StatementsAreLimited DEF RetentionInv
  <2> QED BY <2>1, <2>3 DEF RetentionInv, OnlyOld
<1>5. ASSUME NEW ok \in BOOLEAN, DeleteChunk(ok) PROVE RetentionInv' /\ OnlyOld
  BY <1>5, ChunkTakesOld
<1>6. ASSUME NEW ok \in BOOLEAN, NEW done \in 0..5, runOnce(done, ok) PROVE RetentionInv' /\ OnlyOld
  BY <1>6, PassTakesOld
<1>7. ASSUME NEW t \in Tables, NEW x \in Nat, Save(t, x) PROVE RetentionInv' /\ OnlyOld
  BY <1>7 DEF Save, RetentionInv, OnlyOld
<1> QED BY <1>1, <1>2, <1>3, <1>4, <1>5, <1>6, <1>7 DEF Retention

(* Storage, purgeOldData, purgeOldDataNonBlocking and the passes of maintenance.ts: a row goes  *)
(* only when it is older than the window of its own table, also when a chunked purge goes on    *)
(* over days in which other rows are saved; and a process vacuums once in a day.                *)
THEOREM OnlyOldRowsGoTheorem ==
  ASSUME StorageAssumption, NEW CONSTANT file, NEW CONSTANT rows \in [Tables -> SUBSET Nat]
  PROVE  StorageSpec(file, rows) => OnlyOldRowsGo
<1>1. StorageInit(file, rows) => RetentionInv
  BY DEF StorageInit, RetentionInv
<1>2. RetentionInv /\ [Migration \/ Retention(Tables, Nat)]_storageVars => RetentionInv' /\ OnlyOld
  <2>1. ASSUME RetentionInv, Retention(Tables, Nat) PROVE RetentionInv' /\ OnlyOld
    BY <2>1, RetentionStep
  <2>2. ASSUME RetentionInv, Migration PROVE RetentionInv' /\ OnlyOld
    <3>1. CASE initSchema \/ Crash
      BY <2>2, <3>1, RetentionStep DEF Retention
    <3>2. CASE ~initSchema /\ ~Crash
      <4>1. UNCHANGED <<day, rowVars>>
        BY <2>2, <3>2 DEF Migration, BackupFailed, Rebuild, RebuildFailed, CommitMigration, Backup,
           Verify, Migrating
      <4> QED BY <2>2, <4>1 DEF rowVars, RetentionInv, OnlyOld
    <3> QED BY <3>1, <3>2
  <2>3. ASSUME RetentionInv, UNCHANGED storageVars PROVE RetentionInv' /\ OnlyOld
    BY <2>3 DEF storageVars, rowVars, RetentionInv, OnlyOld
  <2> QED BY <2>1, <2>2, <2>3
<1>3. RetentionInv /\ [Migration \/ Retention(Tables, Nat)]_storageVars => [OnlyOld]_storageVars
  BY <1>2
<1> QED BY <1>1, <1>2, <1>3, PTL DEF StorageSpec, OnlyOldRowsGo, OnlyOld

-----------------------------------------------------------------------------
(* Vendor: what a month costs.                                              *)

Paid(m) == {i \in DOMAIN paid : paid[i].month = m}

AllContracts == UNION {Contracts[u] : u \in Underlyings}
Request == [of : Underlyings, got : SUBSET AllContracts, slot : Nat]
Payment == [of : Underlyings, month : 0..Months, lost : BOOLEAN]

SpendTypes ==
  /\ month \in 1..Months /\ ledger \in [1..Months -> Nat] /\ blind \in Nat
  /\ flight \in Seq(Request) /\ paid \in Seq(Payment) /\ again \subseteq Underlyings
  /\ defs \in [Underlyings -> SUBSET AllContracts]

(* A request under way may still be charged, so it counts against the cap with the ledger.      *)
SpendLimits ==
  /\ \A m \in 1..Months : m > month => ledger[m] = 0
  /\ \A m \in 1..Months : ledger[m] <= Cap - 1 + MaxFlight + blind
  /\ Len(flight) <= MaxFlight /\ (flight # <<>> => Cap > 0 \/ blind > 0)
  /\ ledger[month] + Len(flight) <= Cap - 1 + MaxFlight + blind

SpendSums == \A m \in 1..Months : ledger[m] = Cardinality(Paid(m))

(* A request that is answered and not charged yet owes the payment at its place, and that one   *)
(* alone.                                                                                       *)
SpendSlots ==
  /\ \A k \in DOMAIN flight : flight[k].slot # 0 =>
       /\ flight[k].slot \in DOMAIN paid /\ paid[flight[k].slot].month = 0
       /\ paid[flight[k].slot].of = flight[k].of
  /\ \A k, h \in DOMAIN flight : k # h /\ flight[k].slot # 0 => flight[k].slot # flight[h].slot
  /\ \A i \in DOMAIN paid : paid[i].month = 0 =>
       paid[i].lost \/ \E k \in DOMAIN flight : flight[k].slot = i

(* An underlying that was paid for is in the table and is not asked for again; until then only  *)
(* one request for it is under way; or it is known to be one of the exceptions.                 *)
SpendPairs ==
  /\ \A i, j \in DOMAIN flight : i # j /\ flight[i].of = flight[j].of => flight[i].of \in again
  /\ \A i \in DOMAIN flight, j \in DOMAIN paid :
       flight[i].of = paid[j].of => flight[i].of \in again \/ flight[i].slot = j
  /\ \A i, j \in DOMAIN paid : i # j /\ paid[i].of = paid[j].of => paid[i].of \in again
  /\ \A j \in DOMAIN paid : defs[paid[j].of] # {} \/ paid[j].of \in again

SpendInv == SpendTypes /\ SpendLimits /\ SpendSums /\ SpendSlots /\ SpendPairs

(* What is left of a sequence without one of its elements keeps the order and the distances.    *)
LEMMA WithoutOne ==
  ASSUME NEW S, NEW s \in Seq(S), NEW k \in DOMAIN s
  PROVE  /\ RemoveAt(s, k) \in Seq(S)
         /\ Len(RemoveAt(s, k)) = Len(s) - 1
         /\ \A i \in DOMAIN RemoveAt(s, k) :
              /\ i \in DOMAIN s /\ i + 1 \in DOMAIN s
              /\ RemoveAt(s, k)[i] = IF i < k THEN s[i] ELSE s[i + 1]
<1>1. k \in 1..Len(s) /\ Len(s) \in Nat
  OBVIOUS
<1> DEFINE a == SubSeq(s, 1, k - 1)
           b == SubSeq(s, k + 1, Len(s))
<1>2. a \in Seq(S) /\ Len(a) = k - 1 /\ \A i \in 1..k - 1 : a[i] = s[i]
  BY <1>1
<1>3. b \in Seq(S) /\ Len(b) = Len(s) - k /\ \A i \in 1..Len(s) - k : b[i] = s[k + i]
  BY <1>1
<1>4. RemoveAt(s, k) = a \o b
  BY DEF RemoveAt
<1> HIDE DEF a, b
<1>5. a \o b \in Seq(S) /\ Len(a \o b) = Len(s) - 1
  <2>1. a \o b \in Seq(S) /\ Len(a \o b) = Len(a) + Len(b)
    BY <1>2, <1>3, ConcatProperties
  <2>2. (k - 1) + (Len(s) - k) = Len(s) - 1
    BY <1>1
  <2> QED BY <1>2, <1>3, <2>1, <2>2
<1>6. ASSUME NEW i \in 1..Len(s) - 1
      PROVE  (a \o b)[i] = IF i < k THEN s[i] ELSE s[i + 1]
  <2>0. (a \o b)[i] = IF i <= Len(a) THEN a[i] ELSE b[i - Len(a)]
    <3>1. i \in 1..Len(a) + Len(b)
      BY <1>1, <1>2, <1>3
    <3> QED BY <1>2, <1>3, <3>1, ConcatProperties
  <2>1. CASE i < k
    BY <1>1, <1>2, <2>0, <2>1
  <2>2. CASE ~(i < k)
    <3>1. PICK n \in 1..Len(s) - k : i = n + (k - 1)
      <4>1. i - (k - 1) \in 1..Len(s) - k /\ i = (i - (k - 1)) + (k - 1)
        BY <1>1, <2>2
      <4> QED BY <4>1
    <3>2. ~(i <= Len(a)) /\ i - Len(a) = n /\ k + n = i + 1
      BY <1>1, <1>2, <3>1
    <3>3. b[n] = s[k + n]
      BY <1>3
    <3>4. b[i - Len(a)] = s[i + 1]
      BY <3>2, <3>3
    <3> QED BY <2>0, <3>2, <3>4
  <2> QED BY <2>1, <2>2
<1>7. DOMAIN (a \o b) = 1..Len(s) - 1 /\ DOMAIN s = 1..Len(s)
  BY <1>5
<1>8. \A i \in 1..Len(s) - 1 : i \in 1..Len(s) /\ i + 1 \in 1..Len(s)
  BY <1>1
<1> QED BY <1>4, <1>5, <1>6, <1>7, <1>8

(* The elements of t were elsewhere in s before, and k is the only place none of them was at.   *)
AllBut(t, s, k) ==
  \E old \in [DOMAIN t -> DOMAIN s] :
    /\ \A i \in DOMAIN t : old[i] # k /\ t[i] = s[old[i]]
    /\ \A i, j \in DOMAIN t : i # j => old[i] # old[j]
    /\ \A h \in DOMAIN s : h # k => \E i \in DOMAIN t : old[i] = h

(* The same, told by where the elements were before.                                            *)
LEMMA AllButOne ==
  ASSUME NEW S, NEW s \in Seq(S), NEW k \in DOMAIN s, NEW t, t = RemoveAt(s, k)
  PROVE  /\ t \in Seq(S) /\ Len(t) = Len(s) - 1
         /\ Len(s) \in Nat \ {0} /\ s # <<>>
         /\ AllBut(t, s, k)
<1>2. /\ t \in Seq(S) /\ Len(t) = Len(s) - 1
      /\ \A i \in DOMAIN t : i \in DOMAIN s /\ i + 1 \in DOMAIN s /\ t[i] = IF i < k THEN s[i] ELSE s[i + 1]
  BY WithoutOne
<1>3. /\ Len(s) \in Nat \ {0} /\ s # <<>> /\ k \in 1..Len(s)
      /\ DOMAIN s = 1..Len(s) /\ DOMAIN t = 1..(Len(s) - 1)
  <2>1. DOMAIN s = 1..Len(s) /\ Len(s) \in Nat
    OBVIOUS
  <2>2. DOMAIN t = 1..Len(t)
    BY <1>2
  <2> QED BY <1>2, <2>1, <2>2
<1>4. PICK old : old = [i \in DOMAIN t |-> IF i < k THEN i ELSE i + 1]
  OBVIOUS
<1>5. /\ old \in [DOMAIN t -> DOMAIN s]
      /\ \A i \in DOMAIN t : old[i] # k /\ t[i] = s[old[i]]
      /\ \A i, j \in DOMAIN t : i # j => old[i] # old[j]
  BY <1>2, <1>3, <1>4
<1>6. ASSUME NEW h \in DOMAIN s, h # k PROVE \E i \in DOMAIN t : old[i] = h
  <2>1. CASE h < k
    <3>1. h \in DOMAIN t /\ old[h] = h
      BY <1>3, <1>4, <2>1
    <3> QED BY <3>1
  <2>2. CASE ~(h < k)
    <3>1. PICK g \in 1..(Len(s) - 1) : h = g + 1 /\ ~(g < k)
      <4>1. h - 1 \in 1..(Len(s) - 1) /\ h = (h - 1) + 1 /\ ~(h - 1 < k)
        BY <1>3, <1>6, <2>2
      <4> QED BY <4>1
    <3>2. old[g] = h
      BY <1>3, <1>4, <3>1
    <3> QED BY <1>3, <3>1, <3>2
  <2> QED BY <2>1, <2>2
<1>7. AllBut(t, s, k)
  <2>1. /\ old \in [DOMAIN t -> DOMAIN s]
        /\ \A i \in DOMAIN t : old[i] # k /\ t[i] = s[old[i]]
        /\ \A i, j \in DOMAIN t : i # j => old[i] # old[j]
        /\ \A h \in DOMAIN s : h # k => \E i \in DOMAIN t : old[i] = h
    BY <1>5, <1>6
  <2> QED BY Zenon, <2>1 DEF AllBut
<1> QED BY <1>2, <1>3, <1>7

(* What the parts of the invariant say of single requests and payments.                         *)
LEMMA SpendReads ==
  ASSUME SpendTypes
  PROVE  /\ \A k \in DOMAIN flight : flight[k].of \in Underlyings /\ flight[k].slot \in Nat
         /\ \A k \in DOMAIN flight : flight[k] \in Request
         /\ \A i \in DOMAIN paid : paid[i].of \in Underlyings /\ paid[i].month \in 0..Months
         /\ \A i \in DOMAIN paid : paid[i] \in Payment
         /\ Len(flight) \in Nat /\ DOMAIN flight = 1..Len(flight)
         /\ Len(paid) \in Nat /\ DOMAIN paid = 1..Len(paid)
<1>1. ASSUME NEW P, NEW s \in Seq(P) PROVE DOMAIN s = 1..Len(s) /\ Len(s) \in Nat /\ \A i \in DOMAIN s : s[i] \in P
  OBVIOUS
<1>2. /\ \A k \in DOMAIN flight : flight[k] \in Request
      /\ Len(flight) \in Nat /\ DOMAIN flight = 1..Len(flight)
  BY <1>1 DEF SpendTypes
<1>3. /\ \A i \in DOMAIN paid : paid[i] \in Payment
      /\ Len(paid) \in Nat /\ DOMAIN paid = 1..Len(paid)
  BY <1>1 DEF SpendTypes
<1>4. \A r \in Request : r.of \in Underlyings /\ r.slot \in Nat
  BY DEF Request
<1>5. \A p \in Payment : p.of \in Underlyings /\ p.month \in 0..Months
  BY DEF Payment
<1> QED BY <1>2, <1>3, <1>4, <1>5

(* A chain is asked of the vendor only while the ledger of the month is below the cap, or       *)
(* cannot be read.                                                                              *)
LEMMA AskingKeepsTheBound ==
  ASSUME VendorAssumption, SpendInv, NEW u \in Underlyings,
         NEW broken \in SUBSET {"definitions", "ledger"}, AskChain(u, broken)
  PROVE  SpendInv'
<1>0. UNCHANGED <<ledger, paid, month, defs>>
  BY DEF AskChain
<1>1. CASE flight' = flight /\ again' = again /\ blind' = blind
  <2>1. SpendTypes /\ SpendLimits /\ SpendSums /\ SpendSlots /\ SpendPairs
    BY DEF SpendInv
  <2>2. SpendTypes'
    BY <1>0, <1>1, <2>1 DEF SpendTypes
  <2>3. SpendLimits'
    BY <1>0, <1>1, <2>1 DEF SpendLimits
  <2>4. SpendSums'
    BY <1>0, <1>1, <2>1 DEF SpendSums, Paid
  <2>5. SpendSlots'
    BY Zenon, <1>0, <1>1, <2>1 DEF SpendSlots
  <2>6. SpendPairs'
    BY Zenon, <1>0, <1>1, <2>1 DEF SpendPairs
  <2> QED BY <2>2, <2>3, <2>4, <2>5, <2>6 DEF SpendInv
<1>2. CASE /\ flight' = Append(flight, [of |-> u, got |-> {}, slot |-> 0]) /\ Len(flight) < MaxFlight
           /\ again \subseteq again' /\ again' \subseteq Underlyings
           /\ (defs[u] # {} \/ \E k \in DOMAIN flight : flight[k].of = u) => u \in again'
           /\ (blind' = blind /\ ledger[month] < Cap) \/ blind' = blind + 1
  <2> DEFINE r == [of |-> u, got |-> {}, slot |-> 0]
  <2>0. SpendTypes /\ SpendLimits /\ SpendSums /\ SpendSlots /\ SpendPairs
    BY DEF SpendInv
  <2>1. /\ \A k \in DOMAIN flight : flight[k].of \in Underlyings /\ flight[k].slot \in Nat
        /\ \A i \in DOMAIN paid : paid[i].of \in Underlyings
        /\ Len(flight) \in Nat /\ DOMAIN flight = 1..Len(flight)
        /\ Len(paid) \in Nat /\ DOMAIN paid = 1..Len(paid)
    BY <2>0, SpendReads
  <2>2. PICK n : n = Len(flight) + 1
    OBVIOUS
  <2>3. r \in Request /\ r.of = u /\ r.slot = 0
    BY DEF Request
  <2> HIDE DEF r
  <2>4. /\ flight' \in Seq(Request) /\ Len(flight') = n /\ DOMAIN flight' = 1..n
        /\ flight'[n] = r /\ \A k \in 1..Len(flight) : flight'[k] = flight[k]
    BY <1>2, <2>0, <2>2, <2>3 DEF r, SpendTypes
  <2>5. DOMAIN flight' = DOMAIN flight \cup {n} /\ n \notin DOMAIN flight
    BY <2>1, <2>2, <2>4
  <2>6. /\ flight'[n].of = u /\ flight'[n].slot = 0
        /\ \A k \in DOMAIN flight : flight'[k].of = flight[k].of /\ flight'[k].slot = flight[k].slot
    BY <2>1, <2>3, <2>4
  <2>7. SpendTypes'
    BY <1>0, <1>2, <2>0, <2>4 DEF SpendTypes
  <2>8. SpendLimits'
    <3>1. month \in 1..Months /\ ledger \in [1..Months -> Nat] /\ blind \in Nat /\ Cap \in Nat /\ MaxFlight \in Nat
      BY <2>0 DEF SpendTypes, VendorAssumption
    <3>2. ledger[month] \in Nat /\ blind <= blind' /\ blind' \in Nat
      BY <1>2, <3>1
    <3>3. Len(flight') <= MaxFlight /\ (Cap > 0 \/ blind' > 0)
      BY <1>2, <2>1, <2>2, <2>4, <3>1, <3>2
    <3>4. ledger[month] + Len(flight') <= Cap - 1 + MaxFlight + blind'
      BY <1>2, <2>0, <2>1, <2>2, <2>4, <3>1, <3>2 DEF SpendLimits
    <3>5. \A m \in 1..Months : ledger[m] <= Cap - 1 + MaxFlight + blind'
      BY <2>0, <3>1, <3>2 DEF SpendLimits
    <3> QED BY <1>0, <2>0, <3>3, <3>4, <3>5 DEF SpendLimits
  <2>9. SpendSums'
    BY <1>0, <2>0 DEF SpendSums, Paid
  <2>10. SpendSlots'
    BY <1>0, <2>0, <2>5, <2>6 DEF SpendSlots
  <2>11. SpendPairs'
    <3>1. \A i, j \in DOMAIN flight' : i # j /\ flight'[i].of = flight'[j].of => flight'[i].of \in again'
      BY <1>2, <2>0, <2>5, <2>6 DEF SpendPairs
    <3>2. \A i \in DOMAIN flight', j \in DOMAIN paid :
            flight'[i].of = paid[j].of => flight'[i].of \in again' \/ flight'[i].slot = j
      BY <1>2, <2>0, <2>5, <2>6 DEF SpendPairs
    <3> QED BY <1>0, <1>2, <2>0, <3>1, <3>2 DEF SpendPairs
  <2> QED BY <2>7, <2>8, <2>9, <2>10, <2>11 DEF SpendInv
<1>3. (flight' = flight /\ again' = again /\ blind' = blind)
      \/ /\ flight' = Append(flight, [of |-> u, got |-> {}, slot |-> 0]) /\ Len(flight) < MaxFlight
         /\ again \subseteq again' /\ again' \subseteq Underlyings
         /\ (defs[u] # {} \/ \E k \in DOMAIN flight : flight[k].of = u) => u \in again'
         /\ (blind' = blind /\ ledger[month] < Cap) \/ blind' = blind + 1
  <2>1. again \subseteq Underlyings
    BY DEF SpendInv, SpendTypes
  <2> QED BY <2>1 DEF AskChain, getVendorUsage
<1> QED BY <1>1, <1>2, <1>3

(* The vendor answers: the request owes a payment, of an underlying no other one was for.       *)
LEMMA AnsweringKeepsTheBound ==
  ASSUME VendorAssumption, SpendInv, NEW k \in DOMAIN flight,
         NEW chain \in SUBSET Contracts[flight[k].of], NEW kept \in SUBSET chain, ChainAnswered(k, chain, kept)
  PROVE  SpendInv'
<1>0. SpendTypes /\ SpendLimits /\ SpendSums /\ SpendSlots /\ SpendPairs
  BY DEF SpendInv
<1>1. /\ \A h \in DOMAIN flight : flight[h].of \in Underlyings /\ flight[h].slot \in Nat /\ flight[h] \in Request
      /\ \A i \in DOMAIN paid : paid[i].of \in Underlyings /\ paid[i].month \in 0..Months
      /\ Len(flight) \in Nat /\ DOMAIN flight = 1..Len(flight)
      /\ Len(paid) \in Nat /\ DOMAIN paid = 1..Len(paid)
  BY <1>0, SpendReads
<1>2. PICK u \in Underlyings : u = flight[k].of
  BY <1>1
<1>3. PICK n \in Nat \ {0} : n = Len(paid) + 1
  BY <1>1
<1> DEFINE r == [of |-> u, got |-> chain, slot |-> n]
           p == [of |-> u, month |-> 0, lost |-> FALSE]
<1>4. /\ UNCHANGED <<ledger, blind, month>> /\ flight[k].slot = 0
      /\ flight' = [flight EXCEPT ![k] = r] /\ paid' = Append(paid, p)
      /\ defs' = [defs EXCEPT ![u] = @ \cup kept]
      /\ again' = IF kept = {} THEN again \cup {u} ELSE again
  BY <1>2, <1>3 DEF ChainAnswered
<1>5. r \in Request /\ r.of = u /\ r.slot = n
  <2>1. chain \in SUBSET AllContracts
    BY <1>2 DEF AllContracts
  <2> QED BY <2>1, <1>3 DEF Request
<1>6. p \in Payment /\ p.of = u /\ p.month = 0
  <2>1. 0 \in 0..Months
    BY DEF VendorAssumption
  <2> QED BY <2>1 DEF Payment
<1> HIDE DEF r, p
<1>7. /\ flight' \in Seq(Request) /\ DOMAIN flight' = DOMAIN flight /\ Len(flight') = Len(flight)
      /\ flight'[k] = r /\ \A h \in DOMAIN flight : h # k => flight'[h] = flight[h]
  <2>1. flight \in Seq(Request)
    BY <1>0 DEF SpendTypes
  <2> QED BY <1>4, <1>5, <2>1
<1>8. /\ paid' \in Seq(Payment) /\ DOMAIN paid' = 1..n
      /\ paid'[n] = p /\ \A i \in 1..Len(paid) : paid'[i] = paid[i]
  <2>1. paid \in Seq(Payment)
    BY <1>0 DEF SpendTypes
  <2> QED BY <1>3, <1>4, <1>6, <2>1
<1>9. DOMAIN paid' = DOMAIN paid \cup {n} /\ n \notin DOMAIN paid /\ 0 \notin DOMAIN paid'
  BY <1>1, <1>3, <1>8
<1>10. /\ \A h \in DOMAIN flight : flight'[h].of = flight[h].of
       /\ flight'[k].slot = n
       /\ \A h \in DOMAIN flight : h # k => flight'[h].slot = flight[h].slot
  BY <1>2, <1>5, <1>7
<1>11. /\ paid'[n].of = u /\ paid'[n].month = 0
       /\ \A i \in DOMAIN paid : paid'[i] = paid[i]
  BY <1>1, <1>6, <1>8
<1>12. again \subseteq again' /\ again' \subseteq Underlyings /\ (kept = {} => u \in again')
  BY <1>0, <1>4 DEF SpendTypes
<1>13. /\ defs' \in [Underlyings -> SUBSET AllContracts]
       /\ kept # {} => defs'[u] # {}
       /\ \A v \in Underlyings : defs[v] # {} => defs'[v] # {}
  <2>1. kept \subseteq AllContracts
    BY <1>2 DEF AllContracts
  <2>2. defs \in [Underlyings -> SUBSET AllContracts]
    BY <1>0 DEF SpendTypes
  <2>3. /\ defs' \in [Underlyings -> SUBSET AllContracts]
        /\ \A v \in Underlyings : defs'[v] = IF v = u THEN defs[v] \cup kept ELSE defs[v]
    BY <1>4, <2>1, <2>2
  <2> QED BY <2>3
<1>14. SpendTypes'
  BY <1>0, <1>4, <1>7, <1>8, <1>12, <1>13 DEF SpendTypes
<1>15. SpendLimits'
  <2>1. flight # <<>>
    BY <1>1
  <2> QED BY <1>0, <1>4, <1>7, <2>1 DEF SpendLimits
<1>16. SpendSums'
  <2>1. ASSUME NEW m \in 1..Months PROVE Paid(m)' = Paid(m)
    <3>1. m # 0
      OBVIOUS
    <3> QED BY <1>9, <1>11, <3>1 DEF Paid
  <2> QED BY <1>0, <1>4, <2>1 DEF SpendSums
<1>17. SpendSlots'
  <2>1. \A h \in DOMAIN flight' : flight'[h].slot # 0 =>
          /\ flight'[h].slot \in DOMAIN paid' /\ paid'[flight'[h].slot].month = 0
          /\ paid'[flight'[h].slot].of = flight'[h].of
    <3>1. ASSUME NEW h \in DOMAIN flight, h # k, flight[h].slot # 0
          PROVE  /\ flight[h].slot \in DOMAIN paid' /\ paid'[flight[h].slot].month = 0
                 /\ paid'[flight[h].slot].of = flight[h].of
      BY <1>0, <1>9, <1>11, <3>1 DEF SpendSlots
    <3> QED BY <1>2, <1>7, <1>9, <1>10, <1>11, <3>1
  <2>2. \A g, h \in DOMAIN flight' : g # h /\ flight'[g].slot # 0 => flight'[g].slot # flight'[h].slot
    <3>1. \A h \in DOMAIN flight : flight[h].slot # n
      BY <1>0, <1>3, <1>9 DEF SpendSlots
    <3> QED BY <1>0, <1>7, <1>10, <3>1 DEF SpendSlots
  <2>3. ASSUME NEW i \in DOMAIN paid', paid'[i].month = 0
        PROVE  paid'[i].lost \/ \E h \in DOMAIN flight' : flight'[h].slot = i
    <3>1. CASE i = n
      BY <1>7, <1>10, <3>1
    <3>2. CASE i # n
      <4>1. i \in DOMAIN paid /\ paid'[i] = paid[i] /\ paid[i].month = 0
        BY <1>9, <1>11, <2>3, <3>2
      <4>2. paid[i].lost \/ \E h \in DOMAIN flight : flight[h].slot = i
        BY <1>0, <4>1 DEF SpendSlots
      <4>3. ASSUME NEW h \in DOMAIN flight, flight[h].slot = i PROVE h \in DOMAIN flight' /\ flight'[h].slot = i
        BY <1>4, <1>7, <1>9, <1>10, <4>3
      <4> QED BY <4>1, <4>2, <4>3
    <3> QED BY <3>1, <3>2
  <2> QED BY <2>1, <2>2, <2>3 DEF SpendSlots
<1>18. SpendPairs'
  <2>1. \A j \in DOMAIN paid : paid[j].of = u => u \in again
    BY <1>0, <1>1, <1>2, <1>4, <1>9 DEF SpendPairs
  <2>2. \A i, j \in DOMAIN flight' : i # j /\ flight'[i].of = flight'[j].of => flight'[i].of \in again'
    BY <1>0, <1>7, <1>10, <1>12 DEF SpendPairs
  <2>3. ASSUME NEW i \in DOMAIN flight', NEW j \in DOMAIN paid', flight'[i].of = paid'[j].of
        PROVE  flight'[i].of \in again' \/ flight'[i].slot = j
    <3>1. CASE i = k
      BY <1>2, <1>7, <1>9, <1>10, <1>11, <1>12, <2>1, <2>3, <3>1
    <3>2. CASE i # k /\ j = n
      <4>1. i \in DOMAIN flight /\ flight[i].of = flight[k].of
        BY <1>2, <1>7, <1>10, <1>11, <2>3, <3>2
      <4>2. flight[i].of \in again
        BY <1>0, <3>2, <4>1 DEF SpendPairs
      <4> QED BY <1>10, <1>12, <4>1, <4>2
    <3>3. CASE i # k /\ j # n
      <4>1. /\ i \in DOMAIN flight /\ j \in DOMAIN paid /\ flight[i].of = paid[j].of
            /\ flight'[i].of = flight[i].of /\ flight'[i].slot = flight[i].slot
        BY <1>7, <1>9, <1>10, <1>11, <2>3, <3>3
      <4>2. flight[i].of \in again \/ flight[i].slot = j
        BY <1>0, <4>1 DEF SpendPairs
      <4> QED BY <1>12, <4>1, <4>2
    <3> QED BY <3>1, <3>2, <3>3
  <2>4. \A i, j \in DOMAIN paid' : i # j /\ paid'[i].of = paid'[j].of => paid'[i].of \in again'
    BY <1>0, <1>9, <1>11, <1>12, <2>1 DEF SpendPairs
  <2>5. \A j \in DOMAIN paid' : defs'[paid'[j].of] # {} \/ paid'[j].of \in again'
    BY <1>0, <1>1, <1>9, <1>11, <1>12, <1>13 DEF SpendPairs
  <2> QED BY <2>2, <2>3, <2>4, <2>5 DEF SpendPairs
<1> QED BY <1>14, <1>15, <1>16, <1>17, <1>18 DEF SpendInv

(* A request is over, and leaves the ones that are still under way as they were.                *)
LEMMA RequestIsOver ==
  ASSUME VendorAssumption, SpendInv, NEW k \in DOMAIN flight, flight' = RemoveAt(flight, k),
         UNCHANGED <<month, blind, again, defs>>,
         DOMAIN paid' = DOMAIN paid, paid' \in Seq(Payment),
         \A i \in DOMAIN paid : paid'[i].of = paid[i].of /\ (i # flight[k].slot => paid'[i] = paid[i]),
         flight[k].slot # 0 => paid'[flight[k].slot].month # 0 \/ paid'[flight[k].slot].lost,
         ledger' \in [1..Months -> Nat], SpendSums',
         \A m \in 1..Months : ledger'[m] = ledger[m] \/ (m = month /\ ledger'[m] = ledger[m] + 1)
  PROVE  SpendInv'
<1>0. SpendTypes /\ SpendLimits /\ SpendSums /\ SpendSlots /\ SpendPairs
  BY DEF SpendInv
<1>1. /\ \A h \in DOMAIN flight : flight[h].of \in Underlyings /\ flight[h].slot \in Nat
      /\ Len(flight) \in Nat /\ DOMAIN flight = 1..Len(flight)
      /\ Len(paid) \in Nat /\ DOMAIN paid = 1..Len(paid)
  BY <1>0, SpendReads
<1>2. flight \in Seq(Request)
  BY <1>0 DEF SpendTypes
<1>3. /\ flight' \in Seq(Request) /\ Len(flight') = Len(flight) - 1
      /\ flight # <<>> /\ Len(flight) \in Nat \ {0} /\ AllBut(flight', flight, k)
  <2>1. PICK t : t = flight' /\ t = RemoveAt(flight, k)
    OBVIOUS
  <2>2. /\ t \in Seq(Request) /\ Len(t) = Len(flight) - 1
        /\ Len(flight) \in Nat \ {0} /\ flight # <<>> /\ AllBut(t, flight, k)
    BY <1>2, <2>1, AllButOne
  <2> QED BY <2>1, <2>2
<1>4. PICK old \in [DOMAIN flight' -> DOMAIN flight] :
           /\ \A i \in DOMAIN flight' : old[i] # k /\ flight'[i] = flight[old[i]]
           /\ \A i, j \in DOMAIN flight' : i # j => old[i] # old[j]
           /\ \A h \in DOMAIN flight : h # k => \E i \in DOMAIN flight' : old[i] = h
  BY Zenon, <1>3 DEF AllBut
<1>5. \A i \in DOMAIN flight' : /\ old[i] \in DOMAIN flight /\ old[i] # k
                                /\ flight'[i].of = flight[old[i]].of /\ flight'[i].slot = flight[old[i]].slot
  BY <1>4
<1>6. SpendTypes'
  BY <1>0, <1>3 DEF SpendTypes
<1>7. SpendLimits'
  <2>1. /\ month \in 1..Months /\ ledger \in [1..Months -> Nat] /\ blind \in Nat
        /\ Cap \in Nat /\ MaxFlight \in Nat /\ Len(flight') \in Nat
    BY <1>0, <1>3 DEF SpendTypes, VendorAssumption
  <2>2. ledger[month] \in Nat /\ ledger'[month] \in Nat /\ ledger'[month] <= ledger[month] + 1
    BY <2>1
  <2>3. /\ Len(flight') <= MaxFlight /\ (Cap > 0 \/ blind > 0)
        /\ ledger[month] + Len(flight) <= Cap - 1 + MaxFlight + blind
    BY <1>0, <1>3, <2>1 DEF SpendLimits
  <2>4. ledger'[month] + Len(flight') <= Cap - 1 + MaxFlight + blind
    BY <1>3, <2>1, <2>2, <2>3
  <2>5. \A m \in 1..Months : m > month => ledger'[m] = 0
    <3>1. \A m \in 1..Months : m > month => m # month /\ ledger[m] = 0
      BY <1>0, <2>1 DEF SpendLimits, VendorAssumption
    <3> QED BY <3>1
  <2>6. \A m \in 1..Months : ledger'[m] <= Cap - 1 + MaxFlight + blind
    <3>1. ledger'[month] <= Cap - 1 + MaxFlight + blind
      BY <2>1, <2>2, <2>4
    <3> QED BY <1>0, <3>1 DEF SpendLimits
  <2> QED BY <2>3, <2>4, <2>5, <2>6 DEF SpendLimits
<1>8. SpendSlots'
  <2>1. \A h \in DOMAIN flight' : flight'[h].slot # 0 => flight'[h].slot # flight[k].slot
    BY <1>0, <1>5 DEF SpendSlots
  <2>2. ASSUME NEW h \in DOMAIN flight', flight'[h].slot # 0
        PROVE  /\ flight'[h].slot \in DOMAIN paid' /\ paid'[flight'[h].slot].month = 0
               /\ paid'[flight'[h].slot].of = flight'[h].of
    <3>1. PICK g \in DOMAIN flight : flight'[h].of = flight[g].of /\ flight'[h].slot = flight[g].slot
      BY <1>5
    <3>2. PICK s : s = flight[g].slot
      OBVIOUS
    <3>3. s \in DOMAIN paid /\ paid[s].month = 0 /\ paid[s].of = flight[g].of /\ s # flight[k].slot
      BY <1>0, <2>1, <2>2, <3>1, <3>2 DEF SpendSlots
    <3>4. paid'[s] = paid[s]
      BY <3>3
    <3> QED BY <3>1, <3>2, <3>3, <3>4
  <2>3. \A g, h \in DOMAIN flight' : g # h /\ flight'[g].slot # 0 => flight'[g].slot # flight'[h].slot
    BY <1>0, <1>4, <1>5 DEF SpendSlots
  <2>4. ASSUME NEW i \in DOMAIN paid', paid'[i].month = 0
        PROVE  paid'[i].lost \/ \E h \in DOMAIN flight' : flight'[h].slot = i
    <3>1. CASE i = flight[k].slot
      <4>1. flight[k].slot # 0
        BY <1>1, <3>1
      <4> QED BY <2>4, <3>1, <4>1
    <3>2. CASE i # flight[k].slot
      <4>1. paid'[i] = paid[i] /\ paid[i].month = 0 /\ i \in DOMAIN paid
        BY <2>4, <3>2
      <4>2. CASE paid[i].lost
        BY <4>1, <4>2
      <4>3. CASE \E h \in DOMAIN flight : flight[h].slot = i
        <5>1. PICK h \in DOMAIN flight : flight[h].slot = i
          BY <4>3
        <5>2. PICK g \in DOMAIN flight' : old[g] = h
          BY <1>4, <3>2, <5>1
        <5> QED BY <1>5, <5>1, <5>2
      <4> QED BY <1>0, <4>1, <4>2, <4>3 DEF SpendSlots
    <3> QED BY <3>1, <3>2
  <2> QED BY <2>2, <2>3, <2>4 DEF SpendSlots
<1>9. SpendPairs'
  <2>1. \A i, j \in DOMAIN flight' : i # j /\ flight'[i].of = flight'[j].of => flight'[i].of \in again
    BY <1>0, <1>4, <1>5 DEF SpendPairs
  <2>2. \A i \in DOMAIN flight', j \in DOMAIN paid' :
          flight'[i].of = paid'[j].of => flight'[i].of \in again \/ flight'[i].slot = j
    BY <1>0, <1>5 DEF SpendPairs
  <2>3. \A i, j \in DOMAIN paid' : i # j /\ paid'[i].of = paid'[j].of => paid'[i].of \in again
    BY <1>0 DEF SpendPairs
  <2>4. \A j \in DOMAIN paid' : defs[paid'[j].of] # {} \/ paid'[j].of \in again
    BY <1>0 DEF SpendPairs
  <2> QED BY <2>1, <2>2, <2>3, <2>4 DEF SpendPairs
<1> QED BY <1>6, <1>7, <1>8, <1>9 DEF SpendInv

LEMMA FailingKeepsTheBound ==
  ASSUME VendorAssumption, SpendInv, NEW k \in DOMAIN flight, ChainFailed(k)
  PROVE  SpendInv'
<1>1. flight' = RemoveAt(flight, k) /\ flight[k].slot = 0 /\ UNCHANGED <<ledger, paid, month, defs, again, blind>>
  BY DEF ChainFailed, history
<1>2. paid \in Seq(Payment) /\ ledger \in [1..Months -> Nat] /\ SpendSums
  BY DEF SpendInv, SpendTypes
<1>3. SpendSums'
  BY <1>1, <1>2 DEF SpendSums, Paid
<1>4. /\ UNCHANGED <<month, blind, again, defs>> /\ DOMAIN paid' = DOMAIN paid /\ paid' \in Seq(Payment)
      /\ \A i \in DOMAIN paid : paid'[i].of = paid[i].of /\ (i # flight[k].slot => paid'[i] = paid[i])
      /\ ledger' \in [1..Months -> Nat]
      /\ \A m \in 1..Months : ledger'[m] = ledger[m] \/ (m = month /\ ledger'[m] = ledger[m] + 1)
  BY <1>1, <1>2
<1> QED BY <1>1, <1>3, <1>4, RequestIsOver

(* A payment moves one from the requests to the ledger of the month it is by then, or nowhere.  *)
LEMMA ChargingKeepsTheBound ==
  ASSUME VendorAssumption, SpendInv, NEW k \in DOMAIN flight, NEW written \in BOOLEAN, ChainCharged(k, written)
  PROVE  SpendInv'
<1>0. SpendTypes /\ SpendSums /\ SpendSlots
  BY DEF SpendInv
<1>1. /\ \A h \in DOMAIN flight : flight[h].of \in Underlyings /\ flight[h].slot \in Nat
      /\ \A i \in DOMAIN paid : paid[i].of \in Underlyings /\ paid[i].month \in 0..Months /\ paid[i] \in Payment
      /\ Len(paid) \in Nat /\ DOMAIN paid = 1..Len(paid)
  BY <1>0, SpendReads
<1>2. PICK s \in DOMAIN paid : s = flight[k].slot /\ paid[s].month = 0 /\ paid[s].of = flight[k].of
  BY <1>0 DEF SpendSlots, ChainCharged
<1>3. PICK p : p = [of |-> flight[k].of, month |-> IF written THEN month ELSE 0, lost |-> ~written]
  OBVIOUS
<1>4. month \in 1..Months /\ ledger \in [1..Months -> Nat] /\ paid \in Seq(Payment)
  BY <1>0 DEF SpendTypes
<1>5. /\ p \in Payment /\ p.of = paid[s].of
      /\ p.month = IF written THEN month ELSE 0
      /\ written \/ p.lost
  <2>1. 0 \in 0..Months /\ month \in 0..Months
    BY <1>4 DEF VendorAssumption
  <2>2. PICK m \in 0..Months : m = IF written THEN month ELSE 0
    BY <2>1
  <2>3. p = [of |-> flight[k].of, month |-> m, lost |-> ~written]
    BY <1>3, <2>2
  <2> QED BY <1>1, <2>2, <2>3, <1>2 DEF Payment
<1>6. /\ flight' = RemoveAt(flight, k) /\ UNCHANGED <<month, blind, again, defs>>
      /\ paid' = [paid EXCEPT ![s] = p]
      /\ ledger' = IF written THEN [ledger EXCEPT ![month] = @ + 1] ELSE ledger
  BY <1>2, <1>3 DEF ChainCharged
<1>7. /\ DOMAIN paid' = DOMAIN paid /\ paid' \in Seq(Payment)
      /\ paid'[s] = p /\ \A i \in DOMAIN paid : i # s => paid'[i] = paid[i]
  BY <1>4, <1>5, <1>6
<1>8. \A i \in DOMAIN paid : paid'[i].of = paid[i].of
  BY <1>5, <1>7
<1>9. paid'[s].month # 0 \/ paid'[s].lost
  <2>1. month # 0
    BY <1>4
  <2> QED BY <1>5, <1>7, <2>1
<1>10. /\ ledger' \in [1..Months -> Nat]
       /\ \A m \in 1..Months : ledger'[m] = IF written /\ m = month THEN ledger[m] + 1 ELSE ledger[m]
  BY <1>4, <1>6
<1>11. SpendSums'
  <2>1. ASSUME NEW m \in 1..Months PROVE ledger'[m] = Cardinality(Paid(m)')
    <3>1. ledger[m] = Cardinality(Paid(m))
      BY <1>0 DEF SpendSums
    <3>2. m # 0
      OBVIOUS
    <3>3. CASE written /\ m = month
      <4>1. Paid(m)' = Paid(m) \cup {s} /\ s \notin Paid(m)
        BY <1>2, <1>5, <1>7, <3>2, <3>3 DEF Paid
      <4>2. IsFiniteSet(Paid(m))
        <5>0. PICK l \in Nat : l = Len(paid)
          BY <1>1
        <5>1. IsFiniteSet(1..l)
          BY FS_Interval
        <5> QED BY <1>1, <5>0, <5>1, FS_Subset DEF Paid
      <4>3. Cardinality(Paid(m) \cup {s}) = Cardinality(Paid(m)) + 1
        BY <4>1, <4>2, FS_AddElement
      <4> QED BY <1>10, <3>1, <3>3, <4>1, <4>3
    <3>4. CASE ~(written /\ m = month)
      <4>1. Paid(m)' = Paid(m)
        BY <1>2, <1>5, <1>7, <3>2, <3>4 DEF Paid
      <4> QED BY <1>10, <3>1, <3>4, <4>1
    <3> QED BY <3>3, <3>4
  <2> QED BY <2>1 DEF SpendSums
<1>12. \A i \in DOMAIN paid : paid'[i].of = paid[i].of /\ (i # flight[k].slot => paid'[i] = paid[i])
  BY <1>2, <1>7, <1>8
<1>13. \A m \in 1..Months : ledger'[m] = ledger[m] \/ (m = month /\ ledger'[m] = ledger[m] + 1)
  <2>1. ASSUME NEW m \in 1..Months PROVE ledger'[m] = ledger[m] \/ (m = month /\ ledger'[m] = ledger[m] + 1)
    <3>1. CASE written
      BY <1>10, <3>1
    <3>2. CASE ~written
      BY <1>10, <3>2
    <3> QED BY <3>1, <3>2
  <2> QED BY <2>1
<1> QED BY <1>2, <1>6, <1>7, <1>9, <1>10, <1>11, <1>12, <1>13, RequestIsOver

(* The process ends: what is owed is lost.                                                      *)
LEMMA EndingKeepsTheBound ==
  ASSUME VendorAssumption, SpendInv, RestartVendor
  PROVE  SpendInv'
<1>0. SpendTypes /\ SpendLimits /\ SpendSums /\ SpendSlots /\ SpendPairs
  BY DEF SpendInv
<1>1. /\ \A i \in DOMAIN paid : paid[i] \in Payment
      /\ Len(flight) \in Nat /\ DOMAIN flight = 1..Len(flight)
      /\ Len(paid) \in Nat /\ DOMAIN paid = 1..Len(paid)
  BY <1>0, SpendReads
<1>2. /\ UNCHANGED <<defs, ledger, again, blind, month>> /\ flight' = <<>>
      /\ paid' = [i \in DOMAIN paid |->
                    IF \E k \in DOMAIN flight : flight[k].slot = i THEN [paid[i] EXCEPT !.lost = TRUE] ELSE paid[i]]
  BY DEF RestartVendor
<1>3. \A i \in DOMAIN paid :
        LET q == [paid[i] EXCEPT !.lost = TRUE]
        IN  q \in Payment /\ q.of = paid[i].of /\ q.month = paid[i].month /\ q.lost
  BY <1>1 DEF Payment
<1>4. /\ DOMAIN paid' = DOMAIN paid /\ \A i \in DOMAIN paid : paid'[i] \in Payment
      /\ \A i \in DOMAIN paid : paid'[i].of = paid[i].of /\ paid'[i].month = paid[i].month
      /\ \A i \in DOMAIN paid : paid'[i] = paid[i] \/ paid'[i].lost
      /\ \A i \in DOMAIN paid : (\E k \in DOMAIN flight : flight[k].slot = i) => paid'[i].lost
  <2>1. DOMAIN paid' = DOMAIN paid
    BY <1>2
  <2>2. ASSUME NEW i \in DOMAIN paid
        PROVE  /\ paid'[i] \in Payment /\ paid'[i].of = paid[i].of /\ paid'[i].month = paid[i].month
               /\ paid'[i] = paid[i] \/ paid'[i].lost
               /\ (\E k \in DOMAIN flight : flight[k].slot = i) => paid'[i].lost
    <3>1. CASE \E k \in DOMAIN flight : flight[k].slot = i
      <4>1. PICK q : q = [paid[i] EXCEPT !.lost = TRUE]
        OBVIOUS
      <4>2. q \in Payment /\ q.of = paid[i].of /\ q.month = paid[i].month /\ q.lost
        BY <1>3, <4>1
      <4>3. paid'[i] = q
        BY Zenon, <1>2, <3>1, <4>1
      <4> QED BY <4>2, <4>3
    <3>2. CASE ~ \E k \in DOMAIN flight : flight[k].slot = i
      <4>1. paid'[i] = paid[i]
        BY Zenon, <1>2, <3>2
      <4> QED BY <1>1, <3>2, <4>1
    <3> QED BY <3>1, <3>2
  <2> QED BY <2>1, <2>2
<1>5. paid' \in Seq(Payment)
  <2>1. paid' \in [1..Len(paid) -> Payment]
    BY <1>1, <1>2, <1>4
  <2> QED BY <1>1, <2>1
<1>6. SpendTypes'
  BY <1>0, <1>2, <1>5 DEF SpendTypes
<1>7. SpendLimits'
  <2>1. month \in 1..Months /\ ledger \in [1..Months -> Nat] /\ ledger[month] <= Cap - 1 + MaxFlight + blind
    BY <1>0 DEF SpendTypes, SpendLimits
  <2>2. Len(<<>>) = 0 /\ MaxFlight \in Nat /\ ledger[month] + 0 = ledger[month]
    BY <2>1 DEF VendorAssumption
  <2> QED BY <1>0, <1>2, <2>1, <2>2 DEF SpendLimits
<1>8. SpendSums'
  <2>1. \A m \in 1..Months : Paid(m)' = Paid(m)
    BY <1>4 DEF Paid
  <2> QED BY <1>0, <1>2, <2>1 DEF SpendSums
<1>9. DOMAIN flight' = {}
  BY <1>2
<1>10. SpendSlots'
  <2>1. ASSUME NEW i \in DOMAIN paid, paid'[i].month = 0 PROVE paid'[i].lost
    <3>1. paid[i].lost \/ \E k \in DOMAIN flight : flight[k].slot = i
      BY <1>0, <1>4, <2>1 DEF SpendSlots
    <3>2. CASE paid[i].lost
      BY <1>4, <3>2
    <3> QED BY <1>4, <3>1, <3>2
  <2> QED BY <1>4, <1>9, <2>1 DEF SpendSlots
<1>11. SpendPairs'
  BY <1>0, <1>2, <1>4, <1>9 DEF SpendPairs
<1> QED BY <1>6, <1>7, <1>8, <1>10, <1>11 DEF SpendInv

LEMMA SpendIsKept ==
  ASSUME VendorAssumption, SpendInv,
         ChainsNext(Nat) \/ QuotesNext(Seq(Range(Quoted))) \/ UNCHANGED vendorVars
  PROVE  SpendInv'
<1>1. ASSUME UNCHANGED <<ledger, paid, month, defs, again, blind, flight>> PROVE SpendInv'
  BY <1>1 DEF SpendInv, SpendTypes, SpendLimits, SpendSums, SpendSlots, SpendPairs, Paid
<1>2. ASSUME NextMonth PROVE SpendInv'
  <2>0. SpendTypes /\ SpendLimits /\ SpendSums /\ SpendSlots /\ SpendPairs
    BY DEF SpendInv
  <2>1. UNCHANGED <<ledger, paid, defs, again, blind, flight>> /\ month' = month + 1 /\ month' \in 1..Months
    BY <1>2, <2>0 DEF NextMonth, chainVars, history, SpendTypes, VendorAssumption
  <2>2. SpendTypes' /\ SpendSums' /\ SpendSlots' /\ SpendPairs'
    <3>1. SpendTypes'
      BY <2>0, <2>1 DEF SpendTypes
    <3>2. SpendSums'
      BY <2>0, <2>1 DEF SpendSums, Paid
    <3>3. SpendSlots'
      BY Zenon, <2>0, <2>1 DEF SpendSlots
    <3>4. SpendPairs'
      BY Zenon, <2>0, <2>1 DEF SpendPairs
    <3> QED BY <3>1, <3>2, <3>3, <3>4
  <2>3. SpendLimits'
    <3>1. month' > month /\ ledger[month'] = 0 /\ month \in Nat /\ month' \in Nat
      BY <2>0, <2>1 DEF SpendTypes, SpendLimits
    <3>2. \A m \in 1..Months : m > month' => ledger[m] = 0
      BY <2>0, <2>1, <3>1 DEF SpendLimits
    <3>3. ledger[month'] + Len(flight) <= Cap - 1 + MaxFlight + blind
      <4>1. Len(flight) \in Nat /\ (flight = <<>> => Len(flight) = 0)
        BY <2>0 DEF SpendTypes
      <4>2. Cap \in Nat /\ MaxFlight \in Nat \ {0} /\ blind \in Nat
        BY <2>0 DEF SpendTypes, VendorAssumption
      <4> QED BY <2>0, <3>1, <4>1, <4>2 DEF SpendLimits
    <3> QED BY <2>0, <2>1, <3>2, <3>3 DEF SpendLimits
  <2> QED BY <2>2, <2>3 DEF SpendInv
<1>3. ASSUME NEW u \in Underlyings, AskExposure(u) PROVE SpendInv'
  BY <1>1, <1>3 DEF AskExposure, chainVars, history
<1>4. ASSUME NEW c \in DOMAIN stats, NEW interest \in Nat, AskStatistics(c, interest) PROVE SpendInv'
  BY <1>1, <1>4 DEF AskStatistics, history
<1>5. ASSUME VendorTick PROVE SpendInv'
  BY <1>1, <1>5 DEF VendorTick, history
<1>6. ASSUME QuotesNext(Seq(Range(Quoted))) PROVE SpendInv'
  BY <1>1, <1>5, <1>6, EndingKeepsTheBound
  DEF QuotesNext, AskQuotes, QuoteFromCache, QuoteAnswered, QuoteFailed, QuotesDone, chainVars, history
<1>7. ASSUME UNCHANGED vendorVars PROVE SpendInv'
  BY <1>1, <1>7 DEF vendorVars, chainVars, history
<1>8. ASSUME ChainsNext(Nat) PROVE SpendInv'
  <2>1. ASSUME NEW k \in DOMAIN flight, NEW chain \in SUBSET Contracts[flight[k].of], NEW kept \in SUBSET chain,
               ChainAnswered(k, chain, kept)
        PROVE  SpendInv'
    BY <2>1, AnsweringKeepsTheBound
  <2>2. ASSUME NEW k \in DOMAIN flight, NEW written \in BOOLEAN, ChainCharged(k, written) PROVE SpendInv'
    BY <2>2, ChargingKeepsTheBound
  <2>3. ASSUME NEW k \in DOMAIN flight, ChainFailed(k) PROVE SpendInv'
    BY <2>3, FailingKeepsTheBound
  <2>4. ASSUME NEW u \in Underlyings, NEW broken \in SUBSET {"definitions", "ledger"}, AskChain(u, broken)
        PROVE  SpendInv'
    BY <2>4, AskingKeepsTheBound
  <2> QED BY <1>2, <1>3, <1>4, <1>5, <1>8, <2>1, <2>2, <2>3, <2>4, EndingKeepsTheBound DEF ChainsNext
<1> QED BY <1>6, <1>7, <1>8

(* Every answer with contracts is charged once, or is still owed, or its charge was lost; a     *)
(* month passes the cap of the vendor's ledger by no more than the requests that were under way *)
(* and those that could not read it; an underlying is paid for twice only if two requests for   *)
(* it overlapped or the store did not give its definitions back; over failed writes, restarts   *)
(* and the turn of the month (optionsRoutes.ts, storage/marketDataStore.ts).                    *)
THEOREM SpendIsBoundedTheorem ==
  ASSUME VendorAssumption PROVE VendorSpec => []SpendIsBounded
<1>1. VendorInit => SpendInv
  <2> SUFFICES ASSUME VendorInit PROVE SpendInv
    OBVIOUS
  <2>1. /\ \A m \in 1..Months : ledger[m] = 0
        /\ paid = <<>> /\ flight = <<>> /\ month = 1 /\ 1 \in 1..Months /\ blind = 0
        /\ ledger \in [1..Months -> Nat] /\ again = {}
        /\ defs \in [Underlyings -> SUBSET AllContracts]
    BY DEF VendorInit, VendorAssumption, AllContracts
  <2>2. SpendTypes
    BY <2>1 DEF SpendTypes
  <2>3. SpendLimits
    <3>1. Len(flight) = 0 /\ ledger[month] = 0
      BY <2>1
    <3> QED BY <2>1, <3>1 DEF SpendLimits, VendorAssumption
  <2>4. SpendSums
    <3>1. \A m \in 1..Months : Paid(m) = {}
      BY <2>1 DEF Paid
    <3> QED BY <2>1, <3>1, FS_EmptySet DEF SpendSums
  <2>5. SpendSlots /\ SpendPairs
    BY <2>1 DEF SpendSlots, SpendPairs
  <2> QED BY <2>2, <2>3, <2>4, <2>5 DEF SpendInv
<1>2. SpendInv /\ [ChainsNext(Nat) \/ QuotesNext(Seq(Range(Quoted)))]_vendorVars => SpendInv'
  BY SpendIsKept
<1>3. SpendInv => SpendIsBounded
  BY DEF SpendInv, SpendSums, SpendLimits, SpendSlots, SpendPairs, SpendIsBounded, Paid
<1> QED BY <1>1, <1>2, <1>3, PTL DEF VendorSpec

-----------------------------------------------------------------------------
(* Vendor: the quote board.                                                  *)

(* A request under way has the symbols it still has to ask for, and the quotes it has got.      *)
Quote == [symbol : Range(Quoted), value : Nat, stale : BOOLEAN]
Board == [todo : Seq(Range(Quoted)), got : Seq(Quote)]

BoardInv ==
  /\ DOMAIN quoteCache = Range(Quoted) /\ answers \in Nat
  /\ \A s \in Range(Quoted) : quoteCache[s] # None => quoteCache[s] \in [value : Nat, age : Nat]
  /\ boards \in Seq(Board)

(* What a request shows of its next symbol is what is known of it then.                         *)
Honest(s, new) ==
  IF quoteCache'[s] = None THEN new = <<>>
  ELSE /\ Len(new) = 1 /\ new[1].symbol = s /\ new[1].value = quoteCache'[s].value
       /\ ~new[1].stale => quoteCache'[s].age <= QuoteTTL

(* The request k is one symbol further.                                                         *)
Further(k) == k \in DOMAIN boards' /\ boards[k].todo # <<>> /\ boards'[k].todo = Tail(boards[k].todo)
              /\ Len(boards') = Len(boards)

ShownHonestly ==
  \A k \in DOMAIN boards : Further(k) =>
     Honest(Head(boards[k].todo), SubSeq(boards'[k].got, Len(boards[k].got) + 1, Len(boards'[k].got)))

LEMMA AddedIs ==
  ASSUME NEW S, NEW a \in Seq(S), NEW q \in Seq(S), Len(q) <= 1
  PROVE  SubSeq(a \o q, Len(a) + 1, Len(a \o q)) = q
<1>1. Len(a) \in Nat /\ Len(q) \in Nat /\ Len(a \o q) = Len(a) + Len(q)
  BY ConcatProperties
<1>2. CASE Len(q) = 0
  <2>1. q = <<>>
    BY <1>2
  <2>2. Len(a) + 1 \in Int /\ Len(a \o q) \in Int /\ Len(a \o q) < Len(a) + 1
    BY <1>1, <1>2
  <2>3. SubSeq(a \o q, Len(a) + 1, Len(a \o q)) = <<>>
    BY <2>2, SubSeqEmpty
  <2> QED BY <2>1, <2>3
<1>3. CASE Len(q) = 1
  <2>1. PICK n : n = Len(a) + 1
    OBVIOUS
  <2>2. n \in Len(a) + 1 .. Len(a) + Len(q) /\ n - Len(a) = 1 /\ Len(a \o q) = n
    BY <1>1, <1>3, <2>1
  <2>3. SubSeq(a \o q, n, n) = SubSeq(q, n - Len(a), n - Len(a))
    BY <2>2, SubSeqOfConcat2
  <2>4. SubSeq(q, 1, 1) = q
    BY <1>3, SubSeqFull
  <2> QED BY <2>1, <2>2, <2>3, <2>4
<1> QED BY <1>1, <1>2, <1>3

LEMMA BoardIs ==
  ASSUME BoardInv, NEW k \in DOMAIN boards
  PROVE  boards[k].todo \in Seq(Range(Quoted)) /\ boards[k].got \in Seq(Quote)
<1>1. PICK b : b = boards[k]
  OBVIOUS
<1>2. b \in Board
  BY <1>1 DEF BoardInv
<1>3. b.todo \in Seq(Range(Quoted)) /\ b.got \in Seq(Quote)
  BY <1>2 DEF Board
<1> QED BY <1>1, <1>3

(* Nothing is further whose request is as it was.                                               *)
LEMMA StillIsNotFurther ==
  ASSUME BoardInv, NEW k \in DOMAIN boards, boards'[k] = boards[k]
  PROVE  ~Further(k)
<1>1. boards[k].todo \in Seq(Range(Quoted))
  BY BoardIs
<1>2. boards[k].todo # <<>> => Tail(boards[k].todo) # boards[k].todo
  <2>1. PICK q : q = boards[k].todo
    OBVIOUS
  <2>2. ASSUME q # <<>> PROVE Len(Tail(q)) = Len(q) - 1 /\ Len(q) \in Nat
    BY <1>1, <2>1, <2>2, HeadTailProperties
  <2>3. ASSUME q # <<>> PROVE Tail(q) # q
    <3>1. PICK m, n : m = Len(Tail(q)) /\ n = Len(q)
      OBVIOUS
    <3>2. m = n - 1 /\ n \in Nat
      BY <2>2, <2>3, <3>1
    <3>3. m # n
      BY <3>2
    <3> QED BY <3>1, <3>3
  <2> QED BY <2>1, <2>3
<1> QED BY <1>2 DEF Further

(* A symbol is answered: the request is one symbol further, with what was put.                  *)
LEMMA OneSymbolFurther ==
  ASSUME BoardInv, NEW k \in DOMAIN boards, boards[k].todo # <<>>, NEW s, s = Head(boards[k].todo),
         NEW quote \in Seq(Quote), Len(quote) <= 1
  PROVE  Put(k, s, quote) /\ Honest(s, quote) => boards' \in Seq(Board) /\ ShownHonestly
<1> SUFFICES ASSUME Put(k, s, quote), Honest(s, quote) PROVE boards' \in Seq(Board) /\ ShownHonestly
  OBVIOUS
<1>1. PICK b : b = boards[k]
  OBVIOUS
<1>2. b.todo \in Seq(Range(Quoted)) /\ b.got \in Seq(Quote) /\ b.todo # <<>>
  BY <1>1, BoardIs
<1>3. Tail(b.todo) \in Seq(Range(Quoted))
  BY <1>2, HeadTailProperties
<1>4. b.got \o quote \in Seq(Quote)
  BY <1>2, ConcatProperties
<1>5. PICK new : new = [todo |-> Tail(b.todo), got |-> b.got \o quote]
  OBVIOUS
<1>6. new \in Board
  BY <1>3, <1>4, <1>5 DEF Board
<1>7. boards' = [boards EXCEPT ![k] = new]
  BY <1>1, <1>5 DEF Put
<1>8. boards' \in Seq(Board)
  BY <1>6, <1>7 DEF BoardInv
<1>9. boards'[k] = new /\ \A j \in DOMAIN boards : j # k => boards'[j] = boards[j]
  BY <1>7
<1>10. SubSeq(new.got, Len(b.got) + 1, Len(new.got)) = quote
  BY <1>2, <1>5, AddedIs
<1>11. ASSUME NEW j \in DOMAIN boards, Further(j)
       PROVE  Honest(Head(boards[j].todo), SubSeq(boards'[j].got, Len(boards[j].got) + 1, Len(boards'[j].got)))
  <2>1. j = k
    BY <1>9, <1>11, StillIsNotFurther
  <2>2. SubSeq(boards'[j].got, Len(boards[j].got) + 1, Len(boards'[j].got)) = quote /\ Head(boards[j].todo) = s
    BY <1>1, <1>9, <1>10, <2>1
  <2> QED BY <2>2
<1> QED BY <1>8, <1>11 DEF ShownHonestly

(* The next symbol of a request.                                                                *)
LEMMA NextSymbolIs ==
  ASSUME BoardInv, NEW k \in DOMAIN boards, boards[k].todo # <<>>
  PROVE  Head(boards[k].todo) \in Range(Quoted)
<1>1. PICK q : q = boards[k].todo
  OBVIOUS
<1>2. q \in Seq(Range(Quoted)) /\ q # <<>>
  BY <1>1, BoardIs
<1> QED BY <1>1, <1>2, HeadTailProperties

LEMMA ShownIs ==
  ASSUME NEW s \in Range(Quoted), NEW value \in Nat, NEW stale \in BOOLEAN
  PROVE  /\ Shown(s, value, stale) \in Seq(Quote) /\ Len(Shown(s, value, stale)) = 1
         /\ Shown(s, value, stale)[1] = [symbol |-> s, value |-> value, stale |-> stale]
<1>1. PICK x : x = [symbol |-> s, value |-> value, stale |-> stale]
  OBVIOUS
<1>2. x \in Quote
  BY <1>1 DEF Quote
<1> QED BY <1>1, <1>2 DEF Shown

LEMMA CacheAnswers ==
  ASSUME BoardInv, NEW k \in DOMAIN boards, QuoteFromCache(k)
  PROVE  BoardInv' /\ ShownHonestly
<1>1. PICK s : s = Head(boards[k].todo)
  OBVIOUS
<1>2. boards[k].todo # <<>> /\ cached(s) /\ UNCHANGED <<quoteCache, answers>>
  BY <1>1 DEF QuoteFromCache
<1>3. s \in Range(Quoted) /\ quoteCache[s] \in [value : Nat, age : Nat]
  BY <1>1, <1>2, NextSymbolIs DEF BoardInv, cached
<1>4. PICK v : v = quoteCache[s].value
  OBVIOUS
<1>5. PICK quote : quote = Shown(s, v, FALSE)
  OBVIOUS
<1>6. quote \in Seq(Quote) /\ Len(quote) = 1 /\ quote[1] = [symbol |-> s, value |-> v, stale |-> FALSE]
  BY <1>3, <1>4, <1>5, ShownIs
<1>7. Honest(s, quote)
  BY <1>2, <1>4, <1>6 DEF Honest, cached
<1>8. Put(k, s, quote)
  BY <1>1, <1>4, <1>5 DEF QuoteFromCache
<1>9. boards' \in Seq(Board) /\ ShownHonestly
  <2>1. boards[k].todo # <<>> /\ Len(quote) <= 1 /\ quote \in Seq(Quote)
    BY <1>2, <1>6
  <2>2. Put(k, s, quote) /\ Honest(s, quote) => boards' \in Seq(Board) /\ ShownHonestly
    BY <1>1, <2>1, OneSymbolFurther
  <2> QED BY <2>2, <1>7, <1>8
<1> QED BY <1>2, <1>9 DEF BoardInv

LEMMA VendorAnswers ==
  ASSUME VendorAssumption, BoardInv, NEW k \in DOMAIN boards, QuoteAnswered(k)
  PROVE  BoardInv' /\ ShownHonestly
<1>1. PICK s, v : s = Head(boards[k].todo) /\ v = answers + 1
  OBVIOUS
<1>2. boards[k].todo # <<>> /\ quoteCache' = [quoteCache EXCEPT ![s] = [value |-> v, age |-> 0]] /\ answers' = v
  BY <1>1 DEF QuoteAnswered
<1>3. s \in Range(Quoted) /\ v \in Nat
  BY <1>1, <1>2, NextSymbolIs DEF BoardInv
<1>4. PICK e : e = [value |-> v, age |-> 0]
  OBVIOUS
<1>5. e \in [value : Nat, age : Nat] /\ e # None /\ e.value = v /\ e.age = 0
  BY <1>3, <1>4 DEF VendorAssumption
<1>6. /\ DOMAIN quoteCache' = Range(Quoted) /\ quoteCache'[s] = e
      /\ \A x \in Range(Quoted) : x # s => quoteCache'[x] = quoteCache[x]
  BY <1>2, <1>3, <1>4 DEF BoardInv
<1>7. PICK quote : quote = Shown(s, v, FALSE)
  OBVIOUS
<1>8. quote \in Seq(Quote) /\ Len(quote) = 1 /\ quote[1] = [symbol |-> s, value |-> v, stale |-> FALSE]
  BY <1>3, <1>7, ShownIs
<1>9. Honest(s, quote)
  BY <1>5, <1>6, <1>8 DEF Honest, VendorAssumption
<1>10. Put(k, s, quote)
  BY <1>1, <1>7 DEF QuoteAnswered
<1>11. boards' \in Seq(Board) /\ ShownHonestly
  <2>1. boards[k].todo # <<>> /\ Len(quote) <= 1 /\ quote \in Seq(Quote)
    BY <1>2, <1>8
  <2>2. Put(k, s, quote) /\ Honest(s, quote) => boards' \in Seq(Board) /\ ShownHonestly
    BY <1>1, <2>1, OneSymbolFurther
  <2> QED BY <2>2, <1>9, <1>10
<1> QED BY <1>2, <1>3, <1>5, <1>6, <1>11 DEF BoardInv

LEMMA VendorIsSilent ==
  ASSUME BoardInv, NEW k \in DOMAIN boards, QuoteFailed(k)
  PROVE  BoardInv' /\ ShownHonestly
<1>1. PICK s : s = Head(boards[k].todo)
  OBVIOUS
<1>2. boards[k].todo # <<>> /\ UNCHANGED <<quoteCache, answers>>
  BY <1>1 DEF QuoteFailed
<1>3. s \in Range(Quoted) /\ (quoteCache[s] # None => quoteCache[s] \in [value : Nat, age : Nat])
  BY <1>1, <1>2, NextSymbolIs DEF BoardInv
<1>4. PICK v : v = quoteCache[s].value
  OBVIOUS
<1>5. PICK quote : quote = IF quoteCache[s] # None THEN Shown(s, v, TRUE) ELSE <<>>
  OBVIOUS
<1>6. quote \in Seq(Quote) /\ Len(quote) <= 1 /\ Honest(s, quote)
  <2>1. CASE quoteCache[s] # None
    <3>1. /\ quote \in Seq(Quote) /\ Len(quote) = 1
          /\ quote[1] = [symbol |-> s, value |-> v, stale |-> TRUE]
      BY <1>3, <1>4, <1>5, <2>1, ShownIs
    <3> QED BY <1>2, <1>4, <2>1, <3>1 DEF Honest
  <2>2. CASE quoteCache[s] = None
    BY <1>2, <1>5, <2>2 DEF Honest
  <2> QED BY <2>1, <2>2
<1>7. Put(k, s, quote)
  BY <1>1, <1>4, <1>5 DEF QuoteFailed
<1>8. boards' \in Seq(Board) /\ ShownHonestly
  <2>1. Put(k, s, quote) /\ Honest(s, quote) => boards' \in Seq(Board) /\ ShownHonestly
    BY <1>1, <1>2, <1>6, OneSymbolFurther
  <2> QED BY <2>1, <1>7, <1>6
<1> QED BY <1>2, <1>8 DEF BoardInv

LEMMA RequestIsMade ==
  ASSUME BoardInv, NEW list \in Seq(Range(Quoted)), AskQuotes(list)
  PROVE  BoardInv' /\ ShownHonestly
<1>1. PICK b : b = [todo |-> list, got |-> <<>>]
  OBVIOUS
<1>2. b \in Board
  BY <1>1 DEF Board
<1>3. boards' = Append(boards, b) /\ UNCHANGED <<quoteCache, answers>>
  BY <1>1 DEF AskQuotes
<1>4. boards' \in Seq(Board) /\ Len(boards') = Len(boards) + 1 /\ Len(boards) \in Nat
  BY <1>2, <1>3, AppendProperties DEF BoardInv
<1>5. \A k : ~Further(k)
  BY <1>4 DEF Further
<1> QED BY <1>3, <1>4, <1>5 DEF BoardInv, ShownHonestly

LEMMA RequestIsThrough ==
  ASSUME BoardInv, NEW k \in DOMAIN boards, QuotesDone(k)
  PROVE  BoardInv' /\ ShownHonestly
<1>1. boards' = RemoveAt(boards, k) /\ UNCHANGED <<quoteCache, answers>>
  BY DEF QuotesDone
<1>2. boards' \in Seq(Board) /\ Len(boards') = Len(boards) - 1 /\ Len(boards) \in Nat
  BY <1>1, WithoutOne DEF BoardInv
<1>3. \A j : ~Further(j)
  BY <1>2 DEF Further
<1> QED BY <1>1, <1>2, <1>3 DEF BoardInv, ShownHonestly

(* The boards stay as they are.                                                                 *)
LEMMA NothingIsShown ==
  ASSUME BoardInv, UNCHANGED boards PROVE ShownHonestly
<1>1. \A k \in DOMAIN boards : ~Further(k)
  BY StillIsNotFurther
<1> QED BY <1>1 DEF ShownHonestly

LEMMA QuotesGrowOld ==
  ASSUME VendorAssumption, BoardInv, VendorTick PROVE BoardInv' /\ ShownHonestly
<1>1. ASSUME NEW e \in [value : Nat, age : Nat], NEW x, x = Older(e, QuoteTTL), x # None
      PROVE  x \in [value : Nat, age : Nat]
  <2>1. PICK n : n = Min({e.age + 1, QuoteTTL + 1})
    OBVIOUS
  <2>2. n \in Nat
    <3>1. PICK m \in {e.age + 1, QuoteTTL + 1} : \A y \in {e.age + 1, QuoteTTL + 1} : m <= y
      BY DEF VendorAssumption
    <3>2. n \in {e.age + 1, QuoteTTL + 1}
      BY <2>1, <3>1 DEF Min
    <3> QED BY <3>2 DEF VendorAssumption
  <2>3. e # None
    BY DEF VendorAssumption
  <2>4. x = [e EXCEPT !.age = n]
    BY <1>1, <2>1, <2>3 DEF Older
  <2> QED BY <2>2, <2>4
<1>2. /\ quoteCache' = [s \in DOMAIN quoteCache |-> Older(quoteCache[s], QuoteTTL)]
      /\ UNCHANGED <<boards, answers>>
  BY DEF VendorTick
<1>3. DOMAIN quoteCache' = Range(Quoted)
  BY <1>2 DEF BoardInv
<1>4. ASSUME NEW s \in Range(Quoted), quoteCache'[s] # None PROVE quoteCache'[s] \in [value : Nat, age : Nat]
  <2>1. quoteCache'[s] = Older(quoteCache[s], QuoteTTL)
    BY <1>2 DEF BoardInv
  <2>2. quoteCache[s] # None
    BY <1>4, <2>1 DEF Older
  <2>3. quoteCache[s] \in [value : Nat, age : Nat]
    BY <2>2 DEF BoardInv
  <2> QED BY <1>1, <1>4, <2>1, <2>3
<1> QED BY <1>2, <1>3, <1>4, NothingIsShown DEF BoardInv

LEMMA VendorRestarts ==
  ASSUME BoardInv, RestartVendor PROVE BoardInv' /\ ShownHonestly
<1>1. boards' = <<>> /\ quoteCache' = [s \in DOMAIN quoteCache |-> None] /\ UNCHANGED answers
  BY DEF RestartVendor
<1>2. \A k : ~Further(k)
  BY <1>1 DEF Further
<1> QED BY <1>1, <1>2 DEF BoardInv, ShownHonestly

LEMMA BoardsAreKept ==
  ASSUME VendorAssumption, BoardInv, ChainsNext(Nat) \/ QuotesNext(Seq(Range(Quoted))) \/ UNCHANGED vendorVars
  PROVE  BoardInv' /\ ShownHonestly
<1>1. ASSUME UNCHANGED boardVars PROVE BoardInv' /\ ShownHonestly
  BY <1>1, NothingIsShown DEF BoardInv, boardVars
<1>2. ASSUME QuotesNext(Seq(Range(Quoted))) PROVE BoardInv' /\ ShownHonestly
  BY <1>2, CacheAnswers, VendorAnswers, VendorIsSilent, RequestIsMade, RequestIsThrough, QuotesGrowOld,
     VendorRestarts DEF QuotesNext
<1>3. ASSUME ChainsNext(Nat) PROVE BoardInv' /\ ShownHonestly
  <2>1. ASSUME NEW u \in Underlyings, NEW broken, AskChain(u, broken) \/ AskExposure(u)
        PROVE  UNCHANGED boardVars
    BY <2>1 DEF AskChain, AskExposure
  <2>2. ASSUME NEW k \in DOMAIN flight, NEW chain, NEW kept, NEW written,
               ChainFailed(k) \/ ChainAnswered(k, chain, kept) \/ ChainCharged(k, written)
        PROVE  UNCHANGED boardVars
    BY <2>2 DEF ChainFailed, ChainAnswered, ChainCharged
  <2>3. ASSUME NEW c \in DOMAIN stats, NEW interest \in Nat, AskStatistics(c, interest) PROVE UNCHANGED boardVars
    BY <2>3 DEF AskStatistics
  <2>4. ASSUME NextMonth PROVE UNCHANGED boardVars
    BY <2>4 DEF NextMonth
  <2> QED BY <1>1, <1>3, <2>1, <2>2, <2>3, <2>4, QuotesGrowOld, VendorRestarts DEF ChainsNext
<1>4. ASSUME UNCHANGED vendorVars PROVE BoardInv' /\ ShownHonestly
  BY <1>1, <1>4 DEF vendorVars
<1> QED BY <1>2, <1>3, <1>4

(* The quote board never invents and never forgets: a symbol is shown with the value known at   *)
(* that moment and called fresh only within its time to live, however many requests ask for the *)
(* same symbol at once (quoteBoard.ts).                                                         *)
THEOREM QuotesAreHonestTheorem ==
  ASSUME VendorAssumption PROVE VendorSpec => QuotesAreHonest
<1>1. VendorInit => BoardInv
  BY DEF VendorInit, BoardInv
<1>2. BoardInv /\ [ChainsNext(Nat) \/ QuotesNext(Seq(Range(Quoted)))]_vendorVars => BoardInv'
  BY BoardsAreKept
<1>3. BoardInv /\ [ChainsNext(Nat) \/ QuotesNext(Seq(Range(Quoted)))]_vendorVars => [ShownHonestly]_vendorVars
  BY BoardsAreKept
<1> QED BY <1>1, <1>2, <1>3, PTL DEF VendorSpec, QuotesAreHonest, ShownHonestly, Further, Honest

-----------------------------------------------------------------------------
(* Access: failed attempts.                                                 *)

InOrder(times) ==
  /\ times \in Seq(Nat)
  /\ \A i \in DOMAIN times : times[i] <= clock
  /\ \A i, j \in DOMAIN times : i <= j => times[i] <= times[j]

(* The last count of the failures of a key are those of its round, p were before it.  A round   *)
(* that began with its first failure is a window behind every failure but the last ones below   *)
(* the limit; one that began with a lock, its end, is a window behind all of them.              *)
Round(e, g) ==
  LET p == Len(g) - e.count IN
  /\ e.count < MaxFailures /\ p \in Nat
  /\ \/ /\ e.count > 0 /\ e.first = g[p + 1]
        /\ \A i \in DOMAIN g : i + MaxFailures <= p + 1 => g[p + 1] - g[i] >= GuardWindow
     \/ /\ p > 0 /\ e.first = g[p]
        /\ e.lockedUntil >= g[p] + GuardWindow
        /\ \A i \in DOMAIN g : i > p => g[i] >= g[p] + GuardWindow

GuardInv ==
  /\ \A k \in Keys : InOrder(guesses[k]) /\ (k \notin KeysOf(failures) => guesses[k] = <<>>)
  /\ \A i \in DOMAIN failures : Round(failures[i], guesses[failures[i].key])
  /\ GuessesAreBounded

(* What an address has in the limiter are its last requests, and the others are out of the      *)
(* window.                                                                                      *)
Over(t) == t + env.rateWindow <= clock

Recent(times, all) ==
  LET n == Len(all) - Len(times) IN
  /\ n \in Nat
  /\ \A i \in DOMAIN times : times[i] = all[n + i]
  /\ \A i \in 1..n : Over(all[i])

Budgeted(T, P) ==
  /\ \A i \in Ips : InOrder(P[i]) /\ Spread(P[i], env.authLimit, env.rateWindow)
  /\ \A i \in DOMAIN T : Recent(T[i].times, P[T[i].key])
  /\ \A i \in Ips \ KeysOf(T) : \A n \in DOMAIN P[i] : Over(P[i][n])

LimiterInv == Budgeted(hits["auth"], passed)

(* A revocation that was taken is kept for as long as the token would be accepted.              *)
RevokedInv ==
  /\ \A j \in loggedOut : token[j] # None
  /\ \A j \in loggedOut \ unsaved : j \in revokedRows \/ token[j].exp < clock

-----------------------------------------------------------------------------
(* Access: tables with one entry a key.                                     *)

(* There is a least of any numbers.                                                             *)
LEMMA LeastOf ==
  ASSUME NEW S \in SUBSET Nat, S # {}
  PROVE  \E x \in S : \A y \in S : x <= y
<1> DEFINE Less == OpToRel(<, Nat)
<1>1. PICK x \in S : \A y \in S : <<y, x>> \notin Less
  <2>1. IsWellFoundedOn(Less, Nat)
    BY NatLessThanWellFounded
  <2> HIDE DEF Less
  <2> QED BY <2>1, WFMin, Zenon
<1>2. ASSUME NEW y \in S PROVE x <= y
  <2>1. x \in Nat /\ y \in Nat /\ ~(y < x)
    BY <1>1 DEF OpToRel
  <2> QED BY <2>1
<1> QED BY <1>2

LEMMA EntryIsThere ==
  ASSUME NEW T, NEW k \in KeysOf(T)
  PROVE  Entry(T, k) \in DOMAIN T /\ T[Entry(T, k)].key = k
<1>1. \E i \in DOMAIN T : T[i].key = k
  BY DEF KeysOf
<1> QED BY <1>1 DEF Entry

(* A table U is T but for its entry h.                                                          *)
LessOne(U, T, h) ==
  /\ OneEntryPerKey(U) /\ Len(U) = Len(T) - 1
  /\ \A i \in DOMAIN U : \E g \in DOMAIN T \ {h} : U[i] = T[g]
  /\ \A g \in DOMAIN T \ {h} : \E i \in DOMAIN U : U[i] = T[g]

LEMMA LessOneKeys ==
  ASSUME NEW T, NEW h \in DOMAIN T, NEW U, OneEntryPerKey(T), LessOne(U, T, h)
  PROVE  KeysOf(U) = KeysOf(T) \ {T[h].key}
<1>1. \A i \in DOMAIN U : U[i].key \in KeysOf(T) \ {T[h].key}
  BY DEF LessOne, OneEntryPerKey, KeysOf
<1>2. \A g \in DOMAIN T : T[g].key # T[h].key => T[g].key \in KeysOf(U)
  BY DEF LessOne, KeysOf
<1> QED BY <1>1, <1>2 DEF KeysOf

LEMMA RemovedOne ==
  ASSUME NEW E, NEW T \in Seq(E), OneEntryPerKey(T), NEW h \in DOMAIN T
  PROVE  RemoveAt(T, h) \in Seq(E) /\ LessOne(RemoveAt(T, h), T, h)
<1> DEFINE U == RemoveAt(T, h)
           old(i) == IF i < h THEN i ELSE i + 1
<1>1. /\ U \in Seq(E) /\ Len(U) = Len(T) - 1
      /\ \A i \in DOMAIN U : old(i) \in DOMAIN T /\ U[i] = T[old(i)]
  BY WithoutOne
<1>2. DOMAIN U = 1..Len(T) - 1 /\ DOMAIN T = 1..Len(T) /\ Len(T) \in Nat
  BY <1>1
<1>3. \A i, j \in DOMAIN U : (i # j => old(i) # old(j)) /\ old(i) # h
  BY <1>2
<1>4. \A g \in DOMAIN T \ {h} : \E i \in DOMAIN U : old(i) = g
  <2> TAKE g \in DOMAIN T \ {h}
  <2>1. CASE g < h
    <3>1. g \in DOMAIN U /\ old(g) = g
      BY <1>2, <2>1
    <3> QED BY <3>1
  <2>2. CASE ~(g < h)
    <3>1. g - 1 \in DOMAIN U /\ old(g - 1) = g
      BY <1>2, <2>2
    <3> QED BY <3>1
  <2> QED BY <2>1, <2>2
<1> HIDE DEF U, old
<1>5. OneEntryPerKey(U)
  BY <1>1, <1>3 DEF OneEntryPerKey
<1>6. LessOne(U, T, h)
  BY <1>1, <1>3, <1>4, <1>5 DEF LessOne
<1> QED BY <1>1, <1>6 DEF U

LEMMA OldestRemoved ==
  ASSUME NEW E, NEW T \in Seq(E), OneEntryPerKey(T), T # <<>>
  PROVE  1 \in DOMAIN T /\ Tail(T) \in Seq(E) /\ LessOne(Tail(T), T, 1)
<1> DEFINE U == Tail(T)
<1>1. /\ U \in Seq(E) /\ Len(U) = Len(T) - 1 /\ Len(T) \in Nat \ {0}
      /\ DOMAIN U = 1..Len(T) - 1 /\ DOMAIN T = 1..Len(T)
      /\ \A i \in DOMAIN U : U[i] = T[i + 1]
  OBVIOUS
<1>2. \A i \in DOMAIN U : i + 1 \in DOMAIN T \ {1}
  BY <1>1
<1>3. \A i, j \in DOMAIN U : i + 1 = j + 1 => i = j
  BY <1>1
<1>4. ASSUME NEW g \in DOMAIN T \ {1} PROVE \E i \in DOMAIN U : U[i] = T[g]
  <2>1. g - 1 \in DOMAIN U /\ (g - 1) + 1 = g
    BY <1>1
  <2> QED BY <1>1, <2>1
<1> HIDE DEF U
<1>5. OneEntryPerKey(U)
  BY <1>1, <1>2, <1>3 DEF OneEntryPerKey
<1>6. LessOne(U, T, 1)
  BY <1>1, <1>2, <1>4, <1>5 DEF LessOne
<1> QED BY <1>1, <1>6 DEF U

LEMMA OneAdded ==
  ASSUME NEW E, NEW T \in Seq(E), OneEntryPerKey(T), NEW x \in E, x.key \notin KeysOf(T)
  PROVE  /\ Append(T, x) \in Seq(E) /\ Len(Append(T, x)) = Len(T) + 1
         /\ OneEntryPerKey(Append(T, x)) /\ KeysOf(Append(T, x)) = KeysOf(T) \cup {x.key}
         /\ \A i \in DOMAIN Append(T, x) :
              (i \in DOMAIN T /\ Append(T, x)[i] = T[i]) \/ Append(T, x)[i] = x
<1> DEFINE U == Append(T, x)
           n == Len(T) + 1
<1>1. /\ U \in Seq(E) /\ Len(U) = n /\ DOMAIN U = DOMAIN T \cup {n} /\ n \notin DOMAIN T
      /\ U[n] = x /\ \A i \in DOMAIN T : U[i] = T[i]
  OBVIOUS
<1> HIDE DEF U, n
<1>2. OneEntryPerKey(U) /\ KeysOf(U) = KeysOf(T) \cup {x.key}
  BY <1>1 DEF OneEntryPerKey, KeysOf
<1> QED BY <1>1, <1>2 DEF U, n

LEMMA OneChanged ==
  ASSUME NEW E, NEW T \in Seq(E), OneEntryPerKey(T), NEW h \in DOMAIN T,
         NEW x \in E, x.key = T[h].key
  PROVE  LET U == [T EXCEPT ![h] = x]
         IN  /\ U \in Seq(E) /\ Len(U) = Len(T) /\ DOMAIN U = DOMAIN T
             /\ OneEntryPerKey(U) /\ KeysOf(U) = KeysOf(T)
             /\ U[h] = x /\ \A i \in DOMAIN T : i # h => U[i] = T[i] /\ T[i].key # x.key
<1> DEFINE U == [T EXCEPT ![h] = x]
<1>1. /\ U \in Seq(E) /\ Len(U) = Len(T) /\ DOMAIN U = DOMAIN T
      /\ U[h] = x /\ \A i \in DOMAIN T : i # h => U[i] = T[i]
  OBVIOUS
<1> HIDE DEF U
<1>2. \A i \in DOMAIN T : U[i].key = T[i].key
  BY <1>1
<1>3. OneEntryPerKey(U) /\ KeysOf(U) = KeysOf(T)
  BY <1>1, <1>2 DEF OneEntryPerKey, KeysOf
<1> QED BY <1>1, <1>3 DEF U, OneEntryPerKey

-----------------------------------------------------------------------------
(* Access: what a failure does to the guard.                                *)

GuardEntries == [key : Keys, count : Nat, first : Nat, lockedUntil : Nat]

LEMMA EntriesOfFailures ==
  ASSUME AccessAssumption, clock \in Nat, NEW k \in Keys, NEW e \in GuardEntries
  PROVE  /\ NewFailure(k) \in GuardEntries /\ NewFailure(k).key = k
         /\ FailedAgain(e) \in GuardEntries /\ FailedAgain(e).key = e.key
<1>1. NewFailure(k) \in GuardEntries /\ NewFailure(k).key = k
  BY DEF GuardEntries, NewFailure
<1>2. NewFailure(e.key) \in GuardEntries /\ NewFailure(e.key).key = e.key
  BY DEF GuardEntries, NewFailure
<1>3. CountedUp(e) \in GuardEntries /\ CountedUp(e).key = e.key
  <2>1. CASE e.count + 1 < MaxFailures
    BY <2>1 DEF CountedUp, GuardEntries
  <2>2. CASE ~(e.count + 1 < MaxFailures)
    <3>1. clock + LockTime \in Nat
      BY DEF AccessAssumption
    <3> QED BY <2>2, <3>1 DEF CountedUp, GuardEntries
  <2> QED BY <2>1, <2>2
<1> QED BY <1>1, <1>2, <1>3 DEF FailedAgain

LEMMA TimeAppended ==
  ASSUME clock \in Nat, NEW g, InOrder(g)
  PROVE  /\ InOrder(Append(g, clock)) /\ Len(g) \in Nat /\ DOMAIN g = 1..Len(g)
         /\ Len(Append(g, clock)) = Len(g) + 1 /\ DOMAIN Append(g, clock) = 1..Len(g) + 1
         /\ Append(g, clock)[Len(g) + 1] = clock /\ \A i \in 1..Len(g) : Append(g, clock)[i] = g[i]
<1> DEFINE a == Append(g, clock)
           n == Len(g)
<1>1. /\ a \in Seq(Nat) /\ n \in Nat /\ DOMAIN g = 1..n /\ Len(a) = n + 1 /\ DOMAIN a = 1..n + 1
      /\ a[n + 1] = clock /\ \A i \in 1..n : a[i] = g[i] /\ g[i] \in Nat
  BY DEF InOrder
<1> HIDE DEF a, n
<1>2. \A i \in DOMAIN a : i = n + 1 \/ i \in 1..n
  BY <1>1
<1>3. \A i \in 1..n : a[i] <= clock
  BY <1>1 DEF InOrder
<1>4. \A i, j \in DOMAIN a : i <= j => a[i] <= a[j]
  <2> TAKE i, j \in DOMAIN a
  <2> HAVE i <= j
  <2>1. CASE i \in 1..n /\ j \in 1..n
    BY <1>1, <2>1 DEF InOrder
  <2>2. CASE j = n + 1
    BY <1>1, <1>2, <1>3, <2>2
  <2> QED BY <1>1, <1>2, <2>1, <2>2
<1>5. \A i \in DOMAIN a : a[i] <= clock
  BY <1>1, <1>2, <1>3
<1>6. InOrder(a)
  BY <1>1, <1>4, <1>5 DEF InOrder
<1> QED BY <1>1, <1>6 DEF a, n

(* The first failure of a key without an entry.                                                 *)
LEMMA RoundBegins ==
  ASSUME AccessAssumption, clock \in Nat, NEW k \in Keys
  PROVE  /\ InOrder(Append(<<>>, clock)) /\ Round(NewFailure(k), Append(<<>>, clock))
         /\ Spread(Append(<<>>, clock), 2 * MaxFailures - 1, GuardWindow)
<1> DEFINE g == Append(<<>>, clock)
<1>1. g \in Seq(Nat) /\ Len(g) = 1 /\ DOMAIN g = 1..1 /\ g[1] = clock
  OBVIOUS
<1> HIDE DEF g
<1>2. InOrder(g)
  BY <1>1 DEF InOrder
<1>3. \A i \in DOMAIN g : ~(i + MaxFailures <= 1) /\ ~(i + (2 * MaxFailures - 1) \in DOMAIN g)
  BY <1>1 DEF AccessAssumption
<1>4. NewFailure(k).count = 1 /\ NewFailure(k).first = clock
  BY DEF NewFailure
<1>5. Len(g) - 1 = 0 /\ 0 + 1 = 1 /\ 1 < MaxFailures
  BY <1>1 DEF AccessAssumption
<1>6. Round(NewFailure(k), g)
  BY <1>1, <1>3, <1>4, <1>5 DEF Round
<1>7. Spread(g, 2 * MaxFailures - 1, GuardWindow)
  BY <1>3 DEF Spread
<1> QED BY <1>2, <1>6, <1>7 DEF g

(* Another failure of a key that is not locked is more than a window behind all but the last    *)
(* 2M - 1 before it.                                                                            *)
LEMMA RoundGoesOn ==
  ASSUME AccessAssumption, clock \in Nat, NEW e \in GuardEntries, NEW g, InOrder(g), Round(e, g),
         Spread(g, 2 * MaxFailures - 1, GuardWindow), e.lockedUntil <= clock
  PROVE  /\ InOrder(Append(g, clock)) /\ Round(FailedAgain(e), Append(g, clock))
         /\ Spread(Append(g, clock), 2 * MaxFailures - 1, GuardWindow)
<1> DEFINE a == Append(g, clock)
           n == Len(g)
           c == e.count
           p == n - c
           M == MaxFailures
           W == GuardWindow
           f == FailedAgain(e)
           own == /\ c > 0 /\ e.first = g[p + 1]
                  /\ \A i \in 1..n : i + M <= p + 1 => g[p + 1] - g[i] >= W
           locked == /\ p > 0 /\ e.first = g[p]
                     /\ clock >= g[p] + W /\ e.lockedUntil >= g[p] + W
                     /\ \A i \in 1..n : i > p => g[i] >= g[p] + W
<1>1. /\ M \in Nat \ {0, 1} /\ W \in Nat /\ LockTime \in Nat /\ W <= LockTime
      /\ c \in Nat /\ e.first \in Nat /\ e.lockedUntil \in Nat
  BY DEF AccessAssumption, GuardEntries
<1>2. /\ InOrder(a) /\ n \in Nat /\ DOMAIN g = 1..n /\ Len(a) = n + 1 /\ DOMAIN a = 1..n + 1
      /\ a[n + 1] = clock /\ \A i \in 1..n : a[i] = g[i]
  BY TimeAppended
<1>3. /\ \A i \in 1..n : g[i] \in Nat /\ g[i] <= clock
      /\ \A i, j \in 1..n : i <= j => g[i] <= g[j]
  <2>1. /\ g \in Seq(Nat) /\ \A i \in 1..n : g[i] <= clock
        /\ \A i, j \in 1..n : i <= j => g[i] <= g[j]
    BY <1>2 DEF InOrder
  <2> QED BY <2>1
<1>4. c < M /\ p \in Nat /\ (own \/ locked)
  <2>1. c < M /\ p \in Nat
    BY DEF Round
  <2>2. own \/ (p > 0 /\ e.first = g[p] /\ e.lockedUntil >= g[p] + W /\ \A i \in 1..n : i > p => g[i] >= g[p] + W)
    BY <1>2 DEF Round
  <2>3. ASSUME p > 0, e.lockedUntil >= g[p] + W PROVE clock >= g[p] + W
    <3>1. p \in 1..n
      BY <1>1, <1>2, <2>1, <2>3
    <3>2. g[p] \in Nat /\ e.lockedUntil \in Nat /\ W \in Nat
      BY <1>1, <1>3, <3>1
    <3> HIDE DEF p, n, W
    <3> QED BY <2>3, <3>2
  <2> HIDE DEF p, n, W, M, c
  <2>4. CASE own
    BY <2>1, <2>4
  <2>5. CASE p > 0 /\ e.first = g[p] /\ e.lockedUntil >= g[p] + W /\ \A i \in 1..n : i > p => g[i] >= g[p] + W
    <3>1. clock >= g[p] + W
      BY <2>3, <2>5
    <3> QED BY <2>1, <2>5, <3>1
  <2> QED BY <2>2, <2>4, <2>5
<1>0. /\ M \in Nat \ {0, 1} /\ n \in Nat /\ c \in Nat /\ p \in Nat /\ n = p + c /\ c < M
      /\ (own => c > 0) /\ (locked => p > 0)
  <2>1. /\ M \in Nat \ {0, 1} /\ n \in Nat /\ c \in Nat /\ p \in Nat /\ c < M
    BY <1>1, <1>2, <1>4
  <2>2. n = p + c
    BY <2>1
  <2> HIDE DEF n, c, M, p
  <2> QED BY <2>1, <2>2
<1> HIDE DEF a, n, f, p
<1>5. \A i \in 1..n : i + (2 * M - 1) = n + 1 => clock - g[i] >= W
  <2> TAKE i \in 1..n
  <2> HAVE i + (2 * M - 1) = n + 1
  <2>1. CASE own
    <3>1. i + M <= p + 1 /\ p + 1 \in 1..n
      <4>1. c > 0
        BY <2>1
      <4> HIDE DEF own, c, M
      <4> QED BY <1>0, <4>1
    <3>2. e.first = g[p + 1] /\ g[p + 1] - g[i] >= W
      BY <2>1, <3>1
    <3>3. g[p + 1] \in Nat /\ g[p + 1] <= clock /\ g[i] \in Nat /\ W \in Nat /\ clock \in Nat
      BY <1>1, <1>3, <3>1
    <3> HIDE DEF p, W
    <3> QED BY <3>2, <3>3
  <2>2. CASE locked
    <3>1. i <= p /\ p \in 1..n
      <4>1. p > 0
        BY <2>2
      <4> HIDE DEF locked, c, M
      <4> QED BY <1>0, <4>1
    <3>2. clock >= g[p] + W /\ g[i] <= g[p] /\ g[i] \in Nat /\ g[p] \in Nat
      BY <1>3, <2>2, <3>1
    <3>3. W \in Nat /\ clock \in Nat
      BY <1>1
    <3> HIDE DEF W
    <3> QED BY <3>2, <3>3
  <2> QED BY <1>4, <2>1, <2>2
<1>6. Spread(a, 2 * M - 1, W)
  <2> SUFFICES ASSUME NEW i \in 1..n + 1, i + (2 * M - 1) \in 1..n + 1
               PROVE  a[i + (2 * M - 1)] - a[i] >= W
    BY <1>2 DEF Spread
  <2>1. i \in 1..n
    BY <1>1, <1>2
  <2>2. CASE i + (2 * M - 1) = n + 1
    BY <1>2, <1>5, <2>1, <2>2
  <2>3. CASE i + (2 * M - 1) # n + 1
    <3>1. i + (2 * M - 1) \in 1..n
      BY <1>1, <1>2, <2>3
    <3> QED BY <1>2, <2>1, <3>1 DEF Spread
  <2> QED BY <2>2, <2>3
<1>7. CASE clock - e.first > W
  <2>1. f.count = 1 /\ f.first = clock
    BY <1>7 DEF f, FailedAgain, NewFailure
  <2>2. \A i \in 1..n + 1 : i + M <= n + 1 => a[n + 1] - a[i] >= W
    <3> TAKE i \in 1..n + 1
    <3> HAVE i + M <= n + 1
    <3>1. i \in 1..n
      BY <1>1, <1>2
    <3>2. CASE own
      <4>1. i <= p + 1 /\ p + 1 \in 1..n
        <5>1. c > 0
          BY <3>2
        <5> HIDE DEF own, c, M
        <5> QED BY <1>0, <5>1
      <4> QED BY <1>1, <1>2, <1>3, <1>7, <3>1, <3>2, <4>1
    <3>3. CASE locked
      <4>1. i <= p /\ p \in 1..n
        <5>1. p > 0
          BY <3>3
        <5> HIDE DEF locked, c, M
        <5> QED BY <1>0, <5>1
      <4> QED BY <1>1, <1>2, <1>3, <1>7, <3>1, <3>3, <4>1
    <3> QED BY <1>4, <3>2, <3>3
  <2>3. Len(a) - f.count = n /\ 1 < M
    BY <1>1, <1>2, <2>1
  <2> QED BY <1>2, <1>6, <2>1, <2>2, <2>3 DEF Round, a, f
<1>8. CASE ~(clock - e.first > W) /\ c + 1 < M
  <2>1. f.count = c + 1 /\ f.first = e.first /\ f.lockedUntil = e.lockedUntil
    BY <1>8 DEF f, FailedAgain, CountedUp, GuardEntries
  <2>2. Len(a) - f.count = p
    <3>1. Len(a) = n + 1
      BY <1>2
    <3> HIDE DEF c, M
    <3> QED BY <1>0, <2>1, <3>1
  <2>3. CASE own
    <3>1. p + 1 \in 1..n
      BY <1>0, <2>3
    <3>2. \A i \in 1..n + 1 : i + M <= p + 1 => i \in 1..n
      BY <1>0
    <3>3. f.first = a[p + 1] /\ \A i \in 1..n + 1 : i + M <= p + 1 => a[p + 1] - a[i] >= W
      BY <1>2, <2>1, <2>3, <3>1, <3>2
    <3>4. f.count > 0 /\ f.count < M
      BY <1>1, <1>8, <2>1
    <3> QED BY <1>2, <1>4, <1>6, <2>2, <3>3, <3>4 DEF Round, a, f
  <2>4. CASE locked
    <3>1. p \in 1..n
      BY <1>0, <2>4
    <3>2. a[p] = g[p] /\ f.first = a[p] /\ f.lockedUntil >= a[p] + W
      BY <1>2, <2>1, <2>4, <3>1
    <3>3. \A i \in 1..n + 1 : i > p => a[i] >= a[p] + W
      <4> TAKE i \in 1..n + 1
      <4>1. i = n + 1 \/ i \in 1..n
        BY <1>2
      <4> QED BY <1>2, <2>4, <3>2, <4>1
    <3>4. f.count < M
      BY <1>8, <2>1
    <3> QED BY <1>2, <1>4, <1>6, <2>2, <2>4, <3>2, <3>3, <3>4 DEF Round, a, f
  <2> QED BY <1>4, <2>3, <2>4
<1>9. CASE ~(clock - e.first > W) /\ ~(c + 1 < M)
  <2>1. f.count = 0 /\ f.first = clock /\ f.lockedUntil = clock + LockTime
    BY <1>9 DEF f, FailedAgain, CountedUp, GuardEntries
  <2>2. Len(a) - f.count = n + 1 /\ n + 1 > 0 /\ 0 < M
    BY <1>1, <1>2, <2>1
  <2>3. f.lockedUntil >= a[n + 1] + W
    BY <1>1, <1>2, <2>1
  <2>4. \A i \in 1..n + 1 : ~(i > n + 1)
    BY <1>2
  <2> QED BY <1>2, <1>6, <2>1, <2>2, <2>3, <2>4 DEF Round, a, f
<1> QED BY <1>7, <1>8, <1>9

GuardTable(F) == F \in Seq(GuardEntries) /\ OneEntryPerKey(F) /\ Len(F) <= GuardKeys

LEMMA CutKeepsTheTable ==
  ASSUME AccessAssumption, NEW U \in Seq(GuardEntries), OneEntryPerKey(U), Len(U) <= GuardKeys + 1
  PROVE  /\ GuardTable(CutGuard(U))
         /\ \A i \in DOMAIN CutGuard(U) : \E h \in DOMAIN U : CutGuard(U)[i] = U[h]
<1>1. Len(U) \in Nat /\ GuardKeys \in Nat
  BY DEF AccessAssumption
<1>2. CASE ~(Len(U) > GuardKeys)
  BY <1>1, <1>2 DEF CutGuard, GuardTable
<1>3. CASE Len(U) > GuardKeys
  <2>1. CutGuard(U) = Tail(U) /\ U # <<>>
    BY <1>1, <1>3 DEF CutGuard
  <2>2. Tail(U) \in Seq(GuardEntries) /\ LessOne(Tail(U), U, 1)
    BY <2>1, OldestRemoved
  <2> QED BY <1>1, <2>1, <2>2 DEF GuardTable, LessOne
<1> QED BY <1>2, <1>3

(* Where an entry comes from when a failure of the key k was counted.                           *)
CountedFrom(e, F, k) ==
  \/ e.key # k /\ \E h \in DOMAIN F : e = F[h]
  \/ k \notin KeysOf(F) /\ e = NewFailure(k)
  \/ \E h \in DOMAIN F : F[h].key = k /\ e = FailedAgain(F[h])

LEMMA FailedTable ==
  ASSUME AccessAssumption, clock \in Nat, NEW F, GuardTable(F), NEW k \in Keys
  PROVE  /\ GuardTable(Failed(F, k))
         /\ \A i \in DOMAIN Failed(F, k) : CountedFrom(Failed(F, k)[i], F, k)
<1>1. F \in Seq(GuardEntries) /\ OneEntryPerKey(F) /\ Len(F) \in Nat /\ Len(F) <= GuardKeys /\ GuardKeys \in Nat
  BY DEF GuardTable, AccessAssumption
<1>2. CASE k \notin KeysOf(F)
  <2> DEFINE U == Append(F, NewFailure(k))
  <2>1. NewFailure(k) \in GuardEntries /\ NewFailure(k).key = k
    BY DEF GuardEntries, NewFailure
  <2>2. /\ U \in Seq(GuardEntries) /\ Len(U) = Len(F) + 1 /\ OneEntryPerKey(U)
        /\ \A i \in DOMAIN U : (i \in DOMAIN F /\ U[i] = F[i]) \/ U[i] = NewFailure(k)
    BY <1>1, <1>2, <2>1, OneAdded
  <2>3. Failed(F, k) = CutGuard(U)
    BY <1>2 DEF Failed
  <2>4. \A i \in DOMAIN F : F[i].key # k
    BY <1>2 DEF KeysOf
  <2>5. \A i \in DOMAIN U : CountedFrom(U[i], F, k)
    BY <1>2, <2>2, <2>4 DEF CountedFrom
  <2>6. Len(U) <= GuardKeys + 1
    BY <1>1, <2>2
  <2> HIDE DEF U
  <2> QED BY <2>2, <2>3, <2>5, <2>6, CutKeepsTheTable
<1>3. CASE k \in KeysOf(F)
  <2> DEFINE h == Entry(F, k)
             x == FailedAgain(F[h])
             U == [F EXCEPT ![h] = x]
  <2>1. h \in DOMAIN F /\ F[h].key = k
    BY <1>3, EntryIsThere
  <2>2. F[h] \in GuardEntries
    BY <1>1, <2>1
  <2>3. x \in GuardEntries /\ x.key = F[h].key
    BY <2>2, EntriesOfFailures
  <2> HIDE DEF h, x
  <2>4. /\ U \in Seq(GuardEntries) /\ Len(U) = Len(F) /\ DOMAIN U = DOMAIN F /\ OneEntryPerKey(U)
        /\ U[h] = x /\ \A i \in DOMAIN F : i # h => U[i] = F[i] /\ F[i].key # x.key
    BY <1>1, <2>1, <2>3, OneChanged
  <2>5. Failed(F, k) = CutGuard(U)
    BY <1>3 DEF Failed, h, x
  <2> HIDE DEF U
  <2>6. \A i \in DOMAIN U : CountedFrom(U[i], F, k)
    BY <2>1, <2>3, <2>4 DEF CountedFrom, x
  <2>7. Len(U) <= GuardKeys + 1
    BY <1>1, <2>4
  <2> QED BY <2>4, <2>5, <2>6, <2>7, CutKeepsTheTable
<1> QED BY <1>2, <1>3

LEMMA FailureIsCounted ==
  ASSUME AccessAssumption, clock \in Nat, GuardTable(failures), GuardInv,
         NEW r \in Requests, ~Locked(r), RecordFailure(r), UNCHANGED clock
  PROVE  GuardTable(failures') /\ GuardInv'
<1> DEFINE k1 == <<"user", r.user>>
           k2 == <<"ip", r.ip>>
           G == Failed(failures, k1)
           F == Failed(G, k2)
           kept(k) == IF k \in KeysOf(G) \cap KeysOf(F) THEN guesses[k] ELSE <<>>
           Fine(g) == InOrder(g) /\ Spread(g, 2 * MaxFailures - 1, GuardWindow)
<1>1. k1 \in Keys /\ k2 \in Keys /\ k1 # k2
  BY DEF Keys, Requests
<1>2. GuardKeysOf(r) = <<k1, k2>> /\ Range(GuardKeysOf(r)) = {k1, k2}
  BY DEF GuardKeysOf, Range
<1>3. /\ failures' = F
      /\ guesses' = [k \in Keys |->
           IF k \in {k1, k2} /\ k \in KeysOf(F) THEN Append(kept(k), clock) ELSE kept(k)]
  <2>1. GuardKeysOf(r)[1] = k1 /\ GuardKeysOf(r)[2] = k2
    BY <1>2
  <2> HIDE DEF k1, k2
  <2> QED BY <1>2, <2>1 DEF RecordFailure
<1>4. \A h \in DOMAIN failures : failures[h].key \in {k1, k2} => failures[h].lockedUntil <= clock
  <2>1. \A h \in DOMAIN failures : failures[h].lockedUntil \in Nat
    <3>1. \A h \in DOMAIN failures : failures[h] \in GuardEntries
      BY DEF GuardTable
    <3> QED BY <3>1 DEF GuardEntries
  <2>2. \A h \in DOMAIN failures : failures[h].key \in {k1, k2} => ~(failures[h].lockedUntil > clock)
    BY <1>2 DEF Locked
  <2> QED BY <2>1, <2>2
<1> HIDE DEF k1, k2
<1>5. GuardTable(G) /\ \A i \in DOMAIN G : CountedFrom(G[i], failures, k1)
  BY <1>1, FailedTable
<1>6. GuardTable(F) /\ \A i \in DOMAIN F : CountedFrom(F[i], G, k2)
  BY <1>1, <1>5, FailedTable
<1> HIDE DEF F, G, kept
<1>7. /\ \A k \in Keys : Fine(guesses[k]) /\ (k \notin KeysOf(failures) => guesses[k] = <<>>)
      /\ \A h \in DOMAIN failures : Round(failures[h], guesses[failures[h].key])
  BY DEF GuardInv, GuessesAreBounded
<1>8. Fine(<<>>)
  BY DEF InOrder, Spread
<1>9. ASSUME NEW h \in DOMAIN failures, failures[h].key \in {k1, k2}
      PROVE  LET g == Append(guesses[failures[h].key], clock)
             IN  Fine(g) /\ Round(FailedAgain(failures[h]), g)
  <2>1. failures[h] \in GuardEntries /\ failures[h].key \in Keys
    BY <1>1, <1>9 DEF GuardTable
  <2> QED BY <1>4, <1>7, <1>9, <2>1, RoundGoesOn
<1>10. ASSUME NEW i \in DOMAIN G
       PROVE  \/ G[i].key # k1 /\ \E h \in DOMAIN failures : G[i] = failures[h]
              \/ G[i].key = k1 /\ Fine(Append(guesses[k1], clock)) /\ Round(G[i], Append(guesses[k1], clock))
  <2>1. CASE k1 \notin KeysOf(failures) /\ G[i] = NewFailure(k1)
    <3>1. guesses[k1] = <<>> /\ G[i].key = k1
      BY <1>1, <1>7, <2>1 DEF NewFailure
    <3> QED BY <1>1, <2>1, <3>1, RoundBegins
  <2>2. ASSUME NEW h \in DOMAIN failures, failures[h].key = k1, G[i] = FailedAgain(failures[h])
        PROVE  G[i].key = k1 /\ Fine(Append(guesses[k1], clock)) /\ Round(G[i], Append(guesses[k1], clock))
    <3>1. failures[h] \in GuardEntries
      BY DEF GuardTable
    <3>2. G[i].key = k1
      BY <1>1, <2>2, <3>1, EntriesOfFailures
    <3> QED BY <1>9, <2>2, <3>2
  <2> QED BY <1>5, <2>1, <2>2 DEF CountedFrom
<1>11. ASSUME NEW i \in DOMAIN F
       PROVE  Fine(guesses'[F[i].key]) /\ Round(F[i], guesses'[F[i].key])
  <2> DEFINE k == F[i].key
  <2>1. k \in KeysOf(F) /\ F[i] \in GuardEntries /\ k \in Keys
    <3>1. k \in KeysOf(F)
      BY DEF KeysOf
    <3>2. F[i] \in GuardEntries
      BY <1>6 DEF GuardTable
    <3> QED BY <3>1, <3>2 DEF GuardEntries
  <2>2. ASSUME k # k2, NEW h \in DOMAIN G, F[i] = G[h]
        PROVE  Fine(guesses'[k]) /\ Round(F[i], guesses'[k])
    <3>1. kept(k) = guesses[k]
      BY <2>1, <2>2 DEF KeysOf, kept
    <3>2. guesses'[k] = IF k = k1 THEN Append(guesses[k], clock) ELSE guesses[k]
      BY <1>3, <2>1, <2>2, <3>1
    <3>3. CASE k # k1
      <4>1. PICK g \in DOMAIN failures : F[i] = failures[g]
        BY <1>10, <2>2, <3>3
      <4> QED BY <1>7, <2>1, <3>2, <3>3, <4>1
    <3>4. CASE k = k1
      BY <1>10, <2>2, <3>2, <3>4
    <3> QED BY <3>3, <3>4
  <2>3. ASSUME k2 \notin KeysOf(G), F[i] = NewFailure(k2)
        PROVE  Fine(guesses'[k]) /\ Round(F[i], guesses'[k])
    <3>1. k = k2 /\ kept(k2) = <<>>
      BY <2>3 DEF NewFailure, kept
    <3>2. guesses'[k] = Append(<<>>, clock)
      BY <1>3, <2>1, <3>1
    <3> QED BY <1>1, <2>3, <3>2, RoundBegins
  <2>4. ASSUME NEW h \in DOMAIN G, G[h].key = k2, F[i] = FailedAgain(G[h])
        PROVE  Fine(guesses'[k]) /\ Round(F[i], guesses'[k])
    <3>1. G[h] \in GuardEntries
      BY <1>5 DEF GuardTable
    <3>2. k = k2
      BY <1>1, <2>4, <3>1, EntriesOfFailures
    <3>3. k2 \in KeysOf(G) /\ kept(k2) = guesses[k2]
      BY <2>1, <2>4, <3>2 DEF KeysOf, kept
    <3>4. guesses'[k] = Append(guesses[k2], clock)
      BY <1>3, <2>1, <3>2, <3>3
    <3>5. PICK g \in DOMAIN failures : G[h] = failures[g]
      BY <1>1, <1>10, <2>4
    <3> QED BY <1>9, <2>4, <3>4, <3>5
  <2> QED BY <1>6, <2>2, <2>3, <2>4 DEF CountedFrom
<1>12. ASSUME NEW k \in Keys, k \notin KeysOf(F) PROVE guesses'[k] = <<>>
  BY <1>3, <1>12 DEF kept
<1>13. \A k \in Keys : Fine(guesses'[k])
  <2>1. \A k \in KeysOf(F) : Fine(guesses'[k])
    BY <1>11 DEF KeysOf
  <2> QED BY <1>8, <1>12, <2>1
<1>14. GuardInv'
  <2>1. \A k \in Keys : InOrder(guesses[k])'
    BY <1>13 DEF InOrder
  <2>2. GuessesAreBounded'
    BY <1>13 DEF GuessesAreBounded, Spread
  <2>3. \A k \in Keys : (k \notin KeysOf(failures) => guesses[k] = <<>>)'
    BY <1>3, <1>12
  <2>4. \A i \in DOMAIN failures' : Round(failures[i], guesses[failures[i].key])'
    BY <1>3, <1>11
  <2> QED BY <2>1, <2>2, <2>3, <2>4 DEF GuardInv
<1> QED BY <1>3, <1>6, <1>14

LEMMA WithoutTable ==
  ASSUME AccessAssumption, NEW F, GuardTable(F), NEW k
  PROVE  /\ GuardTable(Without(F, k)) /\ KeysOf(Without(F, k)) = KeysOf(F) \ {k}
         /\ \A i \in DOMAIN Without(F, k) : \E h \in DOMAIN F : Without(F, k)[i] = F[h]
<1>1. CASE k \notin KeysOf(F)
  BY <1>1 DEF Without
<1>2. CASE k \in KeysOf(F)
  <2> DEFINE h == Entry(F, k)
             U == RemoveAt(F, h)
  <2>1. h \in DOMAIN F /\ F[h].key = k /\ Without(F, k) = U
    BY <1>2, EntryIsThere DEF Without
  <2>2. F \in Seq(GuardEntries) /\ OneEntryPerKey(F) /\ Len(F) <= GuardKeys
    BY DEF GuardTable
  <2> HIDE DEF h
  <2>3. U \in Seq(GuardEntries) /\ LessOne(U, F, h)
    BY <2>1, <2>2, RemovedOne
  <2> HIDE DEF U
  <2>4. KeysOf(U) = KeysOf(F) \ {k}
    BY <2>1, <2>2, <2>3, LessOneKeys
  <2>5. Len(U) <= GuardKeys
    BY <2>2, <2>3 DEF LessOne, AccessAssumption
  <2> QED BY <2>1, <2>3, <2>4, <2>5 DEF GuardTable, LessOne
<1> QED BY <1>1, <1>2

LEMMA SuccessIsForgotten ==
  ASSUME AccessAssumption, GuardTable(failures), GuardInv,
         NEW r \in Requests, RecordSuccess(r), UNCHANGED clock
  PROVE  GuardTable(failures') /\ GuardInv'
<1> DEFINE k1 == <<"user", r.user>>
           k2 == <<"ip", r.ip>>
           G == Without(failures, k1)
           F == Without(G, k2)
<1>1. /\ failures' = F
      /\ guesses' = [k \in Keys |-> IF k \in {k1, k2} THEN <<>> ELSE guesses[k]]
  <2>1. /\ GuardKeysOf(r)[1] = k1 /\ GuardKeysOf(r)[2] = k2
        /\ Range(GuardKeysOf(r)) = {k1, k2}
    BY DEF GuardKeysOf, Range
  <2> HIDE DEF k1, k2
  <2> QED BY <2>1 DEF RecordSuccess
<1> HIDE DEF k1, k2
<1>2. /\ GuardTable(G) /\ KeysOf(G) = KeysOf(failures) \ {k1}
      /\ \A i \in DOMAIN G : \E h \in DOMAIN failures : G[i] = failures[h]
  BY WithoutTable
<1>3. /\ GuardTable(F) /\ KeysOf(F) = KeysOf(G) \ {k2}
      /\ \A i \in DOMAIN F : \E h \in DOMAIN G : F[i] = G[h]
  BY <1>2, WithoutTable
<1> HIDE DEF F, G
<1>4. /\ \A k \in Keys : InOrder(guesses[k]) /\ Spread(guesses[k], 2 * MaxFailures - 1, GuardWindow)
      /\ \A k \in Keys : k \notin KeysOf(failures) => guesses[k] = <<>>
      /\ \A h \in DOMAIN failures : Round(failures[h], guesses[failures[h].key])
  BY DEF GuardInv, GuessesAreBounded
<1>5. \A k \in Keys : (k \notin KeysOf(F) => guesses'[k] = <<>>)
  BY <1>1, <1>2, <1>3, <1>4
<1>6. ASSUME NEW i \in DOMAIN F PROVE Round(F[i], guesses'[F[i].key])
  <2>1. F[i].key \in KeysOf(F) /\ F[i].key \in Keys
    <3>1. F[i] \in GuardEntries
      BY <1>3 DEF GuardTable
    <3> QED BY <3>1 DEF KeysOf, GuardEntries
  <2>2. guesses'[F[i].key] = guesses[F[i].key]
    BY <1>1, <1>2, <1>3, <2>1
  <2>3. PICK h \in DOMAIN failures : F[i] = failures[h]
    BY <1>2, <1>3
  <2> QED BY <1>4, <2>2, <2>3
<1>7. ASSUME NEW k \in Keys
      PROVE  InOrder(guesses'[k]) /\ Spread(guesses'[k], 2 * MaxFailures - 1, GuardWindow)
  <2>1. InOrder(<<>>) /\ Spread(<<>>, 2 * MaxFailures - 1, GuardWindow)
    BY DEF InOrder, Spread
  <2> QED BY <1>1, <1>4, <2>1
<1>8. GuardInv'
  <2>1. \A k \in Keys : InOrder(guesses[k])'
    BY <1>7 DEF InOrder
  <2>2. GuessesAreBounded'
    BY <1>7 DEF GuessesAreBounded, Spread
  <2>3. \A i \in DOMAIN failures' : Round(failures[i], guesses[failures[i].key])'
    BY <1>1, <1>6
  <2> QED BY <1>1, <1>5, <2>1, <2>2, <2>3 DEF GuardInv
<1> QED BY <1>1, <1>3, <1>8

-----------------------------------------------------------------------------
(* Access: what a request does to a limiter.                                *)

HitEntries == [key : Ips, times : Seq(Nat)]

HitTable(T) == T \in Seq(HitEntries) /\ OneEntryPerKey(T) /\ Len(T) <= RateKeys

(* The old times are the first ones, and what is left of them are the recent ones.              *)
LEMMA WithinIsASuffix ==
  ASSUME clock \in Nat, NEW window \in Nat, NEW times \in Seq(Nat)
  PROVE  \E m \in 0..Len(times) :
           /\ Within(times, window) \in Seq(Nat) /\ Len(Within(times, window)) = Len(times) - m
           /\ \A i \in DOMAIN Within(times, window) :
                m + i \in DOMAIN times /\ Within(times, window)[i] = times[m + i]
           /\ \A i \in 1..m : times[i] + window <= clock
           /\ m < Len(times) => ~(times[m + 1] + window <= clock)
<1> DEFINE n == Len(times)
           old(i) == times[i] + window <= clock
           first(i) == (\A j \in 1..i - 1 : old(j)) /\ (i <= n => ~old(i))
           kept == CHOOSE i \in 1..n + 1 : first(i)
<1>1. n \in Nat /\ DOMAIN times = 1..n
  OBVIOUS
<1>2. \E i \in 1..n + 1 : first(i)
  <2> DEFINE S == {i \in 1..n + 1 : i <= n => ~old(i)}
  <2>1. n + 1 \in S /\ S \in SUBSET Nat
    BY <1>1
  <2>2. PICK x \in S : \A y \in S : x <= y
    <3> HIDE DEF S
    <3> QED BY <2>1, LeastOf
  <2>3. \A j \in 1..x - 1 : j \in 1..n + 1 /\ j <= n /\ ~(x <= j)
    BY <1>1
  <2>4. \A j \in 1..x - 1 : old(j)
    BY <2>2, <2>3
  <2> QED BY <2>4
<1>3. kept \in 1..n + 1 /\ first(kept)
  <2> HIDE DEF first
  <2> QED BY <1>2
<1>4. Within(times, window) = SubSeq(times, kept, n)
  BY DEF Within
<1> HIDE DEF kept
<1>5. PICK m \in 0..n : kept = m + 1
  <2>1. kept - 1 \in 0..n /\ kept = (kept - 1) + 1
    BY <1>1, <1>3
  <2> QED BY <2>1
<1>6. /\ SubSeq(times, m + 1, n) \in Seq(Nat) /\ Len(SubSeq(times, m + 1, n)) = n - m
      /\ \A i \in 1..n - m : m + i \in 1..n /\ SubSeq(times, m + 1, n)[i] = times[m + i]
  <2> DEFINE u == SubSeq(times, m + 1, n)
  <2>1. \A i \in m + 1..n : times[i] \in Nat
    BY <1>1
  <2>3. /\ u \in Seq(Nat) /\ Len(u) = IF m + 1 <= n THEN n - (m + 1) + 1 ELSE 0
        /\ \A i \in 1..n - (m + 1) + 1 : u[i] = times[(m + 1) + i - 1]
    <3> HIDE DEF n
    <3> QED BY <1>1, <2>1, SubSeqProperties
  <2>4. n - (m + 1) + 1 = n - m /\ (m + 1 <= n \/ n - m = 0)
    <3> HIDE DEF n
    <3> QED BY <1>1
  <2>2. \A i \in 1..n - m : m + i \in 1..n /\ (m + 1) + i - 1 = m + i
    BY <1>1
  <2> HIDE DEF u, n
  <2> QED BY <2>2, <2>3, <2>4 DEF u
<1>7. \A i \in 1..m : old(i)
  BY <1>1, <1>3, <1>5
<1>8. m < n => ~old(m + 1)
  <2> SUFFICES ASSUME m < n PROVE ~old(kept)
    BY <1>5
  <2>1. kept <= n
    BY <1>1, <1>5
  <2> QED BY <1>3, <2>1
<1>9. DOMAIN SubSeq(times, m + 1, n) = 1..n - m
  <2> DEFINE u == SubSeq(times, m + 1, n)
  <2> HIDE DEF u
  <2>1. u \in Seq(Nat) /\ Len(u) = n - m
    BY <1>6 DEF u
  <2>2. DOMAIN u = 1..n - m
    BY <2>1
  <2> QED BY <2>2 DEF u
<1> WITNESS m \in 0..Len(times)
<1> QED BY <1>1, <1>4, <1>5, <1>6, <1>7, <1>8, <1>9

(* What is kept of the recent requests are the recent ones, and all that are still in the       *)
(* window.                                                                                      *)
LEMMA RecentStayRecent ==
  ASSUME clock \in Nat, env.rateWindow \in Nat, NEW times \in Seq(Nat), NEW all, InOrder(all),
         Recent(times, all)
  PROVE  /\ Within(times, env.rateWindow) \in Seq(Nat)
         /\ Recent(Within(times, env.rateWindow), all)
<1> DEFINE w == Within(times, env.rateWindow)
           n == Len(all) - Len(times)
<1>1. PICK m \in 0..Len(times) :
           /\ w \in Seq(Nat) /\ Len(w) = Len(times) - m
           /\ \A i \in DOMAIN w : m + i \in DOMAIN times /\ w[i] = times[m + i]
           /\ \A i \in 1..m : times[i] + env.rateWindow <= clock
  BY WithinIsASuffix
<1> HIDE DEF w
<1>2. /\ n \in Nat /\ \A i \in DOMAIN times : times[i] = all[n + i]
      /\ \A i \in 1..n : Over(all[i])
      /\ Len(times) \in Nat /\ DOMAIN times = 1..Len(times) /\ Len(all) \in Nat
  BY DEF Recent, InOrder
<1>3. Len(all) - Len(w) = n + m /\ n + m \in Nat /\ DOMAIN w = 1..Len(times) - m
  BY <1>1, <1>2
<1>4. ASSUME NEW i \in DOMAIN w PROVE w[i] = all[(n + m) + i]
  <2>1. m + i \in DOMAIN times /\ n + (m + i) = (n + m) + i
    BY <1>1, <1>2, <1>3
  <2> QED BY <1>1, <1>2, <2>1
<1>5. ASSUME NEW i \in 1..n + m PROVE Over(all[i])
  <2>1. CASE i <= n
    BY <1>2, <2>1
  <2>2. CASE ~(i <= n)
    <3>1. i - n \in 1..m /\ i - n \in DOMAIN times /\ n + (i - n) = i
      BY <1>2, <2>2
    <3> QED BY <1>1, <1>2, <3>1 DEF Over
  <2> QED BY <2>1, <2>2
<1> HIDE DEF n
<1>6. Recent(w, all)
  BY <1>3, <1>4, <1>5 DEF Recent
<1> QED BY <1>1, <1>6 DEF w

(* A request that is let through is a window behind the one that is the limit before it.        *)
LEMMA OneMoreWithinTheLimit ==
  ASSUME clock \in Nat, env.rateWindow \in Nat, NEW limit \in Nat, NEW w \in Seq(Nat), NEW all,
         InOrder(all), Recent(w, all), Len(w) < limit, Spread(all, limit, env.rateWindow)
  PROVE  /\ InOrder(Append(all, clock)) /\ Recent(Append(w, clock), Append(all, clock))
         /\ Spread(Append(all, clock), limit, env.rateWindow)
<1> DEFINE n == Len(all) - Len(w)
           a == Append(all, clock)
           v == Append(w, clock)
<1>1. /\ InOrder(a) /\ Len(all) \in Nat /\ DOMAIN all = 1..Len(all)
      /\ Len(a) = Len(all) + 1 /\ DOMAIN a = 1..Len(all) + 1
      /\ a[Len(all) + 1] = clock /\ \A i \in 1..Len(all) : a[i] = all[i]
  BY TimeAppended
<1>2. /\ v \in Seq(Nat) /\ Len(w) \in Nat /\ DOMAIN w = 1..Len(w) /\ DOMAIN v = 1..Len(w) + 1
      /\ Len(v) = Len(w) + 1 /\ v[Len(w) + 1] = clock /\ \A i \in 1..Len(w) : v[i] = w[i]
  OBVIOUS
<1>3. /\ n \in Nat /\ \A i \in 1..Len(w) : w[i] = all[n + i]
      /\ \A i \in 1..n : Over(all[i])
  BY <1>2 DEF Recent
<1>4. \A i \in 1..Len(all) : all[i] \in Nat
  BY <1>1 DEF InOrder
<1> HIDE DEF a, v
<1>5. Recent(v, a)
  <2>1. Len(a) - Len(v) = n
    BY <1>1, <1>2
  <2>2. \A i \in 1..n : i \in 1..Len(all)
    BY <1>1, <1>2, <1>3
  <2>3. ASSUME NEW i \in 1..Len(w) + 1 PROVE v[i] = a[n + i]
    <3>1. CASE i = Len(w) + 1
      <4>1. n + i = Len(all) + 1
        BY <1>1, <1>2, <3>1
      <4> QED BY <1>1, <1>2, <3>1, <4>1
    <3>2. CASE i # Len(w) + 1
      <4>1. i \in 1..Len(w) /\ n + i \in 1..Len(all)
        BY <1>1, <1>2, <1>3, <3>2
      <4> QED BY <1>1, <1>2, <1>3, <4>1
    <3> QED BY <3>1, <3>2
  <2> QED BY <1>1, <1>2, <1>3, <2>1, <2>2, <2>3 DEF Recent
<1>6. ASSUME NEW i \in 1..Len(all) + 1, i + limit \in 1..Len(all) + 1
      PROVE  a[i + limit] - a[i] >= env.rateWindow
  <2>1. i \in 1..Len(all)
    BY <1>1, <1>2, <1>6
  <2>2. CASE i + limit = Len(all) + 1
    <3>1. i \in 1..n
      BY <1>1, <1>2, <1>3, <2>2
    <3>2. all[i] + env.rateWindow <= clock
      BY <1>3, <3>1 DEF Over
    <3> QED BY <1>1, <1>4, <2>1, <2>2, <3>2
  <2>3. CASE i + limit # Len(all) + 1
    <3>1. i + limit \in 1..Len(all)
      BY <1>1, <1>6, <2>3
    <3> QED BY <1>1, <2>1, <3>1 DEF Spread
  <2> QED BY <2>2, <2>3
<1>7. Spread(a, limit, env.rateWindow)
  BY <1>1, <1>6 DEF Spread
<1> QED BY <1>1, <1>5, <1>7 DEF a, v

NewHit(k) == [key |-> k, times |-> <<>>]

(* The key of a request gets an entry; another one goes for it only if it is idle or none is.   *)
LEMMA KeyIsThere ==
  ASSUME AccessAssumption, NEW T, HitTable(T), NEW k \in Ips
  PROVE  /\ HitTable(WithKey(T, k)) /\ k \in KeysOf(WithKey(T, k))
         /\ \A i \in DOMAIN WithKey(T, k) :
              \/ \E h \in DOMAIN T : WithKey(T, k)[i] = T[h]
              \/ k \notin KeysOf(T) /\ WithKey(T, k)[i] = NewHit(k)
         /\ \A h \in DOMAIN T :
              T[h].key \in KeysOf(WithKey(T, k)) \/ Idle(T[h]) \/ \A i \in DOMAIN T : ~Idle(T[i])
<1> DEFINE E == EvictOldest(T)
           V == IF Len(T) >= RateKeys THEN E ELSE T
           U == Append(V, NewHit(k))
<1>1. /\ T \in Seq(HitEntries) /\ OneEntryPerKey(T) /\ Len(T) \in Nat /\ Len(T) <= RateKeys
      /\ RateKeys \in Nat \ {0} /\ DOMAIN T = 1..Len(T)
  BY DEF HitTable, AccessAssumption
<1>2. CASE k \in KeysOf(T)
  <2>1. WithKey(T, k) = T
    BY <1>2 DEF WithKey
  <2>2. \A h \in DOMAIN T : T[h].key \in KeysOf(T)
    BY DEF KeysOf
  <2> QED BY <1>2, <2>1, <2>2
<1>3. CASE k \notin KeysOf(T)
  <2>1. WithKey(T, k) = U
    BY <1>3 DEF WithKey, NewHit
  <2>2. ASSUME Len(T) >= RateKeys
        PROVE  \E h \in DOMAIN T : /\ E \in Seq(HitEntries) /\ LessOne(E, T, h)
                                   /\ Idle(T[h]) \/ \A i \in DOMAIN T : ~Idle(T[i])
    <3> DEFINE idle == {i \in DOMAIN T : Idle(T[i])}
               g == CHOOSE i \in idle : \A j \in idle : i <= j
    <3>1. T # <<>>
      BY <1>1, <2>2
    <3>2. CASE idle = {}
      <4>1. E = Tail(T)
        BY <3>2 DEF EvictOldest
      <4>2. 1 \in DOMAIN T /\ Tail(T) \in Seq(HitEntries) /\ LessOne(Tail(T), T, 1)
        BY <1>1, <3>1, OldestRemoved
      <4> QED BY <3>2, <4>1, <4>2
    <3>3. CASE idle # {}
      <4>1. E = RemoveAt(T, g)
        BY <3>3 DEF EvictOldest
      <4>2. g \in idle
        <5>1. idle \in SUBSET Nat
          BY <1>1
        <5> HIDE DEF idle
        <5>2. \E i \in idle : \A j \in idle : i <= j
          BY <3>3, <5>1, LeastOf
        <5> QED BY <5>2
      <4> HIDE DEF g
      <4>3. RemoveAt(T, g) \in Seq(HitEntries) /\ LessOne(RemoveAt(T, g), T, g)
        BY <1>1, <4>2, RemovedOne
      <4> QED BY <4>1, <4>2, <4>3
    <3> QED BY <3>2, <3>3
  <2>3. /\ V \in Seq(HitEntries) /\ OneEntryPerKey(V) /\ Len(V) + 1 <= RateKeys /\ Len(V) \in Nat
        /\ \A i \in DOMAIN V : \E h \in DOMAIN T : V[i] = T[h]
        /\ KeysOf(V) \subseteq KeysOf(T)
        /\ \A h \in DOMAIN T : T[h].key \in KeysOf(V) \/ Idle(T[h]) \/ \A i \in DOMAIN T : ~Idle(T[i])
    <3>1. CASE Len(T) >= RateKeys
      <4> HIDE DEF E
      <4>1. PICK h \in DOMAIN T : /\ E \in Seq(HitEntries) /\ LessOne(E, T, h)
                                  /\ Idle(T[h]) \/ \A i \in DOMAIN T : ~Idle(T[i])
        BY <2>2, <3>1
      <4>2. KeysOf(E) = KeysOf(T) \ {T[h].key}
        BY <1>1, <4>1, LessOneKeys
      <4>3. \A g \in DOMAIN T : T[g].key \in KeysOf(E) \/ g = h
        BY <1>1, <4>2 DEF KeysOf, OneEntryPerKey
      <4>4. V = E /\ Len(E) \in Nat /\ Len(E) + 1 <= RateKeys
        BY <1>1, <3>1, <4>1 DEF LessOne
      <4> QED BY <4>1, <4>2, <4>3, <4>4 DEF LessOne
    <3>2. CASE ~(Len(T) >= RateKeys)
      BY <1>1, <3>2 DEF KeysOf
    <3> QED BY <3>1, <3>2
  <2>4. NewHit(k) \in HitEntries /\ NewHit(k).key = k
    BY DEF NewHit, HitEntries
  <2> HIDE DEF V
  <2>5. /\ U \in Seq(HitEntries) /\ Len(U) = Len(V) + 1 /\ OneEntryPerKey(U)
        /\ KeysOf(U) = KeysOf(V) \cup {k}
        /\ \A i \in DOMAIN U : (i \in DOMAIN V /\ U[i] = V[i]) \/ U[i] = NewHit(k)
    BY <1>3, <2>3, <2>4, OneAdded
  <2> HIDE DEF U
  <2>6. HitTable(U)
    BY <2>3, <2>5 DEF HitTable
  <2> QED BY <1>3, <2>1, <2>3, <2>5, <2>6
<1> QED BY <1>2, <1>3

(* The entry of the key is the only one that changes.                                           *)
LEMMA HitFacts ==
  ASSUME AccessAssumption, clock \in Nat, env.rateWindow \in Nat, NEW T, HitTable(T), NEW k \in Ips,
         NEW limit \in Nat
  PROVE  LET U == WithKey(T, k)
             R == Hit(T, k, limit)
         IN  /\ HitTable(R.table) /\ KeysOf(R.table) = KeysOf(U) /\ DOMAIN R.table = DOMAIN U
             /\ \A i \in DOMAIN U :
                  LET w == Within(U[i].times, env.rateWindow)
                  IN  IF U[i].key = k
                      THEN /\ R.allowed = (Len(w) < limit) /\ R.table[i].key = k
                           /\ R.table[i].times = IF R.allowed THEN Append(w, clock) ELSE w
                      ELSE R.table[i] = U[i]
<1> DEFINE U == WithKey(T, k)
           h == Entry(U, k)
           w == Within(U[h].times, env.rateWindow)
           times == IF Len(w) < limit THEN Append(w, clock) ELSE w
           V == [U EXCEPT ![h].times = times]
           x == [key |-> k, times |-> times]
<1>1. Hit(T, k, limit).table = V /\ Hit(T, k, limit).allowed = (Len(w) < limit)
  BY DEF Hit
<1>2. HitTable(U) /\ k \in KeysOf(U)
  BY KeyIsThere
<1> HIDE DEF U
<1>3. h \in DOMAIN U /\ U[h].key = k
  BY <1>2, EntryIsThere
<1> HIDE DEF h
<1>4. U[h] \in HitEntries /\ U \in Seq(HitEntries) /\ OneEntryPerKey(U) /\ Len(U) <= RateKeys
  BY <1>2, <1>3 DEF HitTable
<1>5. w \in Seq(Nat)
  <2>1. U[h].times \in Seq(Nat)
    BY <1>4 DEF HitEntries
  <2> QED BY <2>1, WithinIsASuffix
<1> HIDE DEF w
<1>6. times \in Seq(Nat)
  BY <1>5
<1> HIDE DEF times
<1>7. x \in HitEntries /\ x.key = U[h].key /\ x.times = times
  BY <1>3, <1>6 DEF HitEntries
<1>8. V = [U EXCEPT ![h] = x]
  <2>1. U[h] = [key |-> k, times |-> U[h].times]
    BY <1>3, <1>4 DEF HitEntries
  <2>2. [[key |-> k, times |-> U[h].times] EXCEPT !.times = times] = x
    OBVIOUS
  <2> HIDE DEF x
  <2> QED BY <1>3, <2>1, <2>2
<1> HIDE DEF x, V
<1>9. /\ V \in Seq(HitEntries) /\ Len(V) = Len(U) /\ DOMAIN V = DOMAIN U
      /\ OneEntryPerKey(V) /\ KeysOf(V) = KeysOf(U)
      /\ V[h] = x /\ \A i \in DOMAIN U : i # h => V[i] = U[i] /\ U[i].key # x.key
  <2> DEFINE Y == [U EXCEPT ![h] = x]
  <2>1. /\ Y \in Seq(HitEntries) /\ Len(Y) = Len(U) /\ DOMAIN Y = DOMAIN U
        /\ OneEntryPerKey(Y) /\ KeysOf(Y) = KeysOf(U)
        /\ Y[h] = x /\ \A i \in DOMAIN U : i # h => Y[i] = U[i] /\ U[i].key # x.key
    BY <1>3, <1>4, <1>7, OneChanged
  <2> QED BY <1>8, <2>1
<1>10. HitTable(V)
  BY <1>4, <1>9 DEF HitTable
<1>11. ASSUME NEW i \in DOMAIN U
       PROVE  IF U[i].key = k
              THEN /\ i = h /\ V[i].key = k
                   /\ V[i].times = times
              ELSE V[i] = U[i]
  BY <1>3, <1>7, <1>9
<1> DEFINE R == Hit(T, k, limit)
<1>12. R.table = V /\ R.allowed = (Len(w) < limit)
  BY <1>1
<1> HIDE DEF R
<1>13. ASSUME NEW i \in DOMAIN U
       PROVE  IF U[i].key = k
              THEN /\ R.allowed = (Len(Within(U[i].times, env.rateWindow)) < limit)
                   /\ R.table[i].key = k
                   /\ R.table[i].times =
                        IF R.allowed THEN Append(Within(U[i].times, env.rateWindow), clock)
                        ELSE Within(U[i].times, env.rateWindow)
              ELSE R.table[i] = U[i]
  <2>1. CASE U[i].key = k
    <3>1. i = h /\ V[i].key = k /\ V[i].times = times
      BY <1>11, <2>1
    <3>2. w = Within(U[i].times, env.rateWindow)
      BY <3>1 DEF w
    <3>3. times = IF R.allowed THEN Append(w, clock) ELSE w
      BY <1>12 DEF times
    <3> QED BY <1>12, <2>1, <3>1, <3>2, <3>3
  <2>2. CASE U[i].key # k
    BY <1>11, <1>12, <2>2
  <2> QED BY <2>1, <2>2
<1> QED BY <1>9, <1>10, <1>12, <1>13 DEF U, R

(* The requests of an idle key are all out of the window.                                       *)
LEMMA IdleIsOver ==
  ASSUME clock \in Nat, env.rateWindow \in Nat, NEW e, e.times \in Seq(Nat), Idle(e),
         NEW all, InOrder(all), Recent(e.times, all)
  PROVE  \A n \in DOMAIN all : Over(all[n])
<1> DEFINE m == Len(e.times)
           d == Len(all) - m
<1>1. /\ m \in Nat /\ DOMAIN e.times = 1..m /\ Len(all) \in Nat /\ DOMAIN all = 1..Len(all)
      /\ \A i \in 1..Len(all) : all[i] \in Nat
      /\ \A i, j \in 1..Len(all) : i <= j => all[i] <= all[j]
  BY DEF InOrder
<1>2. d \in Nat /\ (\A i \in 1..m : e.times[i] = all[d + i]) /\ \A i \in 1..d : Over(all[i])
  BY <1>1 DEF Recent
<1>3. CASE e.times = <<>>
  <2>1. d = Len(all)
    BY <1>1, <1>3
  <2> QED BY <1>1, <1>2, <2>1
<1>4. CASE e.times # <<>>
  <2>1. Last(e.times) + env.rateWindow <= clock
    BY <1>4 DEF Idle
  <2>2. m \in 1..m /\ d + m = Len(all) /\ Len(all) \in 1..Len(all) /\ Last(e.times) = e.times[m]
    BY <1>1, <1>2, <1>4 DEF Last
  <2>3. all[Len(all)] + env.rateWindow <= clock
    BY <1>2, <2>1, <2>2
  <2>4. \A n \in 1..Len(all) : all[n] <= all[Len(all)]
    BY <1>1, <2>2
  <2>5. ASSUME NEW n \in DOMAIN all PROVE Over(all[n])
    <3>1. n \in 1..Len(all) /\ all[n] \in Nat /\ all[Len(all)] \in Nat
      BY <1>1, <2>2
    <3>2. all[n] <= all[Len(all)]
      BY <2>4, <3>1
    <3> QED BY <2>3, <3>1, <3>2 DEF Over
  <2> QED BY <2>5
<1> QED BY <1>3, <1>4

(* A request is let through only within the limit, and a key that is dropped was idle.          *)
LEMMA HitKeepsTheBudget ==
  ASSUME AccessAssumption, clock \in Nat, env.rateWindow \in Nat, env.authLimit \in Nat,
         NEW T, HitTable(T), NEW P, Budgeted(T, P), NEW k \in Ips
  PROVE  LET R == Hit(T, k, env.authLimit)
             Q == [i \in Ips |->
                     IF i \in DroppedFairly(T, R.table) THEN <<>>
                     ELSE IF i = k /\ R.allowed THEN Append(P[i], clock) ELSE P[i]]
         IN  Budgeted(R.table, Q)
<1> DEFINE U == WithKey(T, k)
           R == Hit(T, k, env.authLimit)
           W == R.table
           D == DroppedFairly(T, W)
           Q == [i \in Ips |-> IF i \in D THEN <<>>
                               ELSE IF i = k /\ R.allowed THEN Append(P[i], clock) ELSE P[i]]
           Fine(times) == InOrder(times) /\ Spread(times, env.authLimit, env.rateWindow)
           Cut(i) == Within(U[i].times, env.rateWindow)
<1>1. /\ HitTable(U) /\ k \in KeysOf(U)
      /\ \A i \in DOMAIN U : (\E h \in DOMAIN T : U[i] = T[h]) \/ (k \notin KeysOf(T) /\ U[i] = NewHit(k))
      /\ \A h \in DOMAIN T : T[h].key \in KeysOf(U) \/ Idle(T[h]) \/ \A i \in DOMAIN T : ~Idle(T[i])
  BY KeyIsThere
<1>2. /\ HitTable(W) /\ KeysOf(W) = KeysOf(U) /\ DOMAIN W = DOMAIN U
      /\ \A i \in DOMAIN U :
           IF U[i].key = k
           THEN /\ R.allowed = (Len(Cut(i)) < env.authLimit) /\ W[i].key = k
                /\ W[i].times = IF R.allowed THEN Append(Cut(i), clock) ELSE Cut(i)
           ELSE W[i] = U[i]
  BY SMTT(60), HitFacts
<1>3. /\ \A i \in Ips : Fine(P[i])
      /\ \A i \in DOMAIN T : Recent(T[i].times, P[T[i].key])
      /\ \A i \in Ips \ KeysOf(T) : \A n \in DOMAIN P[i] : Over(P[i][n])
  BY DEF Budgeted
<1>4. D = {q \in KeysOf(T) \ KeysOf(U) : \A i \in DOMAIN T : ~Idle(T[i])}
  BY <1>2 DEF DroppedFairly
<1> HIDE DEF U, R, D
<1>5. \A i \in Ips : Q[i] = IF i \in D THEN <<>>
                           ELSE IF i = k /\ R.allowed THEN Append(P[i], clock) ELSE P[i]
  OBVIOUS
<1> HIDE DEF Q
<1>6. k \notin D /\ \A q \in KeysOf(U) : q \notin D
  BY <1>1, <1>4
<1>7. ASSUME NEW i \in DOMAIN U
      PROVE  U[i] \in HitEntries /\ U[i].key \in Ips /\ U[i].times \in Seq(Nat) /\ U[i].key \in KeysOf(U)
  <2>1. U[i] \in HitEntries
    BY <1>1 DEF HitTable
  <2> QED BY <2>1 DEF HitEntries, KeysOf
(* What an entry had was recent before the request. *)
<1>8. ASSUME NEW i \in DOMAIN U PROVE Recent(U[i].times, P[U[i].key])
  <2>1. CASE \E h \in DOMAIN T : U[i] = T[h]
    BY <1>3, <2>1
  <2>2. CASE k \notin KeysOf(T) /\ U[i] = NewHit(k)
    <3>1. U[i].times = <<>> /\ U[i].key = k
      BY <2>2 DEF NewHit
    <3>2. P[k] \in Seq(Nat) /\ \A n \in DOMAIN P[k] : Over(P[k][n])
      BY <1>3, <2>2 DEF InOrder
    <3>3. Len(P[k]) - Len(<<>>) = Len(P[k]) /\ Len(P[k]) \in Nat /\ DOMAIN P[k] = 1..Len(P[k])
      BY <3>2
    <3> QED BY <3>1, <3>2, <3>3 DEF Recent
  <2> QED BY <1>1, <2>1, <2>2
<1>9. ASSUME NEW i \in DOMAIN U, U[i].key = k
      PROVE  Recent(W[i].times, Q[k]) /\ Fine(Q[k])
  <2>1. Cut(i) \in Seq(Nat) /\ Recent(Cut(i), P[k])
    BY <1>3, <1>7, <1>8, <1>9, RecentStayRecent
  <2>2. CASE R.allowed
    <3>1. Q[k] = Append(P[k], clock) /\ W[i].times = Append(Cut(i), clock) /\ Len(Cut(i)) < env.authLimit
      BY <1>2, <1>5, <1>6, <1>9, <2>2
    <3> HIDE DEF Cut
    <3> QED BY <1>3, <2>1, <3>1, OneMoreWithinTheLimit
  <2>3. CASE ~R.allowed
    BY <1>2, <1>3, <1>5, <1>6, <1>9, <2>1, <2>3
  <2> QED BY <2>2, <2>3
<1>10. ASSUME NEW i \in DOMAIN W PROVE Recent(W[i].times, Q[W[i].key])
  <2>1. CASE U[i].key = k
    BY <1>2, <1>9, <2>1
  <2>2. CASE U[i].key # k
    <3>1. W[i] = U[i] /\ Q[U[i].key] = P[U[i].key]
      BY <1>2, <1>5, <1>6, <1>7, <2>2
    <3> QED BY <1>2, <1>8, <3>1
  <2> QED BY <2>1, <2>2
<1>11. ASSUME NEW i \in Ips PROVE Fine(Q[i])
  <2>1. CASE i = k
    <3>1. PICK h \in DOMAIN U : U[h].key = k
      BY <1>1 DEF KeysOf
    <3> QED BY <1>9, <2>1, <3>1
  <2>2. CASE i # k
    <3>1. Fine(<<>>)
      BY DEF InOrder, Spread
    <3> QED BY <1>3, <1>5, <2>2, <3>1
  <2> QED BY <2>1, <2>2
<1>12. ASSUME NEW i \in Ips \ KeysOf(W), NEW n \in DOMAIN Q[i] PROVE Over(Q[i][n])
  <2>1. i # k /\ i \notin KeysOf(U)
    BY <1>1, <1>2
  <2>2. CASE i \in D
    BY <1>5, <2>2
  <2>3. CASE i \notin D
    <3>1. Q[i] = P[i]
      BY <1>5, <2>1, <2>3
    <3>2. CASE i \notin KeysOf(T)
      BY <1>3, <3>1, <3>2
    <3>3. CASE i \in KeysOf(T)
      <4>1. PICK h \in DOMAIN T : T[h].key = i
        BY <3>3 DEF KeysOf
      <4>2. Idle(T[h])
        BY <1>1, <1>4, <2>1, <2>3, <3>3, <4>1
      <4>3. Recent(T[h].times, P[i]) /\ T[h].times \in Seq(Nat)
        <5>1. T[h] \in HitEntries
          BY DEF HitTable
        <5> QED BY <1>3, <4>1, <5>1 DEF HitEntries
      <4> QED BY <1>3, <3>1, <4>2, <4>3, IdleIsOver
    <3> QED BY <3>2, <3>3
  <2> QED BY <2>2, <2>3
<1> QED BY <1>10, <1>11, <1>12 DEF Budgeted, Q, D, R

-----------------------------------------------------------------------------
(* Access: the invariant, in four parts that share little.                  *)

(* A password stays with its account, and nobody sends a wrong one with a registration.         *)
People ==
  /\ env \in Environments /\ clock \in Nat /\ asked \in Nat
  /\ accountOf \in [Names -> Accounts] /\ protected \subseteq Names
  /\ reading \subseteq Requests /\ adminCalls \subseteq [user : Names, role : Roles]
  /\ \A u \in protected : accountOf[u].password /\ accountOf[u].status # "none"
  /\ \A r \in reading : r.route = "register" => r.password # "wrong"

Guarded == GuardTable(failures) /\ guesses \in [Keys -> Seq(Nat)] /\ GuardInv

Budgets ==
  /\ hits \in [Limiters -> Seq(HitEntries)] /\ \A l \in Limiters : HitTable(hits[l])
  /\ passed \in [Ips -> Seq(Nat)] /\ LimiterInv

Signed ==
  /\ token \in [Tokens -> Payloads \cup {None}]
  /\ loggedOut \subseteq Tokens /\ unsaved \subseteq loggedOut
  /\ revokedJtis \cup revokedRows \subseteq loggedOut
  /\ RevokedInv

DoorInv == People /\ Guarded /\ Budgets /\ Signed

LEMMA Environment ==
  ASSUME AccessAssumption, env \in Environments
  PROVE  /\ env.rateWindow \in Nat /\ env.authLimit \in Nat /\ env.apiLimit \in Nat
         /\ env.operator \in Names \cup {None}
  BY DEF AccessAssumption

LEMMA GuardedIsKept ==
  ASSUME AccessAssumption, DoorInv, [AccessNext]_accessVars PROVE Guarded'
<1>1. Guarded /\ clock \in Nat /\ reading \subseteq Requests
  BY DEF DoorInv, People
<1>2. ASSUME UNCHANGED <<failures, guesses, clock>> PROVE Guarded'
  BY <1>1, <1>2 DEF Guarded, GuardInv, InOrder, GuessesAreBounded
<1>3. ASSUME NEW ip \in Ips, NEW r \in Requests, Arrive(ip, r) PROVE Guarded'
  BY <1>2, <1>3 DEF Arrive
<1>4. ASSUME NEW ip \in Ips, Call(ip) PROVE Guarded'
  BY <1>2, <1>4 DEF Call
<1>5. ASSUME NEW r \in reading, PostRegister(r) PROVE Guarded'
  BY <1>2, <1>5 DEF PostRegister, keyTables
(* What a handler writes of the guard keeps the type of its history. *)
<1>6. ASSUME GuardTable(failures'), GuardInv', guesses' = [k \in Keys |-> guesses'[k]]
      PROVE  Guarded'
  BY <1>6 DEF Guarded, GuardInv, InOrder
<1>7. ASSUME NEW r \in reading, LoginRefused(r) PROVE Guarded'
  <2>1. CASE UNCHANGED <<failures, guesses>>
    BY <1>2, <1>7, <2>1 DEF LoginRefused
  <2>2. CASE ~Locked(r) /\ RecordFailure(r)
    <3>1. UNCHANGED clock
      BY <1>7 DEF LoginRefused
    <3>2. GuardTable(failures') /\ GuardInv'
      BY <1>1, <2>2, <3>1, FailureIsCounted DEF Guarded
    <3>3. guesses' = [k \in Keys |-> guesses'[k]]
      BY <2>2 DEF RecordFailure
    <3> QED BY <1>6, <3>2, <3>3
  <2> QED BY <1>7, <2>1, <2>2 DEF LoginRefused
<1>8. ASSUME NEW r \in reading, LoginAccepted(r) PROVE Guarded'
  <2>1. RecordSuccess(r) /\ UNCHANGED clock
    BY <1>8 DEF LoginAccepted
  <2>2. GuardTable(failures') /\ GuardInv'
    BY <1>1, <2>1, SuccessIsForgotten DEF Guarded
  <2>3. guesses' = [k \in Keys |-> guesses'[k]]
    BY <2>1 DEF RecordSuccess
  <2> QED BY <1>6, <2>2, <2>3
<1>9. ASSUME failures' = <<>>, guesses' = [k \in Keys |-> <<>>] PROVE Guarded'
  <2>1. GuardTable(<<>>)
    BY DEF GuardTable, OneEntryPerKey, AccessAssumption
  <2>2. GuardInv'
    BY <1>9 DEF GuardInv, InOrder, GuessesAreBounded, Spread
  <2> QED BY <1>6, <1>9, <2>1, <2>2
<1>10. ASSUME NEW r \in reading, CrashInRegister(r) PROVE Guarded'
  BY <1>9, <1>10 DEF CrashInRegister, RestartWith
<1>11. ASSUME RestartServer PROVE Guarded'
  BY <1>9, <1>11 DEF RestartServer, RestartWith
<1>12. ASSUME NEW ip \in Ips, NEW header, NEW cookie, Logout(ip, header, cookie) PROVE Guarded'
  BY <1>2, <1>12 DEF Logout
<1>13. ASSUME NEW u, OperatorCalls(u) \/ DeleteAccount(u) PROVE Guarded'
  BY <1>2, <1>13 DEF OperatorCalls, DeleteAccount, keyTables, accessHistory
<1>14. ASSUME NEW c, NEW status, SetStatus(c, status) PROVE Guarded'
  BY <1>2, <1>14 DEF SetStatus, keyTables, accessHistory
<1>15. ASSUME Purge PROVE Guarded'
  BY <1>2, <1>15 DEF Purge, keyTables, accessHistory
<1>16. ASSUME ClockTicks PROVE Guarded'
  <2>1. clock' = clock + 1 /\ UNCHANGED <<failures, guesses>>
    BY <1>16 DEF ClockTicks, keyTables, accessHistory
  <2>2. \A k \in Keys : InOrder(guesses[k])'
    <3> TAKE k \in Keys
    <3>1. InOrder(guesses[k])
      BY <1>1 DEF Guarded, GuardInv
    <3>2. \A i \in DOMAIN guesses[k] : guesses[k][i] \in Nat
      BY <3>1 DEF InOrder
    <3> QED BY <1>1, <2>1, <3>1, <3>2 DEF InOrder
  <2>3. GuardInv'
    BY <1>1, <2>1, <2>2 DEF Guarded, GuardInv, GuessesAreBounded
  <2> QED BY <1>1, <2>1, <2>3 DEF Guarded
<1>17. ASSUME UNCHANGED accessVars PROVE Guarded'
  BY <1>2, <1>17 DEF accessVars, accessHistory
<1> QED BY <1>3, <1>4, <1>5, <1>7, <1>8, <1>10, <1>11, <1>12, <1>13, <1>14, <1>15, <1>16, <1>17
        DEF AccessNext

(* A request is charged to "api" and, if it passes and is one for the auth routes, to "auth".   *)
LEMMA ChargedIsBudgeted ==
  ASSUME AccessAssumption, clock \in Nat, env \in Environments, Budgets, NEW ip \in Ips, NEW kind,
         Charged(kind, ip), UNCHANGED <<clock, env>>
  PROVE  Budgets'
<1> DEFINE auth == kind # "call"
           c == Charge(ip, auth)
           api == Hit(hits["api"], ip, env.apiLimit)
           login == Hit(hits["auth"], ip, env.authLimit)
           D(T) == DroppedFairly(hits["auth"], T)
<1>1. /\ hits' = c.hits
      /\ passed' = [i \in Ips |-> IF i \in D(c.hits["auth"]) THEN <<>>
                                  ELSE IF i = ip /\ auth /\ c.allowed THEN Append(passed[i], clock)
                                  ELSE passed[i]]
  BY DEF Charged
<1>2. /\ hits \in [Limiters -> Seq(HitEntries)] /\ \A l \in Limiters : HitTable(hits[l])
      /\ passed \in [Ips -> Seq(Nat)] /\ Budgeted(hits["auth"], passed)
      /\ "api" \in Limiters /\ "auth" \in Limiters /\ Limiters = {"api", "auth"}
  BY DEF Budgets, LimiterInv, Limiters
<1>3. env.rateWindow \in Nat /\ env.authLimit \in Nat /\ env.apiLimit \in Nat
  BY Environment
<1>4. HitTable(api.table) /\ HitTable(login.table)
  BY <1>2, <1>3, HitFacts
<1>5. /\ ~api.allowed \/ ~auth => c.allowed = api.allowed /\ c.hits = [hits EXCEPT !["api"] = api.table]
      /\ ~(~api.allowed \/ ~auth) =>
           /\ c.allowed = login.allowed
           /\ c.hits = [hits EXCEPT !["api"] = api.table, !["auth"] = login.table]
  BY DEF Charge
<1> HIDE DEF c, api
(* What the tables and the history are typed by. *)
<1>6. ASSUME NEW T, HitTable(T), hits' \in [Limiters -> Seq(HitEntries)], hits'["api"] = api.table,
             hits'["auth"] = T, Budgeted(T, passed')
      PROVE  Budgets'
  <2>1. \A i \in Ips : passed'[i] \in Seq(Nat)
    BY <1>6 DEF Budgeted, InOrder
  <2>2. passed' \in [Ips -> Seq(Nat)]
    BY <1>1, <2>1
  <2>3. \A l \in Limiters : HitTable(hits'[l])
    BY <1>2, <1>4, <1>6
  <2>4. LimiterInv'
    BY <1>6 DEF LimiterInv, Budgeted, InOrder, Recent, Over
  <2> QED BY <1>6, <2>2, <2>3, <2>4 DEF Budgets
<1>7. api.table \in Seq(HitEntries) /\ login.table \in Seq(HitEntries)
  BY <1>4 DEF HitTable
<1>8. CASE ~api.allowed \/ ~auth
  <2>1. /\ hits' \in [Limiters -> Seq(HitEntries)] /\ hits'["api"] = api.table
        /\ hits'["auth"] = hits["auth"] /\ ~(auth /\ c.allowed)
    BY <1>1, <1>2, <1>5, <1>7, <1>8
  <2>2. D(hits["auth"]) = {}
    BY DEF DroppedFairly
  <2>3. \A i \in Ips : passed'[i] = passed[i]
    BY <1>1, <2>1, <2>2
  <2>4. \A i \in DOMAIN hits["auth"] : hits["auth"][i].key \in Ips
    <3>1. \A i \in DOMAIN hits["auth"] : hits["auth"][i] \in HitEntries
      BY <1>2
    <3> QED BY <3>1 DEF HitEntries
  <2>5. Budgeted(hits["auth"], passed')
    BY <1>2, <2>3, <2>4 DEF Budgeted
  <2> QED BY <1>2, <1>6, <2>1, <2>5
<1>9. CASE ~(~api.allowed \/ ~auth)
  <2> HIDE DEF login
  <2>1. /\ hits' \in [Limiters -> Seq(HitEntries)] /\ hits'["api"] = api.table
        /\ hits'["auth"] = login.table /\ (auth /\ c.allowed <=> login.allowed)
    BY <1>1, <1>2, <1>5, <1>7, <1>9
  <2>2. passed' = [i \in Ips |-> IF i \in D(login.table) THEN <<>>
                                 ELSE IF i = ip /\ login.allowed THEN Append(passed[i], clock)
                                 ELSE passed[i]]
    BY <1>1, <2>1
  <2>3. Budgeted(login.table, passed')
    BY ZenonT(60), <1>2, <1>3, <2>2, HitKeepsTheBudget DEF login
  <2> QED BY <1>4, <1>6, <2>1, <2>3
<1> QED BY <1>8, <1>9

LEMMA BudgetsAreKept ==
  ASSUME AccessAssumption, DoorInv, [AccessNext]_accessVars PROVE Budgets'
<1>1. Budgets /\ clock \in Nat /\ env \in Environments /\ env.rateWindow \in Nat
  BY Environment DEF DoorInv, People
<1>2. ASSUME UNCHANGED <<hits, passed, clock, env>> PROVE Budgets'
  BY <1>1, <1>2 DEF Budgets, LimiterInv, Budgeted, InOrder, Recent, Over
<1>3. ASSUME NEW ip \in Ips, NEW kind, Charged(kind, ip), UNCHANGED <<clock, env>> PROVE Budgets'
  BY <1>1, <1>3, ChargedIsBudgeted
<1>4. ASSUME hits' = [l \in Limiters |-> <<>>], passed' = [i \in Ips |-> <<>>], UNCHANGED <<clock, env>>
      PROVE  Budgets'
  <2>1. HitTable(<<>>)
    BY DEF HitTable, OneEntryPerKey, AccessAssumption
  <2>2. "auth" \in Limiters
    BY DEF Limiters
  <2>3. Budgeted(hits["auth"], passed)'
    BY <1>4, <2>2 DEF Budgeted, InOrder, Spread
  <2> QED BY <1>4, <2>1, <2>3 DEF Budgets, LimiterInv
<1>5. ASSUME NEW ip \in Ips, NEW r \in Requests, Arrive(ip, r) PROVE Budgets'
  BY <1>3, <1>5 DEF Arrive
<1>6. ASSUME NEW ip \in Ips, Call(ip) PROVE Budgets'
  BY <1>3, <1>6 DEF Call
<1>7. ASSUME NEW ip \in Ips, NEW header, NEW cookie, Logout(ip, header, cookie) PROVE Budgets'
  BY <1>3, <1>7 DEF Logout
<1>8. ASSUME NEW r \in reading, PostRegister(r) PROVE Budgets'
  BY <1>2, <1>8 DEF PostRegister, keyTables
<1>9. ASSUME NEW r \in reading, LoginRefused(r) PROVE Budgets'
  BY <1>2, <1>9 DEF LoginRefused
<1>10. ASSUME NEW r \in reading, LoginAccepted(r) PROVE Budgets'
  BY <1>2, <1>10 DEF LoginAccepted
<1>11. ASSUME NEW r \in reading, CrashInRegister(r) PROVE Budgets'
  BY <1>4, <1>11 DEF CrashInRegister, RestartWith
<1>12. ASSUME RestartServer PROVE Budgets'
  BY <1>4, <1>12 DEF RestartServer, RestartWith
<1>13. ASSUME NEW u, OperatorCalls(u) \/ DeleteAccount(u) PROVE Budgets'
  BY <1>2, <1>13 DEF OperatorCalls, DeleteAccount, keyTables, accessHistory
<1>14. ASSUME NEW c, NEW status, SetStatus(c, status) PROVE Budgets'
  BY <1>2, <1>14 DEF SetStatus, keyTables, accessHistory
<1>15. ASSUME Purge PROVE Budgets'
  BY <1>2, <1>15 DEF Purge, keyTables, accessHistory
<1>16. ASSUME ClockTicks PROVE Budgets'
  <2>1. clock' = clock + 1 /\ UNCHANGED <<hits, passed, env>>
    BY <1>16 DEF ClockTicks, keyTables, accessHistory
  <2>2. passed \in [Ips -> Seq(Nat)]
    BY <1>1 DEF Budgets
  <2>3. \A i \in Ips : \A n \in DOMAIN passed[i] : passed[i][n] \in Nat
    BY <2>2
  <2>4. \A i \in Ips : InOrder(passed[i])'
    <3> TAKE i \in Ips
    <3>1. InOrder(passed[i])
      BY <1>1 DEF Budgets, LimiterInv, Budgeted
    <3> QED BY <1>1, <2>1, <2>3, <3>1 DEF InOrder
  <2>5. \A i \in Ips : \A n \in DOMAIN passed[i] : Over(passed[i][n]) => Over(passed[i][n])'
    BY <1>1, <2>1, <2>3 DEF Over
  <2>6. \A i \in DOMAIN hits["auth"] : Recent(hits["auth"][i].times, passed[hits["auth"][i].key])'
    <3> TAKE i \in DOMAIN hits["auth"]
    <3> DEFINE e == hits["auth"][i]
               all == passed[e.key]
    <3>1. e.key \in Ips /\ Recent(e.times, all)
      <4>1. e \in HitEntries
        BY <1>1 DEF Budgets, Limiters
      <4> QED BY <1>1, <4>1 DEF HitEntries, Budgets, LimiterInv, Budgeted
    <3>2. all \in Seq(Nat) /\ e.times \in Seq(Nat)
      <4>1. e \in HitEntries
        BY <1>1 DEF Budgets, Limiters
      <4> QED BY <2>2, <3>1, <4>1 DEF HitEntries
    <3>3. \A n \in 1..Len(all) - Len(e.times) : n \in DOMAIN all /\ Over(all[n])
      BY <3>1, <3>2 DEF Recent
    <3>4. UNCHANGED <<e, all>>
      BY <2>1
    <3>5. PICK f, times : f = all /\ times = e.times
      OBVIOUS
    <3>6. \A n \in 1..Len(f) - Len(times) : f[n] \in Nat /\ f[n] + env.rateWindow <= clock
      BY <2>3, <3>1, <3>3, <3>5 DEF Over
    <3>7. \A n \in 1..Len(f) - Len(times) : f[n] + env.rateWindow <= clock'
      BY <1>1, <2>1, <3>6
    <3>8. Recent(times, f)
      BY <3>1, <3>5
    <3>9. Recent(times, f)'
      BY <2>1, <3>7, <3>8 DEF Recent, Over
    <3> QED BY <3>4, <3>5, <3>9
  <2>7. \A i \in Ips \ KeysOf(hits["auth"]) : \A n \in DOMAIN passed[i] : Over(passed[i][n])'
    BY <1>1, <2>5 DEF Budgets, LimiterInv, Budgeted
  <2>8. \A i \in Ips : Spread(passed[i], env.authLimit, env.rateWindow)
    BY <1>1 DEF Budgets, LimiterInv, Budgeted
  <2>9. LimiterInv'
    BY <2>1, <2>4, <2>6, <2>7, <2>8 DEF LimiterInv, Budgeted
  <2> QED BY <1>1, <2>1, <2>9 DEF Budgets
<1>17. ASSUME UNCHANGED accessVars PROVE Budgets'
  BY <1>2, <1>17 DEF accessVars, keyTables, accessHistory
<1> QED BY <1>5, <1>6, <1>7, <1>8, <1>9, <1>10, <1>11, <1>12, <1>13, <1>14, <1>15, <1>16, <1>17
        DEF AccessNext

(* Rows are written whole: a new one is an account, and one that is saved keeps its password.   *)
LEMMA RowsAreAccounts ==
  ASSUME accountOf \in [Names -> Accounts]
  PROVE  /\ \A role \in Roles, p \in BOOLEAN :
              /\ NewAccount(role, p) \in Accounts /\ NewAccount(role, p).status = "active"
              /\ NewAccount(role, p).password = p /\ NewAccount(role, p).role = role
         /\ \A u \in Names, role \in Roles, status \in {"active", "suspended"} :
              /\ Saved(u, status, role) \in Accounts /\ Saved(u, status, role).status = status
              /\ Saved(u, status, role).password = accountOf[u].password
              /\ Saved(u, status, role).role = role
         /\ NoAccount \in Accounts
  BY DEF NewAccount, Saved, NoAccount, Accounts, Roles

LEMMA PeopleIsKept ==
  ASSUME AccessAssumption, DoorInv, [AccessNext]_accessVars PROVE People'
<1>1. People /\ env.operator \in Names \cup {None}
  BY Environment DEF DoorInv, People
<1>2. /\ env \in Environments /\ clock \in Nat /\ asked \in Nat
      /\ accountOf \in [Names -> Accounts] /\ protected \subseteq Names
      /\ reading \subseteq Requests /\ adminCalls \subseteq [user : Names, role : Roles]
      /\ \A u \in protected : accountOf[u].password /\ accountOf[u].status # "none"
      /\ \A r \in reading : r.route = "register" => r.password # "wrong"
  BY <1>1 DEF People
<1>3. \A r \in reading : r \in Requests /\ r.user \in Names
  BY <1>2 DEF Requests
(* What changes neither a row nor what is read. *)
<1>4. ASSUME UNCHANGED <<env, accountOf, protected, adminCalls>>, clock' \in Nat, asked' \in Nat,
             reading' \subseteq reading
      PROVE  People'
  BY <1>2, <1>4 DEF People
(* One row is written. *)
<1>5. ASSUME NEW u \in Names, NEW row \in Accounts, accountOf' = [accountOf EXCEPT ![u] = row],
             u \in protected' => row.password /\ row.status # "none",
             protected' \subseteq protected \cup {u},
             UNCHANGED <<env, clock, asked>>, adminCalls' \subseteq adminCalls, reading' \subseteq reading
      PROVE  People'
  <2>1. accountOf' \in [Names -> Accounts]
    BY <1>2, <1>5
  <2>2. \A v \in protected' : accountOf'[v].password /\ accountOf'[v].status # "none"
    <3> TAKE v \in protected'
    <3>1. CASE v = u
      <4>1. accountOf'[v] = row
        BY <1>2, <1>5, <3>1
      <4> QED BY <1>5, <3>1, <4>1
    <3>2. CASE v # u
      <4>1. accountOf'[v] = accountOf[v] /\ v \in protected
        BY <1>2, <1>5, <3>2
      <4> QED BY <1>2, <4>1
    <3> QED BY <3>1, <3>2
  <2> QED BY <1>2, <1>5, <2>1, <2>2 DEF People
<1>6. ASSUME NEW ip \in Ips, NEW r \in Requests, Arrive(ip, r) PROVE People'
  <2>1. /\ reading' \subseteq reading \cup {r} /\ asked' \in Nat
        /\ UNCHANGED <<env, accountOf, protected, adminCalls, clock>>
    <3>1. Charged(r.route, ip) /\ UNCHANGED <<env, accountOf, protected, adminCalls, clock>>
      BY <1>6 DEF Arrive, rowsOf
    <3>2. asked' = asked + 1
      BY <3>1 DEF Charged
    <3>3. reading' = reading \cup {r} \/ reading' = reading
      BY <1>6 DEF Arrive
    <3> QED BY <1>2, <3>1, <3>2, <3>3
  <2>2. r.route = "register" => r.password # "wrong"
    BY <1>6 DEF Arrive, Bodies
  <2> QED BY <1>2, <2>1, <2>2 DEF People
<1>7. ASSUME NEW ip \in Ips, Call(ip) PROVE People'
  BY <1>2, <1>4, <1>7 DEF Call, Charged, rowsOf
<1>8. ASSUME NEW r \in reading, PostRegister(r) PROVE People'
  <2>1. reading' \subseteq reading /\ UNCHANGED <<env, clock, asked, adminCalls>>
    BY <1>8 DEF PostRegister, Done
  <2>2. CASE UNCHANGED <<accountOf, protected>>
    BY <1>2, <1>4, <2>1, <2>2
  <2>3. CASE /\ accountOf' = [accountOf EXCEPT ![r.user] = NewAccount("user", TRUE)]
             /\ protected' = protected \cup {r.user}
    <3>1. /\ NewAccount("user", TRUE) \in Accounts /\ NewAccount("user", TRUE).password
          /\ NewAccount("user", TRUE).status # "none"
      BY <1>2, RowsAreAccounts DEF Roles
    <3> QED BY <1>3, <1>5, <2>1, <2>3, <3>1
  <2> QED BY <1>8, <2>2, <2>3 DEF PostRegister
<1>9. ASSUME NEW r \in reading, LoginRefused(r) PROVE People'
  BY <1>2, <1>4, <1>9 DEF LoginRefused, Done, rowsOf
<1>10. ASSUME NEW r \in reading, LoginAccepted(r) PROVE People'
  <2> DEFINE old == accountOf[r.user]
             row == IF old.status = "none" THEN NewAccount(RoleFor(r), FALSE)
                    ELSE IF RoleFor(r) = old.role THEN old
                    ELSE Saved(r.user, "active", RoleFor(r))
  <2>1. /\ reading' \subseteq reading /\ UNCHANGED <<env, clock, asked, adminCalls, protected>>
        /\ accountOf' = [accountOf EXCEPT ![r.user] = row]
    BY <1>2, <1>3, <1>10 DEF LoginAccepted, Done
  <2>2. old \in Accounts /\ old.role \in Roles
    BY <1>2, <1>3 DEF Accounts
  <2>3. RoleFor(r) \in Roles
    <3>1. RowFor(r).role \in Roles
      BY <1>2, <2>2, RowsAreAccounts DEF RowFor, Roles
    <3> QED BY <3>1 DEF RoleFor, Roles
  <2>4. row \in Accounts
    BY <1>2, <1>3, <2>2, <2>3, RowsAreAccounts
  <2>5. r.user \in protected' => row.password /\ row.status # "none"
    <3>1. r.user \in protected' => old.password /\ old.status # "none"
      BY <1>2, <2>1
    <3>2. /\ Saved(r.user, "active", RoleFor(r)).password = old.password
          /\ Saved(r.user, "active", RoleFor(r)).status = "active"
      BY <1>2, <1>3, <2>3, RowsAreAccounts
    <3> QED BY <3>1, <3>2
  <2> HIDE DEF row, old
  <2> QED BY <1>3, <1>5, <2>1, <2>4, <2>5
(* The process starts with the rows A, which are those of before but for one without a password. *)
<1>11. ASSUME NEW A \in [Names -> Accounts], RestartWith(A),
              \A u \in protected : A[u].password /\ A[u].status # "none"
       PROVE  People'
  <2>1. /\ UNCHANGED <<env, clock, asked>> /\ reading' = {} /\ adminCalls' = {}
        /\ accountOf' = WithOperator(A) /\ protected' = protected \cup ({env.operator} \ {None})
    BY <1>11 DEF RestartWith
  <2>2. /\ NewAccount("admin", TRUE) \in Accounts /\ NewAccount("admin", TRUE).password
        /\ NewAccount("admin", TRUE).status # "none"
    BY <1>2, RowsAreAccounts DEF Roles
  <2>3. CASE env.operator = None
    <3>1. accountOf' = A /\ protected' = protected
      BY <2>1, <2>3 DEF WithOperator
    <3> QED BY <1>2, <1>11, <2>1, <3>1 DEF People
  <2>4. CASE env.operator # None
    <3>1. /\ accountOf' = [A EXCEPT ![env.operator] = NewAccount("admin", TRUE)]
          /\ protected' = protected \cup {env.operator} /\ env.operator \in Names
      BY <1>1, <2>1, <2>4 DEF WithOperator
    <3>2. accountOf' \in [Names -> Accounts]
      BY <1>11, <2>2, <3>1
    <3>3. \A u \in protected' : accountOf'[u].password /\ accountOf'[u].status # "none"
      <4> TAKE u \in protected'
      <4>1. CASE u = env.operator
        <5>1. accountOf'[u] = NewAccount("admin", TRUE)
          BY <1>11, <3>1, <4>1
        <5> QED BY <2>2, <5>1
      <4>2. CASE u # env.operator
        <5>1. accountOf'[u] = A[u] /\ u \in protected
          BY <1>2, <1>11, <3>1, <4>2
        <5> QED BY <1>11, <5>1
      <4> QED BY <4>1, <4>2
    <3> QED BY <1>2, <2>1, <3>1, <3>2, <3>3 DEF People
  <2> QED BY <2>3, <2>4
<1>12. ASSUME NEW r \in reading, CrashInRegister(r) PROVE People'
  <2> DEFINE A == [accountOf EXCEPT ![r.user] = NewAccount("user", FALSE)]
  <2>1. NewAccount("user", FALSE) \in Accounts
    BY <1>2, RowsAreAccounts DEF Roles
  <2>2. A \in [Names -> Accounts]
    BY <1>2, <2>1
  <2>3. accountOf[r.user].status = "none" /\ RestartWith(A)
    BY <1>12 DEF CrashInRegister, MayRegister
  <2>4. \A u \in protected : A[u] = accountOf[u]
    BY <1>2, <2>3
  <2>5. \A u \in protected : A[u].password /\ A[u].status # "none"
    BY <1>2, <2>4
  <2> HIDE DEF A
  <2> QED BY <1>11, <2>2, <2>3, <2>5
<1>13. ASSUME RestartServer PROVE People'
  BY <1>2, <1>11, <1>13 DEF RestartServer
<1>14. ASSUME NEW ip \in Ips, NEW header, NEW cookie, Logout(ip, header, cookie) PROVE People'
  BY <1>2, <1>4, <1>14 DEF Logout, Charged
<1>15. ASSUME NEW u \in Names, OperatorCalls(u) PROVE People'
  <2>1. adminCalls' = adminCalls \cup {[user |-> u, role |-> accountOf[u].role]}
        /\ UNCHANGED <<env, accountOf, reading, clock, protected, asked>>
    BY <1>15 DEF OperatorCalls, rowsOf, accessHistory
  <2>2. accountOf[u].role \in Roles
    BY <1>2 DEF Accounts
  <2> QED BY <1>2, <2>1, <2>2 DEF People
<1>16. ASSUME NEW u \in Names, DeleteAccount(u) PROVE People'
  <2>1. /\ accountOf' = [accountOf EXCEPT ![u] = NoAccount] /\ protected' = protected \ {u}
        /\ UNCHANGED <<env, reading, adminCalls, clock, asked>>
    BY <1>16 DEF DeleteAccount
  <2> QED BY <1>2, <1>5, <2>1, RowsAreAccounts
<1>17. ASSUME NEW c \in adminCalls, NEW status \in {"active", "suspended"}, SetStatus(c, status)
       PROVE  People'
  <2>1. /\ accountOf' = [accountOf EXCEPT ![c.user] = Saved(c.user, status, c.role)]
        /\ adminCalls' \subseteq adminCalls /\ UNCHANGED <<env, reading, clock, protected, asked>>
    BY <1>17 DEF SetStatus, accessHistory
  <2>2. c.user \in Names /\ c.role \in Roles
    BY <1>2
  <2>3. /\ Saved(c.user, status, c.role) \in Accounts
        /\ Saved(c.user, status, c.role).status = status
        /\ Saved(c.user, status, c.role).password = accountOf[c.user].password
    BY <1>2, <2>2, RowsAreAccounts
  <2>4. status # "none"
    OBVIOUS
  <2>5. c.user \in protected' => accountOf[c.user].password
    BY <1>2, <2>1
  <2> QED BY <1>5, <2>1, <2>2, <2>3, <2>4, <2>5
<1>18. ASSUME Purge PROVE People'
  BY <1>2, <1>4, <1>18 DEF Purge, accessHistory
<1>19. ASSUME ClockTicks PROVE People'
  <2>1. clock' = clock + 1 /\ UNCHANGED <<env, accountOf, reading, adminCalls, protected, asked>>
    BY <1>19 DEF ClockTicks, rowsOf, accessHistory
  <2> QED BY <1>2, <1>4, <2>1
<1>20. ASSUME UNCHANGED accessVars PROVE People'
  BY <1>2, <1>4, <1>20 DEF accessVars, accessHistory
<1>21. env.users \subseteq Names
  BY <1>1 DEF People, AccessAssumption
<1> QED BY <1>6, <1>7, <1>8, <1>9, <1>10, <1>12, <1>13, <1>14, <1>15, <1>16, <1>17, <1>18, <1>19,
           <1>20, <1>21 DEF AccessNext

(* A token is given out once, and what revokes it is kept for as long as it would be accepted.  *)
LEMMA SignedIsKept ==
  ASSUME AccessAssumption, DoorInv, [AccessNext]_accessVars PROVE Signed'
<1>1. Signed /\ People
  BY DEF DoorInv
<1>2. /\ token \in [Tokens -> Payloads \cup {None}] /\ clock \in Nat
      /\ loggedOut \subseteq Tokens /\ unsaved \subseteq loggedOut
      /\ revokedJtis \cup revokedRows \subseteq loggedOut
      /\ \A j \in loggedOut : token[j] # None
      /\ \A j \in loggedOut \ unsaved : j \in revokedRows \/ token[j].exp < clock
      /\ accountOf \in [Names -> Accounts]
      /\ \A r \in reading : r \in Requests /\ r.user \in Names
  BY <1>1 DEF Signed, RevokedInv, People, Requests
<1>3. ASSUME UNCHANGED <<token, revokedRows, clock, loggedOut, unsaved>>, revokedJtis' \subseteq revokedJtis
      PROVE  Signed'
  BY <1>2, <1>3 DEF Signed, RevokedInv
<1>4. ASSUME NEW u \in Names, NEW role \in Roles, Give(u, role),
             UNCHANGED <<revokedJtis, revokedRows, clock, loggedOut, unsaved>>
      PROVE  Signed'
  <2>1. PICK j \in Tokens : token[j] = None /\ token' = [token EXCEPT ![j] = NewPayload(u, role)]
    BY <1>4 DEF Give
  <2>2. NewPayload(u, role) \in Payloads
    BY <1>2 DEF NewPayload, Payloads, AccessAssumption
  <2>3. token' \in [Tokens -> Payloads \cup {None}]
    BY <1>2, <2>1, <2>2
  <2>4. \A i \in loggedOut : token'[i] = token[i]
    BY <1>2, <2>1
  <2> QED BY <1>2, <1>4, <2>3, <2>4 DEF Signed, RevokedInv
<1>5. ASSUME NEW ip \in Ips, NEW r \in Requests, Arrive(ip, r) PROVE Signed'
  BY <1>3, <1>5 DEF Arrive, rowsOf
<1>6. ASSUME NEW ip \in Ips, Call(ip) PROVE Signed'
  BY <1>3, <1>6 DEF Call, rowsOf
<1>7. ASSUME NEW r \in reading, PostRegister(r) PROVE Signed'
  <2>1. UNCHANGED <<revokedJtis, revokedRows, clock, loggedOut, unsaved>>
        /\ (UNCHANGED token \/ Give(r.user, "user"))
    BY <1>7 DEF PostRegister
  <2> QED BY <1>2, <1>3, <1>4, <2>1 DEF Roles
<1>8. ASSUME NEW r \in reading, LoginRefused(r) PROVE Signed'
  BY <1>3, <1>8 DEF LoginRefused, rowsOf
<1>9. ASSUME NEW r \in reading, LoginAccepted(r) PROVE Signed'
  <2>1. UNCHANGED <<revokedJtis, revokedRows, clock, loggedOut, unsaved>> /\ Give(r.user, RoleFor(r))
    BY <1>9 DEF LoginAccepted
  <2>2. RowFor(r).role \in Roles
    <3>1. accountOf[r.user] \in Accounts /\ accountOf[r.user].role \in Roles
      BY <1>2 DEF Accounts
    <3> QED BY <1>2, <3>1, RowsAreAccounts DEF RowFor, Roles
  <2>3. RoleFor(r) \in Roles
    BY <2>2 DEF RoleFor, Roles
  <2> QED BY <1>2, <1>4, <2>1, <2>3
<1>10. ASSUME NEW r \in reading, CrashInRegister(r) PROVE Signed'
  BY <1>3, <1>10 DEF CrashInRegister, RestartWith
<1>11. ASSUME RestartServer PROVE Signed'
  BY <1>3, <1>11 DEF RestartServer, RestartWith
<1>12. ASSUME NEW ip \in Ips, NEW header \in Tokens \cup {None}, NEW cookie \in Tokens \cup {None},
              Logout(ip, header, cookie)
       PROVE  Signed'
  <2> DEFINE j == Extracted(header, cookie)
  <2>1. CASE UNCHANGED <<revokedJtis, revokedRows, loggedOut, unsaved>>
    BY <1>3, <1>12, <2>1 DEF Logout
  <2>2. CASE SignsOut(ip, j) /\ Revoke(j) /\ loggedOut' = loggedOut \cup {j}
    <3>1. j \in Tokens /\ token[j] # None
      BY <2>2 DEF SignsOut, Verified, Extracted
    <3>2. UNCHANGED <<token, clock>>
      BY <1>12 DEF Logout
    <3>3. /\ revokedJtis' = revokedJtis \cup {j} /\ loggedOut' = loggedOut \cup {j}
          /\ \/ revokedRows' = revokedRows \cup {j} /\ UNCHANGED unsaved
             \/ unsaved' = unsaved \cup {j} /\ UNCHANGED revokedRows
      BY <2>2 DEF Revoke
    <3> HIDE DEF j
    <3>4. \A i \in loggedOut' : token[i] # None
      BY <1>2, <3>1, <3>3
    <3>5. \A i \in loggedOut' \ unsaved' : i \in revokedRows' \/ token[i].exp < clock
      BY <1>2, <3>3
    <3> QED BY <1>2, <3>1, <3>2, <3>3, <3>4, <3>5 DEF Signed, RevokedInv
  <2> QED BY <1>12, <2>1, <2>2 DEF Logout
<1>13. ASSUME NEW u, OperatorCalls(u) \/ DeleteAccount(u) PROVE Signed'
  BY <1>3, <1>13 DEF OperatorCalls, DeleteAccount, rowsOf, accessHistory
<1>14. ASSUME NEW c, NEW status, SetStatus(c, status) PROVE Signed'
  BY <1>3, <1>14 DEF SetStatus, accessHistory
<1>15. ASSUME Purge PROVE Signed'
  <2>1. revokedRows' = {j \in revokedRows : token[j].exp >= clock}
        /\ UNCHANGED <<token, revokedJtis, clock, loggedOut, unsaved>>
    BY <1>15 DEF Purge, Keeps, accessHistory
  <2>2. \A j \in loggedOut : token[j].exp \in Nat
    BY <1>2 DEF Payloads
  <2>3. \A j \in loggedOut \ unsaved : j \in revokedRows' \/ token[j].exp < clock
    BY <1>2, <2>1, <2>2
  <2> QED BY <1>2, <2>1, <2>3 DEF Signed, RevokedInv
<1>16. ASSUME ClockTicks PROVE Signed'
  <2>1. clock' = clock + 1 /\ UNCHANGED <<token, revokedJtis, revokedRows, loggedOut, unsaved>>
    BY <1>16 DEF ClockTicks, rowsOf, accessHistory
  <2>2. \A j \in loggedOut : token[j].exp \in Nat
    BY <1>2 DEF Payloads
  <2>3. \A j \in loggedOut \ unsaved : j \in revokedRows \/ token[j].exp < clock'
    BY <1>2, <2>1, <2>2
  <2> QED BY <1>2, <2>1, <2>3 DEF Signed, RevokedInv
<1>17. ASSUME UNCHANGED accessVars PROVE Signed'
  BY <1>3, <1>17 DEF accessVars, rowsOf, accessHistory
<1> QED BY <1>5, <1>6, <1>7, <1>8, <1>9, <1>10, <1>11, <1>12, <1>13, <1>14, <1>15, <1>16, <1>17
        DEF AccessNext

LEMMA DoorInvInit ==
  ASSUME AccessAssumption, AccessInit PROVE DoorInv
<1>1. env \in Environments /\ env.operator \in Names \cup {None}
  BY Environment DEF AccessInit
<1>2. People
  <2> DEFINE A == [u \in Names |-> NoAccount]
             admin == NewAccount("admin", TRUE)
  <2>1. /\ NoAccount \in Accounts /\ admin \in Accounts /\ admin.password /\ admin.status # "none"
    BY DEF NoAccount, NewAccount, Accounts, Roles
  <2>2. /\ clock = 0 /\ asked = 0 /\ reading = {} /\ adminCalls = {} /\ accountOf = WithOperator(A)
        /\ protected = {env.operator} \ {None}
    BY DEF AccessInit
  <2>3. CASE env.operator = None
    <3>1. accountOf = A /\ protected = {}
      BY <2>2, <2>3 DEF WithOperator
    <3> QED BY <1>1, <2>1, <2>2, <3>1 DEF People
  <2>4. CASE env.operator # None
    <3>1. accountOf = [A EXCEPT ![env.operator] = admin] /\ protected = {env.operator}
      BY <2>2, <2>4 DEF WithOperator
    <3>2. env.operator \in Names
      BY <1>1, <2>4
    <3> HIDE DEF admin
    <3>3. accountOf \in [Names -> Accounts] /\ accountOf[env.operator] = admin
      BY <2>1, <3>1, <3>2
    <3> QED BY <1>1, <2>1, <2>2, <3>1, <3>2, <3>3 DEF People
  <2> QED BY <2>3, <2>4
<1>3. Guarded
  <2>1. failures = <<>> /\ guesses = [k \in Keys |-> <<>>]
    BY DEF AccessInit
  <2>2. GuardTable(<<>>)
    BY DEF GuardTable, OneEntryPerKey, AccessAssumption
  <2> QED BY <2>1, <2>2 DEF Guarded, GuardInv, InOrder, GuessesAreBounded, Spread
<1>4. Budgets
  <2>1. hits = [l \in Limiters |-> <<>>] /\ passed = [i \in Ips |-> <<>>]
    BY DEF AccessInit
  <2>2. HitTable(<<>>) /\ "auth" \in Limiters
    BY DEF HitTable, OneEntryPerKey, AccessAssumption, Limiters
  <2>3. Budgeted(hits["auth"], passed)
    BY <2>1, <2>2 DEF Budgeted, InOrder, Spread
  <2> QED BY <2>1, <2>2, <2>3 DEF Budgets, LimiterInv
<1>5. Signed
  BY DEF AccessInit, Signed, RevokedInv
<1> QED BY <1>2, <1>3, <1>4, <1>5 DEF DoorInv

LEMMA DoorInvMeans ==
  ASSUME DoorInv PROVE DoorHolds
<1>1. People /\ Guarded /\ Budgets /\ Signed
  BY DEF DoorInv
<1>2. /\ failures \in Seq(GuardEntries) /\ Len(failures) <= GuardKeys /\ OneEntryPerKey(failures)
  BY <1>1 DEF Guarded, GuardTable
<1>3. \A l \in Limiters : Len(hits[l]) <= RateKeys /\ OneEntryPerKey(hits[l])
  BY <1>1 DEF Budgets, HitTable
<1>4. AccessTypes
  BY <1>1, <1>2 DEF AccessTypes, People, Guarded, Budgets, Signed, GuardEntries, HitEntries
<1>5. AccessInv
  BY <1>1, <1>2, <1>3, <1>4 DEF AccessInv, People, Signed
<1>6. GuessesAreBounded
  BY <1>1 DEF Guarded, GuardInv
<1>7. RateHolds
  BY <1>1 DEF Budgets, LimiterInv, Budgeted, RateHolds
<1>8. LoggedOutStaysOut
  <2>1. \A j \in loggedOut : token[j] \in Payloads
    BY <1>1 DEF Signed, RevokedInv
  <2>2. \A j \in loggedOut : token[j].exp \in Nat /\ clock \in Nat
    BY <1>1, <2>1 DEF Payloads, People
  <2> QED BY <1>1, <2>2 DEF LoggedOutStaysOut, Verified, Signed, RevokedInv
<1> QED BY <1>5, <1>6, <1>7, <1>8 DEF DoorHolds

LEMMA DoorInvIsKept ==
  ASSUME AccessAssumption, DoorInv, [AccessNext]_accessVars PROVE DoorInv'
  BY PeopleIsKept, GuardedIsKept, BudgetsAreKept, SignedIsKept DEF DoorInv

(* However many addresses and names send requests, and however the process is restarted and its  *)
(* tables fill up: the failures of a key within a window stay below twice the limit, an address  *)
(* gets no more auth requests through than its limit, and a token that was signed out is not     *)
(* accepted again (LoginGuard, SlidingWindowLimiter.hit, revokeToken, verifyToken).              *)
THEOREM DoorHoldsTheorem ==
  ASSUME AccessAssumption PROVE AccessSpec => []DoorHolds
<1>1. AccessInit => DoorInv
  BY DoorInvInit
<1>2. DoorInv /\ [AccessNext]_accessVars => DoorInv'
  BY DoorInvIsKept
<1>3. DoorInv => DoorHolds
  BY DoorInvMeans
<1> QED BY <1>1, <1>2, <1>3, PTL DEF AccessSpec

(* A step that gives out a token ends a request that has shown what its account asks for.        *)
Proven(j) ==
  \E r \in reading \ reading' :
    /\ r.user = token'[j].user
    /\ r.secret \/ r.password = "right" \/ (~env.authRequired /\ r.user \notin protected)
    /\ accountOf[r.user].status # "suspended"
    /\ token'[j].role = "admin" => r.secret \/ accountOf[r.user].role = "admin"

LEMMA EntryStep ==
  ASSUME AccessAssumption, DoorInv, AccessNext,
         NEW j \in Tokens, token[j] = None, token'[j] # None
  PROVE  Proven(j)
<1>1. /\ token \in [Tokens -> Payloads \cup {None}] /\ token' # token
      /\ \A u \in protected : accountOf[u].password
      /\ \A r \in reading : r \in Requests /\ (r.route = "register" => r.password # "wrong")
  BY DEF DoorInv, People, Signed
<1>2. ASSUME NEW u, NEW role, Give(u, role) PROVE token'[j].user = u /\ token'[j].role = role
  <2>1. PICK i \in Tokens : token' = [token EXCEPT ![i] = NewPayload(u, role)]
    BY <1>2 DEF Give
  <2>2. token'[j] = NewPayload(u, role)
    BY <1>1, <2>1
  <2> QED BY <2>2 DEF NewPayload
<1>3. ASSUME NEW r \in reading, PostRegister(r) PROVE Proven(j)
  <2>1. /\ r \in reading \ reading' /\ r.route = "register"
        /\ MayRegister(r) /\ Give(r.user, "user")
    BY <1>1, <1>3 DEF PostRegister, Done
  <2>2. token'[j].user = r.user /\ token'[j].role = "user"
    BY <1>2, <2>1
  <2>3. r.password \in {"right", "wrong", "weak"}
    BY <1>1 DEF Requests
  <2>4. r.password = "right" /\ accountOf[r.user].status # "suspended"
    BY <1>1, <2>1, <2>3 DEF MayRegister
  <2> QED BY <2>1, <2>2, <2>4 DEF Proven
<1>4. ASSUME NEW r \in reading, LoginAccepted(r) PROVE Proven(j)
  <2>1. /\ r \in reading \ reading' /\ MayLogin(r) /\ accountOf[r.user].status # "suspended"
        /\ Give(r.user, RoleFor(r))
    BY <1>4 DEF LoginAccepted, Done
  <2>2. token'[j].user = r.user /\ token'[j].role = RoleFor(r)
    BY <1>2, <2>1
  <2>3. r.secret \/ r.password = "right" \/ (~env.authRequired /\ r.user \notin protected)
    BY <1>1, <2>1 DEF MayLogin, PasswordOk
  <2>4. RoleFor(r) = "admin" => r.secret \/ accountOf[r.user].role = "admin"
    <3>1. NewAccount("user", FALSE).role = "user"
      BY DEF NewAccount
    <3>2. RowFor(r).role = "user" \/ RowFor(r).role = accountOf[r.user].role
      BY <3>1 DEF RowFor
    <3> QED BY <3>2 DEF RoleFor
  <2> QED BY <2>1, <2>2, <2>3, <2>4 DEF Proven
<1>5. ASSUME NEW ip \in Ips, NEW r \in Requests, Arrive(ip, r) PROVE FALSE
  BY <1>1, <1>5 DEF Arrive
<1>6. ASSUME NEW ip \in Ips, Call(ip) PROVE FALSE
  BY <1>1, <1>6 DEF Call
<1>7. ASSUME NEW r \in reading, LoginRefused(r) \/ CrashInRegister(r) PROVE FALSE
  BY <1>1, <1>7 DEF LoginRefused, CrashInRegister, RestartWith
<1>8. ASSUME NEW ip \in Ips, NEW header, NEW cookie, Logout(ip, header, cookie) PROVE FALSE
  BY <1>1, <1>8 DEF Logout
<1>9. ASSUME NEW u, OperatorCalls(u) \/ DeleteAccount(u) PROVE FALSE
  BY <1>1, <1>9 DEF OperatorCalls, DeleteAccount
<1>10. ASSUME NEW c, NEW status, SetStatus(c, status) PROVE FALSE
  BY <1>1, <1>10 DEF SetStatus
<1>11. ASSUME RestartServer \/ Purge \/ ClockTicks PROVE FALSE
  BY <1>1, <1>11 DEF RestartServer, RestartWith, Purge, ClockTicks
<1> QED BY <1>3, <1>4, <1>5, <1>6, <1>7, <1>8, <1>9, <1>10, <1>11 DEF AccessNext

(* Whoever is given a token has shown the password of the account, or the admin secret, or the   *)
(* account has none and the server asks for none (registration, login, saveUser): however rows   *)
(* are deleted, promoted, suspended and bootstrapped while the body of the request is read.      *)
THEOREM EntryIsProvenTheorem ==
  ASSUME AccessAssumption PROVE AccessSpec => EntryIsProven
<1>1. AccessInit => DoorInv
  BY DoorInvInit
<1>2. DoorInv /\ [AccessNext]_accessVars => DoorInv'
  BY DoorInvIsKept
<1>3. DoorInv /\ [AccessNext]_accessVars =>
        [\A j \in Tokens : token[j] = None /\ token'[j] # None =>
           \E r \in reading \ reading' :
             /\ r.user = token'[j].user
             /\ r.secret \/ r.password = "right" \/ (~env.authRequired /\ r.user \notin protected)
             /\ accountOf[r.user].status # "suspended"
             /\ token'[j].role = "admin" => r.secret \/ accountOf[r.user].role = "admin"]_accessVars
  BY EntryStep DEF Proven
<1> QED BY <1>1, <1>2, <1>3, PTL DEF AccessSpec, EntryIsProven
-----------------------------------------------------------------------------
(* Alerts: what they remember.                                              *)

(* The invariant of an evaluation at any point of it: the rows R of the rules, the keys D, what *)
(* the limit counts Q of the alerts S of each user, and the alerts F.                           *)
Typed(R, D, Q, S, F) ==
  /\ R \in [RuleIds -> Rules \cup {None, Deleted}]
  /\ \A k \in DOMAIN D : D[k] \in 1..now
  /\ Q \in [Users -> SUBSET Nat] /\ S \in [Users -> Seq(Nat)]
  /\ \E X : F \in Seq(X)
  /\ \A i \in DOMAIN F : /\ F[i].rule \in RuleIds /\ F[i].user \in Users
                         /\ F[i].at \in 1..now /\ F[i].boot \in 1..boot

(* An alert that was written down is in the row of its rule, as long as there is one.           *)
Written(R, F) ==
  \A i \in DOMAIN F : F[i].saved =>
    \/ R[F[i].rule] = Deleted
    \/ R[F[i].rule] \in Rules /\ R[F[i].rule].last \in Times /\ F[i].at <= R[F[i].rule].last
Cool(F) ==
  \A j \in DOMAIN F : \A i \in 1..j - 1 :
    F[i].rule = F[j].rule /\ F[i].saved =>
      \/ F[j].at - F[i].at >= F[j].cooldown
      \/ /\ j = i + 1 /\ F[i].at = F[j].at
         /\ F[i].key[2] = "bid" /\ F[j].key[2] = "ask"

(* The key of an alert of this process is known, as young as the alert at least, or it is old.  *)
Known(D, key, at) == now - at > DedupTtl \/ (key \in DOMAIN D /\ at <= D[key])
Remembered(D, F) == \A i \in DOMAIN F : F[i].boot = boot => Known(D, F[i].key, F[i].at)
Once(F) ==
  \A j \in DOMAIN F : \A i \in 1..j - 1 :
    F[i].key = F[j].key /\ F[i].boot = F[j].boot => F[j].at - F[i].at > DedupTtl

(* The alerts of a user that are in the limit are counted.                                      *)
Counting(Q, S) ==
  \A u \in Users :
    /\ Q[u] \subseteq DOMAIN S[u]
    /\ \A i \in DOMAIN S[u] : S[u][i] <= now /\ (now - S[u][i] < LimitTime => i \in Q[u])
    /\ \A i, j \in DOMAIN S[u] : i <= j => S[u][i] <= S[u][j]
InTheLimit(S) ==
  \A u \in Users : \A i \in DOMAIN S[u] :
    i + MaxPerWindow \in DOMAIN S[u] => S[u][i + MaxPerWindow] - S[u][i] >= LimitTime

Good(R, D, Q, S, F) ==
  /\ Typed(R, D, Q, S, F) /\ Written(R, F) /\ Cool(F) /\ Remembered(D, F) /\ Once(F)
  /\ Counting(Q, S) /\ InTheLimit(S)

AlertsRareInv ==
  /\ now \in Times /\ boot \in 1..2 /\ calls \subseteq [user : Users, plan : Plans]
  /\ IsFiniteSet(Existing)
  /\ Good(rules, dedup, recent, sent, fired)

(* One alert more.                                                                              *)
LEMMA AlertAppended ==
  ASSUME NEW F, NEW X, F \in Seq(X), NEW a
  PROVE  /\ Append(F, a) \in Seq(X \cup {a}) /\ Len(F) \in Nat /\ DOMAIN F = 1..Len(F)
         /\ DOMAIN Append(F, a) = 1..Len(F) + 1 /\ Append(F, a)[Len(F) + 1] = a
         /\ \A i \in 1..Len(F) : Append(F, a)[i] = F[i]
<1>1. F \in Seq(X \cup {a})
  BY SeqDef
<1> QED BY <1>1

(* An alert is a cooldown after the others of its rule that were written down, or it is about   *)
(* the ask and the one before it was at once about the bid.                                     *)
LEMMA OneMoreCool ==
  ASSUME NEW F, NEW X, F \in Seq(X), Cool(F), NEW a,
         \A i \in DOMAIN F : F[i].rule = a.rule /\ F[i].saved =>
           \/ a.at - F[i].at >= a.cooldown
           \/ i = Len(F) /\ F[i].at = a.at /\ F[i].key[2] = "bid" /\ a.key[2] = "ask"
  PROVE  Cool(Append(F, a))
<1> DEFINE G == Append(F, a)
           n == Len(F)
<1>1. /\ n \in Nat /\ DOMAIN F = 1..n /\ DOMAIN G = 1..n + 1 /\ G[n + 1] = a
      /\ \A i \in 1..n : G[i] = F[i]
  BY AlertAppended
<1> HIDE DEF G, n
<1>2. ASSUME NEW j \in 1..n + 1, NEW i \in 1..j - 1, G[i].rule = G[j].rule, G[i].saved
      PROVE  \/ G[j].at - G[i].at >= G[j].cooldown
             \/ j = i + 1 /\ G[i].at = G[j].at /\ G[i].key[2] = "bid" /\ G[j].key[2] = "ask"
  <2>1. i \in 1..n
    BY <1>1
  <2>2. CASE j = n + 1
    <3>1. F[i].rule = a.rule /\ F[i].saved
      BY <1>1, <1>2, <2>1, <2>2
    <3>2. \/ a.at - F[i].at >= a.cooldown
          \/ i = n /\ F[i].at = a.at /\ F[i].key[2] = "bid" /\ a.key[2] = "ask"
      BY <1>1, <2>1, <3>1 DEF n
    <3> QED BY <1>1, <2>1, <2>2, <3>2
  <2>3. CASE j # n + 1
    <3>1. j \in 1..n
      BY <1>1, <2>3
    <3>2. F[i].rule = F[j].rule /\ F[i].saved
      BY <1>1, <1>2, <2>1, <3>1
    <3> QED BY <1>1, <2>1, <3>1, <3>2 DEF Cool
  <2> QED BY <2>2, <2>3
<1>3. Cool(G)
  BY <1>1, <1>2 DEF Cool
<1> QED BY <1>3 DEF G

LEMMA OneMoreWritten ==
  ASSUME NEW F, NEW X, F \in Seq(X), NEW R, NEW P, Written(R, F), NEW a,
         \A q \in RuleIds : q # a.rule => P[q] = R[q],
         \A i \in DOMAIN F : F[i].rule \in RuleIds /\ F[i].at \in Nat /\ F[i].at <= a.at,
         a.at \in Times, a.at \in Nat, a.rule \in RuleIds, R[a.rule] \in Rules, P[a.rule] \in Rules,
         a.saved => P[a.rule].last = a.at, P[a.rule].last \in {a.at, R[a.rule].last},
         Deleted \notin Rules, Times \subseteq Nat
  PROVE  Written(P, Append(F, a))
<1> DEFINE G == Append(F, a)
           n == Len(F)
<1>1. /\ n \in Nat /\ DOMAIN F = 1..n /\ DOMAIN G = 1..n + 1 /\ G[n + 1] = a
      /\ \A i \in 1..n : G[i] = F[i]
  BY AlertAppended
<1> HIDE DEF G, n
<1>2. ASSUME NEW i \in 1..n + 1, G[i].saved
      PROVE  \/ P[G[i].rule] = Deleted
             \/ P[G[i].rule] \in Rules /\ P[G[i].rule].last \in Times /\ G[i].at <= P[G[i].rule].last
  <2>1. CASE i = n + 1
    <3>1. G[i] = a /\ a.saved
      BY <1>1, <1>2, <2>1, Zenon
    <3>2. P[a.rule].last = a.at
      BY <3>1, Zenon
    <3>3. a.at <= a.at
      <4>1. \A k \in Nat : k <= k
        OBVIOUS
      <4> QED BY <4>1, Zenon
    <3>4. P[a.rule] \in Rules /\ P[a.rule].last \in Times /\ a.at <= P[a.rule].last
      BY <3>2, <3>3, Zenon
    <3> QED BY <3>1, <3>4, Zenon
  <2>2. CASE i # n + 1
    <3>1. i \in 1..n
      BY <1>1, <2>2
    <3>2. /\ F[i].saved /\ G[i] = F[i] /\ F[i].rule \in RuleIds /\ F[i].at \in Nat /\ F[i].at <= a.at
      BY <1>1, <1>2, <3>1
    <3>3. \/ R[F[i].rule] = Deleted
          \/ R[F[i].rule] \in Rules /\ R[F[i].rule].last \in Times /\ F[i].at <= R[F[i].rule].last
      BY <1>1, <3>1, <3>2 DEF Written
    <3>4. CASE F[i].rule # a.rule
      BY <3>2, <3>3, <3>4
    <3>5. CASE F[i].rule = a.rule
      <4>1. R[a.rule].last \in Times /\ F[i].at <= R[a.rule].last
        BY <3>3, <3>5
      <4>2. P[a.rule].last \in Times /\ F[i].at <= P[a.rule].last
        BY <3>2, <4>1
      <4> QED BY <3>2, <3>5, <4>2
    <3> QED BY <3>4, <3>5
  <2> QED BY <2>1, <2>2
<1>3. Written(P, G)
  BY <1>1, <1>2 DEF Written
<1> QED BY <1>3 DEF G

(* Keys are forgotten only when they are old, and a key that is taken is new.                   *)
Kept(D, E) ==
  /\ \A k \in DOMAIN E : E[k] \in 1..now
  /\ \A k \in DOMAIN D : now - D[k] > DedupTtl \/ (k \in DOMAIN E /\ D[k] <= E[k])

LEMMA KnownIsKept ==
  ASSUME now \in Nat, DedupTtl \in Nat, NEW D, NEW E, Kept(D, E), \A k \in DOMAIN D : D[k] \in 1..now,
         NEW key, NEW at \in Nat, Known(D, key, at)
  PROVE  Known(E, key, at)
<1>1. CASE now - at > DedupTtl
  BY <1>1 DEF Known
<1>2. CASE key \in DOMAIN D /\ at <= D[key]
  <2>1. D[key] \in Nat /\ (now - D[key] > DedupTtl \/ (key \in DOMAIN E /\ D[key] <= E[key]))
    BY <1>2 DEF Kept
  <2>2. CASE now - D[key] > DedupTtl
    BY <1>2, <2>1, <2>2 DEF Known
  <2>3. CASE key \in DOMAIN E /\ D[key] <= E[key]
    <3>1. E[key] \in Nat
      BY <2>3 DEF Kept
    <3> QED BY <1>2, <2>1, <2>3, <3>1 DEF Known
  <2> QED BY <2>1, <2>2, <2>3
<1> QED BY <1>1, <1>2 DEF Known

LEMMA OneMoreOnce ==
  ASSUME now \in Nat, DedupTtl \in Nat, NEW F, NEW X, F \in Seq(X), NEW D, NEW E, Kept(D, E),
         \A k \in DOMAIN D : D[k] \in 1..now, \A i \in DOMAIN F : F[i].at \in Nat,
         Remembered(D, F), Once(F), NEW a, a.at = now, a.boot = boot,
         a.key \in DOMAIN E, E[a.key] = now,
         a.key \in DOMAIN D => now - D[a.key] > DedupTtl
  PROVE  Remembered(E, Append(F, a)) /\ Once(Append(F, a))
<1> DEFINE G == Append(F, a)
           n == Len(F)
<1>1. /\ n \in Nat /\ DOMAIN F = 1..n /\ DOMAIN G = 1..n + 1 /\ G[n + 1] = a
      /\ \A i \in 1..n : G[i] = F[i]
  BY AlertAppended
<1> HIDE DEF G, n
<1>2. ASSUME NEW i \in 1..n, F[i].boot = boot PROVE Known(D, F[i].key, F[i].at) /\ F[i].at \in Nat
  BY <1>1, <1>2 DEF Remembered
<1>3. ASSUME NEW i \in 1..n + 1, G[i].boot = boot PROVE Known(E, G[i].key, G[i].at)
  <2>1. CASE i = n + 1
    BY <1>1, <2>1 DEF Known
  <2>2. CASE i # n + 1
    <3>1. i \in 1..n /\ G[i] = F[i]
      BY <1>1, <2>2
    <3>2. Known(D, F[i].key, F[i].at) /\ F[i].at \in Nat
      BY <1>2, <1>3, <3>1
    <3>3. Known(E, F[i].key, F[i].at)
      BY <3>2, KnownIsKept
    <3> QED BY <3>1, <3>3
  <2> QED BY <2>1, <2>2
<1>4. ASSUME NEW j \in 1..n + 1, NEW i \in 1..j - 1, G[i].key = G[j].key, G[i].boot = G[j].boot
      PROVE  G[j].at - G[i].at > DedupTtl
  <2>1. i \in 1..n /\ G[i] = F[i]
    BY <1>1
  <2>2. CASE j = n + 1
    <3>1. F[i].key = a.key /\ F[i].boot = boot /\ G[j].at = now
      BY <1>1, <1>4, <2>1, <2>2
    <3>2. F[i].at \in Nat /\ (now - F[i].at > DedupTtl \/ (a.key \in DOMAIN D /\ F[i].at <= D[a.key]))
      BY <1>2, <2>1, <3>1 DEF Known
    <3>3. ASSUME a.key \in DOMAIN D, F[i].at <= D[a.key] PROVE now - F[i].at > DedupTtl
      <4>1. D[a.key] \in Nat /\ now - D[a.key] > DedupTtl
        BY <3>3
      <4> QED BY <3>2, <3>3, <4>1
    <3>4. now - F[i].at > DedupTtl
      BY <3>2, <3>3
    <3> QED BY <2>1, <3>1, <3>4
  <2>3. CASE j # n + 1
    <3>1. j \in 1..n /\ G[j] = F[j]
      BY <1>1, <2>3
    <3>2. F[i].key = F[j].key /\ F[i].boot = F[j].boot
      BY <1>4, <2>1, <3>1
    <3> QED BY <1>1, <2>1, <3>1, <3>2 DEF Once
  <2> QED BY <2>2, <2>3
<1>5. Remembered(E, G)
  BY <1>1, <1>3 DEF Remembered
<1>6. Once(G)
  BY <1>1, <1>4 DEF Once
<1> QED BY <1>5, <1>6 DEF G

(* An alert that the limit lets through is a window behind the one that is the limit before it. *)
LEMMA OneMoreInTheLimit ==
  ASSUME now \in Nat, MaxPerWindow \in Nat, LimitTime \in Nat, NEW Q, NEW S, S \in [Users -> Seq(Nat)],
         Q \in [Users -> SUBSET Nat], Counting(Q, S), InTheLimit(S), NEW u \in Users,
         NEW W, W = {i \in Q[u] : now - S[u][i] < LimitTime}, ~(Cardinality(W) >= MaxPerWindow),
         NEW Z, Z = [S EXCEPT ![u] = Append(@, now)],
         NEW P, P = [Q EXCEPT ![u] = W \cup {Len(S[u]) + 1}]
  PROVE  /\ Z \in [Users -> Seq(Nat)] /\ P \in [Users -> SUBSET Nat]
         /\ Counting(P, Z) /\ InTheLimit(Z)
<1> DEFINE n == Len(S[u])
<1>1. S[u] \in Seq(Nat)
  OBVIOUS
<1>2. Z[u] = Append(S[u], now) /\ \A v \in Users : v # u => Z[v] = S[v]
  OBVIOUS
<1>3. /\ n \in Nat /\ DOMAIN S[u] = 1..n /\ DOMAIN Z[u] = 1..n + 1 /\ Z[u][n + 1] = now
      /\ Z[u] \in Seq(Nat) /\ \A i \in 1..n : Z[u][i] = S[u][i] /\ S[u][i] \in Nat
  BY <1>1, <1>2
<1>4. Z \in [Users -> Seq(Nat)]
  BY <1>3
<1>5. P[u] = W \cup {n + 1} /\ \A v \in Users : v # u => P[v] = Q[v]
  OBVIOUS
<1> HIDE DEF n
<1>6. P \in [Users -> SUBSET Nat]
  <2>1. W \cup {n + 1} \subseteq Nat
    BY <1>3
  <2> QED BY <2>1 DEF n
<1>7. /\ Q[u] \subseteq 1..n
      /\ \A i \in 1..n : S[u][i] <= now /\ (now - S[u][i] < LimitTime => i \in Q[u])
      /\ \A i, j \in 1..n : i <= j => S[u][i] <= S[u][j]
  BY <1>3 DEF Counting
<1>8. IsFiniteSet(W)
  <2>1. IsFiniteSet(1..n)
    BY <1>3, FS_Interval
  <2> QED BY <1>7, <2>1, FS_Subset
<1>9. \A i \in 1..n + 1 : i = n + 1 \/ i \in 1..n
  BY <1>3
<1>10. ASSUME NEW i \in 1..n, i + MaxPerWindow = n + 1 PROVE now - S[u][i] >= LimitTime
  <2> SUFFICES ASSUME now - S[u][i] < LimitTime PROVE FALSE
    BY <1>3
  <2>1. ASSUME NEW j \in i..n PROVE j \in W
    <3>1. j \in 1..n /\ S[u][i] <= S[u][j]
      BY <1>3, <1>7
    <3>2. now - S[u][j] < LimitTime
      BY <1>3, <3>1
    <3> QED BY <1>7, <3>1, <3>2
  <2>2. Cardinality(i..n) = MaxPerWindow
    <3>1. Cardinality(i..n) = IF i > n THEN 0 ELSE n - i + 1
      BY <1>3, FS_Interval
    <3> QED BY <1>3, <1>10, <3>1
  <2>3. Cardinality(i..n) <= Cardinality(W) /\ Cardinality(W) \in Nat
    BY <1>8, <2>1, FS_Subset, FS_CardinalityType
  <2> QED BY <2>2, <2>3
<1>11. ASSUME NEW i \in DOMAIN Z[u], i + MaxPerWindow \in DOMAIN Z[u]
       PROVE  Z[u][i + MaxPerWindow] - Z[u][i] >= LimitTime
  <2>0. MaxPerWindow > 0
    BY <1>8, FS_CardinalityType
  <2>1. i \in 1..n
    BY <1>3, <1>11, <2>0
  <2>2. CASE i + MaxPerWindow = n + 1
    BY <1>3, <1>10, <2>1, <2>2
  <2>3. CASE i + MaxPerWindow # n + 1
    <3>1. i + MaxPerWindow \in 1..n
      BY <1>3, <1>11, <2>3
    <3>2. S[u][i + MaxPerWindow] - S[u][i] >= LimitTime
      BY <1>3, <2>1, <3>1 DEF InTheLimit
    <3> QED BY <1>3, <2>1, <3>1, <3>2
  <2> QED BY <2>2, <2>3
<1>12. InTheLimit(Z)
  BY <1>2, <1>11 DEF InTheLimit
<1>13. /\ P[u] \subseteq DOMAIN Z[u]
       /\ \A i \in DOMAIN Z[u] : Z[u][i] <= now /\ (now - Z[u][i] < LimitTime => i \in P[u])
  <2>1. W \subseteq 1..n
    BY <1>7
  <2>2. P[u] \subseteq 1..n + 1
    BY <1>3, <1>5, <2>1
  <2>3. ASSUME NEW i \in 1..n PROVE Z[u][i] <= now /\ (now - Z[u][i] < LimitTime => i \in P[u])
    BY <1>3, <1>5, <1>7
  <2> QED BY <1>3, <1>5, <1>9, <2>2, <2>3
<1>14. \A i, j \in DOMAIN Z[u] : i <= j => Z[u][i] <= Z[u][j]
  <2> TAKE i, j \in DOMAIN Z[u]
  <2> HAVE i <= j
  <2>1. CASE j = n + 1
    BY <1>3, <1>13, <2>1
  <2>2. CASE j # n + 1
    <3>1. i \in 1..n /\ j \in 1..n
      BY <1>3, <2>2
    <3> QED BY <1>3, <1>7, <3>1
  <2> QED BY <2>1, <2>2
<1>15. Counting(P, Z)
  BY <1>2, <1>5, <1>13, <1>14 DEF Counting
<1> QED BY <1>4, <1>6, <1>12, <1>15

(* Purging and taking a key.                                                                    *)
LEMMA KeysAreKept ==
  ASSUME now \in Nat \ {0}, DedupTtl \in Nat, NEW D, \A k \in DOMAIN D : D[k] \in 1..now,
         NEW d, d = Purged(D), NEW key, key \notin DOMAIN d,
         NEW E, E = [k \in DOMAIN d \cup {key} |-> IF k = key THEN now ELSE d[k]]
  PROVE  /\ Kept(D, d) /\ Kept(D, E) /\ key \in DOMAIN E /\ E[key] = now
         /\ key \in DOMAIN D => now - D[key] > DedupTtl
<1>1. \A k \in DOMAIN d : k \in DOMAIN D /\ d[k] = D[k]
  BY DEF Purged
<1>2. \A k \in DOMAIN D : k \in DOMAIN d \/ now - D[k] > DedupTtl
  BY DEF Purged
<1>3. Kept(D, d)
  BY <1>1, <1>2 DEF Kept
<1>4. DOMAIN E = DOMAIN d \cup {key} /\ \A k \in DOMAIN d : E[k] = d[k]
  OBVIOUS
<1>5. E[key] = now
  OBVIOUS
<1>6. Kept(D, E)
  BY <1>1, <1>2, <1>4, <1>5 DEF Kept
<1> QED BY <1>2, <1>3, <1>4, <1>5, <1>6

LEMMA PurgingKeeps ==
  ASSUME now \in Nat \ {0}, DedupTtl \in Nat, NEW D, \A k \in DOMAIN D : D[k] \in 1..now
  PROVE  Kept(D, Purged(D))
<1> DEFINE d == Purged(D)
<1>1. \A k \in DOMAIN d : k \in DOMAIN D /\ d[k] = D[k]
  BY DEF Purged
<1>2. \A k \in DOMAIN D : k \in DOMAIN d \/ now - D[k] > DedupTtl
  BY DEF Purged
<1> HIDE DEF d
<1>3. Kept(D, d)
  BY <1>1, <1>2 DEF Kept
<1> QED BY <1>3 DEF d

(* Keys that are kept remember the same alerts.                                                 *)
LEMMA KeptRemembers ==
  ASSUME now \in Nat, DedupTtl \in Nat, NEW F, NEW D, NEW E, Kept(D, E),
         \A k \in DOMAIN D : D[k] \in 1..now, \A i \in DOMAIN F : F[i].at \in Nat, Remembered(D, F)
  PROVE  Remembered(E, F)
<1>1. ASSUME NEW i \in DOMAIN F, F[i].boot = boot PROVE Known(E, F[i].key, F[i].at)
  <2>1. Known(D, F[i].key, F[i].at) /\ F[i].at \in Nat
    BY <1>1 DEF Remembered
  <2> QED BY <2>1, KnownIsKept
<1> QED BY <1>1 DEF Remembered

Parts == {"rules", "dedup", "recent", "sent", "fired"}

Sound(s) ==
  /\ DOMAIN s = Parts
  /\ s = [p \in DOMAIN s |-> s[p]]
  /\ Good(s.rules, s.dedup, s.recent, s.sent, s.fired)

(* Of the rules only the last time of one is written.                                           *)
OnlyLast(s, t, r) ==
  /\ \A q \in RuleIds : q # r => t.rules[q] = s.rules[q]
  /\ t.rules[r] \in Rules /\ t.rules[r].user = s.rules[r].user

(* The alerts of a rule that were written down are a cooldown old, but for the last of them.    *)
Quiet(s, r, keys) ==
  \A i \in DOMAIN s.fired : s.fired[i].rule = r /\ s.fired[i].saved =>
    \/ now - s.fired[i].at >= rules[r].cooldown
    \/ /\ i = Len(s.fired) /\ s.fired[i].at = now /\ s.fired[i].key[2] = "bid"
       /\ \A h \in DOMAIN keys : keys[h][2] = "ask"

LEMMA AssumedOfAlerts ==
  ASSUME now \in Times
  PROVE  /\ now \in Nat \ {0} /\ Times \subseteq Nat \ {0} /\ DedupTtl \in Nat /\ LimitTime \in Nat
         /\ MaxPerWindow \in Nat /\ None \notin Times \cup Rules \cup {Deleted} /\ Deleted \notin Rules
         /\ Cooldowns \subseteq Nat
BY AlertsAssumption DEF Times

(* An alert that is let through.                                                                *)
LEMMA AlertSent ==
  ASSUME now \in Times, boot \in 1..2, NEW s, Sound(s), NEW r \in RuleIds, rules[r] \in Rules,
         s.rules[r] \in Rules, NEW keys, NEW h \in DOMAIN keys, NEW disk \in BOOLEAN, Quiet(s, r, keys),
         NEW key, key = keys[h], key \notin DOMAIN Purged(s.dedup), ~AtLimit(s, rules[r].user),
         NEW t, t = Trigger(Taken(s, key), r, key, disk)
  PROVE  Sound(t) /\ OnlyLast(s, t, r) /\ t.fired = Append(s.fired, AlertOf(r, key, disk))
<1> DEFINE u == rules[r].user
           d == Purged(s.dedup)
           E == [k \in DOMAIN d \cup {key} |-> IF k = key THEN now ELSE d[k]]
           m == Taken(s, key)
           a == AlertOf(r, key, disk)
           W == InLimit(s, u)
           F == s.fired
<1>1. u \in Users /\ rules[r].cooldown \in Nat
  BY AssumedOfAlerts DEF Rules
<1>2. /\ DOMAIN m = Parts /\ m.rules = s.rules /\ m.recent = s.recent /\ m.sent = s.sent
      /\ m.fired = s.fired /\ m.dedup = E
  BY DEF Sound, Parts, Taken
<1>3. InLimit(m, u) = W
  BY <1>2 DEF InLimit
<1> HIDE DEF m, W, u, E, d
<1>4. t = [m EXCEPT !.recent[u] = W \cup {Len(s.sent[u]) + 1}, !.sent[u] = Append(@, now),
                    !.rules[r].last = IF disk THEN now ELSE @, !.fired = Append(@, a)]
  <2>1. ~AtLimit(m, u)
    BY <1>3, Zenon DEF W, u, AtLimit
  <2>2. t = Trigger(m, r, key, disk)
    BY Zenon DEF m
  <2>3. t = [m EXCEPT !.recent[u] = InLimit(m, u) \cup {Len(m.sent[u]) + 1}, !.sent[u] = Append(@, now),
                    !.rules[r].last = IF disk THEN now ELSE @, !.fired = Append(@, a)]
    BY <2>1, <2>2, Zenon DEF Trigger, u
  <2> QED BY <1>2, <1>3, <2>3, Zenon
<1> HIDE DEF a
<1>5. /\ DOMAIN t = Parts /\ t = [p \in DOMAIN t |-> t[p]]
      /\ t.recent = [s.recent EXCEPT ![u] = W \cup {Len(s.sent[u]) + 1}]
      /\ t.sent = [s.sent EXCEPT ![u] = Append(@, now)]
      /\ t.fired = Append(F, a) /\ t.dedup = E
      /\ t.rules = [s.rules EXCEPT ![r].last = IF disk THEN now ELSE @]
  <2>1. DOMAIN t = Parts /\ t = [p \in DOMAIN t |-> t[p]]
    BY <1>2, <1>4
  <2>2. t.recent = [m.recent EXCEPT ![u] = W \cup {Len(s.sent[u]) + 1}]
    BY <1>2, <1>4 DEF Parts
  <2>3. t.sent = [m.sent EXCEPT ![u] = Append(@, now)]
    BY <1>2, <1>4 DEF Parts
  <2>4. t.fired = Append(m.fired, a) /\ t.dedup = m.dedup
    BY <1>2, <1>4 DEF Parts
  <2>5. t.rules = [m.rules EXCEPT ![r].last = IF disk THEN now ELSE @]
    BY <1>2, <1>4 DEF Parts
  <2> QED BY <1>2, <2>1, <2>2, <2>3, <2>4, <2>5, Zenon
<1>6. /\ a.rule = r /\ a.user = u /\ a.key = key /\ a.at = now /\ a.cooldown = rules[r].cooldown
      /\ a.boot = boot
  BY DEF a, AlertOf, u
<1>7. a.saved <=> disk
  BY Zenon DEF a, AlertOf
<1>8. /\ Typed(s.rules, s.dedup, s.recent, s.sent, F) /\ Written(s.rules, F) /\ Cool(F)
      /\ Remembered(s.dedup, F) /\ Once(F) /\ Counting(s.recent, s.sent) /\ InTheLimit(s.sent)
  BY DEF Sound, Good
<1>9. PICK X : F \in Seq(X)
  BY <1>8 DEF Typed
<1>10. /\ \A k \in DOMAIN s.dedup : s.dedup[k] \in 1..now
       /\ \A i \in DOMAIN F : /\ F[i].rule \in RuleIds /\ F[i].user \in Users
                              /\ F[i].at \in 1..now /\ F[i].boot \in 1..boot
  BY <1>8 DEF Typed
<1>11. now \in Nat \ {0} /\ Times \subseteq Nat \ {0} /\ \A i \in DOMAIN F : F[i].at \in Nat /\ F[i].at <= now
  BY <1>10, AssumedOfAlerts
(* The keys. *)
<1>12. /\ Kept(s.dedup, E) /\ key \in DOMAIN E /\ E[key] = now
       /\ key \in DOMAIN s.dedup => now - s.dedup[key] > DedupTtl
  <2>1. now \in Nat \ {0} /\ DedupTtl \in Nat
    BY AssumedOfAlerts
  <2> QED BY <1>10, <2>1, KeysAreKept DEF E, d
<1>13. Remembered(E, t.fired) /\ Once(t.fired)
  <2>1. a.key \in DOMAIN E /\ E[a.key] = now /\ (a.key \in DOMAIN s.dedup => now - s.dedup[a.key] > DedupTtl)
    BY <1>6, <1>12
  <2>2. now \in Nat /\ DedupTtl \in Nat
    BY AssumedOfAlerts
  <2>3. a.at = now /\ a.boot = boot
    BY <1>6
  <2>4. Remembered(E, Append(F, a)) /\ Once(Append(F, a))
    BY <1>8, <1>9, <1>10, <1>11, <1>12, <2>1, <2>2, <2>3, OneMoreOnce
  <2> QED BY <1>5, <2>4
(* The limit. *)
<1>14. /\ t.sent \in [Users -> Seq(Nat)] /\ t.recent \in [Users -> SUBSET Nat]
       /\ Counting(t.recent, t.sent) /\ InTheLimit(t.sent)
  <2>1. s.sent \in [Users -> Seq(Nat)] /\ s.recent \in [Users -> SUBSET Nat]
    BY <1>8 DEF Typed
  <2>2. W = {i \in s.recent[u] : now - s.sent[u][i] < LimitTime}
    BY DEF W, InLimit
  <2>3. ~(Cardinality(W) >= MaxPerWindow)
    BY Zenon DEF W, u, AtLimit
  <2>4. now \in Nat /\ MaxPerWindow \in Nat /\ LimitTime \in Nat
    BY AssumedOfAlerts
  <2>5. PICK Q, S, Z, P : Q = s.recent /\ S = s.sent /\ Z = t.sent /\ P = t.recent
    OBVIOUS
  <2>6. S \in [Users -> Seq(Nat)] /\ Q \in [Users -> SUBSET Nat] /\ Counting(Q, S) /\ InTheLimit(S)
    BY <1>8, <2>1, <2>5
  <2>7. /\ W = {i \in Q[u] : now - S[u][i] < LimitTime}
        /\ Z = [S EXCEPT ![u] = Append(@, now)] /\ P = [Q EXCEPT ![u] = W \cup {Len(S[u]) + 1}]
    BY <1>5, <2>2, <2>5
  <2>8. /\ Z \in [Users -> Seq(Nat)] /\ P \in [Users -> SUBSET Nat]
        /\ Counting(P, Z) /\ InTheLimit(Z)
    BY <1>1, <2>3, <2>4, <2>6, <2>7, OneMoreInTheLimit
  <2> QED BY <2>5, <2>8
(* The rules. *)
<1>15. /\ t.rules \in [RuleIds -> Rules \cup {None, Deleted}]
       /\ \A q \in RuleIds : q # r => t.rules[q] = s.rules[q]
       /\ t.rules[r] \in Rules /\ t.rules[r].user = s.rules[r].user
       /\ (disk => t.rules[r].last = now) /\ t.rules[r].last \in {now, s.rules[r].last}
  <2>1. s.rules \in [RuleIds -> Rules \cup {None, Deleted}]
    BY <1>8 DEF Typed
  <2>2. PICK z : z = IF disk THEN now ELSE s.rules[r].last
    OBVIOUS
  <2>3. t.rules[r] = [s.rules[r] EXCEPT !.last = z] /\ \A q \in RuleIds : q # r => t.rules[q] = s.rules[q]
    BY <1>5, <2>1, <2>2
  <2>4. z \in Times \cup {None} /\ (disk => z = now) /\ z \in {now, s.rules[r].last}
    BY <2>2 DEF Rules
  <2>5. t.rules[r] \in Rules /\ t.rules[r].user = s.rules[r].user /\ t.rules[r].last = z
    BY <2>3, <2>4 DEF Rules
  <2>6. DOMAIN t.rules = RuleIds /\ t.rules = [q \in RuleIds |-> t.rules[q]]
    BY <1>5, <2>1
  <2>7. \A q \in RuleIds : t.rules[q] \in Rules \cup {None, Deleted}
    BY <2>1, <2>3, <2>5
  <2>8. t.rules \in [RuleIds -> Rules \cup {None, Deleted}]
    BY <2>6, <2>7
  <2> QED BY <2>3, <2>4, <2>5, <2>8, Zenon
<1>16. Written(t.rules, t.fired)
  <2>1. a.saved => t.rules[r].last = a.at
    BY <1>6, <1>7, <1>15, Zenon
  <2>2. a.at \in Times /\ a.at \in Nat /\ a.rule \in RuleIds
    BY <1>6, <1>11
  <2>3. t.rules[a.rule].last \in {a.at, s.rules[a.rule].last} /\ (a.saved => t.rules[a.rule].last = a.at)
    BY <1>6, <1>15, <2>1, Zenon
  <2>4. PICK G, R, P : G = F /\ R = s.rules /\ P = t.rules
    OBVIOUS
  <2>5. /\ G \in Seq(X) /\ Written(R, G) /\ \A q \in RuleIds : q # a.rule => P[q] = R[q]
        /\ R[a.rule] \in Rules /\ P[a.rule] \in Rules
    BY <1>6, <1>8, <1>9, <1>15, <2>4
  <2>6. \A i \in DOMAIN G : G[i].rule \in RuleIds /\ G[i].at \in Nat /\ G[i].at <= a.at
    BY <1>6, <1>10, <1>11, <2>4
  <2>7. (a.saved => P[a.rule].last = a.at) /\ P[a.rule].last \in {a.at, R[a.rule].last}
    BY <2>3, <2>4, Zenon
  <2>8. Deleted \notin Rules /\ Times \subseteq Nat
    BY AssumedOfAlerts
  <2>9. Written(P, Append(G, a))
    BY <2>2, <2>5, <2>6, <2>7, <2>8, OneMoreWritten
  <2> QED BY <1>5, <2>4, <2>9
<1>17. Cool(t.fired)
  <2>1. \A i \in DOMAIN F : F[i].rule = r /\ F[i].saved =>
          \/ now - F[i].at >= rules[r].cooldown
          \/ i = Len(F) /\ F[i].at = now /\ F[i].key[2] = "bid" /\ key[2] = "ask"
    <3> TAKE i \in DOMAIN F
    <3> HAVE F[i].rule = r /\ F[i].saved
    <3>1. \/ now - F[i].at >= rules[r].cooldown
          \/ /\ i = Len(F) /\ F[i].at = now /\ F[i].key[2] = "bid"
             /\ \A g \in DOMAIN keys : keys[g][2] = "ask"
      BY DEF Quiet
    <3> QED BY <3>1
  <2>2. PICK G : G = F
    OBVIOUS
  <2>3. \A i \in DOMAIN G : G[i].rule = a.rule /\ G[i].saved =>
          \/ a.at - G[i].at >= a.cooldown
          \/ i = Len(G) /\ G[i].at = a.at /\ G[i].key[2] = "bid" /\ a.key[2] = "ask"
    BY <1>6, <2>1, <2>2
  <2>4. G \in Seq(X) /\ Cool(G)
    BY <1>8, <1>9, <2>2
  <2>5. Cool(Append(G, a))
    BY <2>3, <2>4, OneMoreCool
  <2> QED BY <1>5, <2>2, <2>5
(* The types. *)
<1>18. /\ \E Y : t.fired \in Seq(Y)
       /\ \A i \in DOMAIN t.fired : /\ t.fired[i].rule \in RuleIds /\ t.fired[i].user \in Users
                                    /\ t.fired[i].at \in 1..now /\ t.fired[i].boot \in 1..boot
  <2>1. /\ t.fired \in Seq(X \cup {a}) /\ Len(F) \in Nat /\ DOMAIN F = 1..Len(F)
        /\ DOMAIN t.fired = 1..Len(F) + 1 /\ t.fired[Len(F) + 1] = a
        /\ \A i \in 1..Len(F) : t.fired[i] = F[i]
    <3>1. PICK G : G = F
      OBVIOUS
    <3>2. t.fired = Append(G, a) /\ G \in Seq(X)
      BY <1>5, <1>9, <3>1
    <3>3. /\ Append(G, a) \in Seq(X \cup {a}) /\ Len(G) \in Nat /\ DOMAIN G = 1..Len(G)
          /\ DOMAIN Append(G, a) = 1..Len(G) + 1 /\ Append(G, a)[Len(G) + 1] = a
          /\ \A i \in 1..Len(G) : Append(G, a)[i] = G[i]
      BY <3>2, AlertAppended
    <3> QED BY <3>1, <3>2, <3>3
  <2>2. a.rule \in RuleIds /\ a.user \in Users /\ a.at \in 1..now /\ a.boot \in 1..boot
    BY <1>1, <1>6, <1>11
  <2>3. \A i \in DOMAIN t.fired : i = Len(F) + 1 \/ i \in 1..Len(F)
    BY <2>1
  <2> QED BY <1>10, <2>1, <2>2, <2>3
<1>19. Typed(t.rules, t.dedup, t.recent, t.sent, t.fired)
  <2>1. \A k \in DOMAIN t.dedup : t.dedup[k] \in 1..now
    BY <1>5, <1>12 DEF Kept
  <2> QED BY <1>14, <1>15, <1>18, <2>1 DEF Typed
<1>20. Good(t.rules, t.dedup, t.recent, t.sent, t.fired)
  BY <1>5, <1>13, <1>14, <1>16, <1>17, <1>19 DEF Good
<1> QED BY <1>5, <1>15, <1>20 DEF Sound, OnlyLast, a, Parts

(* One side of the candidates: at most the first of them that is new is sent.                   *)
LEMMA SideIsSound ==
  ASSUME now \in Times, boot \in 1..2, NEW s, Sound(s), NEW r \in RuleIds, rules[r] \in Rules,
         s.rules[r] \in Rules, NEW keys, DOMAIN keys \subseteq Nat, NEW disk \in BOOLEAN,
         Quiet(s, r, keys), NEW t, t = FireFirst(s, r, keys, disk)
  PROVE  /\ Sound(t) /\ OnlyLast(s, t, r)
         /\ \/ t.fired = s.fired
            \/ \E h \in DOMAIN keys : t.fired = Append(s.fired, AlertOf(r, keys[h], disk))
<1> DEFINE u == rules[r].user
           d == Purged(s.dedup)
           fresh == {i \in DOMAIN keys : keys[i] \notin DOMAIN d}
           h == CHOOSE i \in fresh : \A j \in fresh : i <= j
           E == [k \in DOMAIN d \cup {keys[h]} |-> IF k = keys[h] THEN now ELSE d[k]]
           m == Taken(s, keys[h])
           W == InLimit(s, u)
<1>1. /\ Typed(s.rules, s.dedup, s.recent, s.sent, s.fired) /\ Written(s.rules, s.fired)
      /\ Cool(s.fired) /\ Remembered(s.dedup, s.fired) /\ Once(s.fired)
      /\ Counting(s.recent, s.sent) /\ InTheLimit(s.sent)
  BY DEF Sound, Good
<1>2. \A k \in DOMAIN s.dedup : s.dedup[k] \in 1..now
  BY <1>1 DEF Typed
<1>3. now \in Nat \ {0} /\ \A i \in DOMAIN s.fired : s.fired[i].at \in Nat
  BY <1>1, AssumedOfAlerts DEF Typed
<1>4. ASSUME NEW D, Kept(s.dedup, D), DOMAIN t = Parts, t = [p \in DOMAIN t |-> t[p]], t.rules = s.rules,
             t.dedup = D, t.sent = s.sent, t.fired = s.fired,
             t.recent = s.recent \/ t.recent = [s.recent EXCEPT ![u] = W]
      PROVE  Sound(t) /\ OnlyLast(s, t, r)
  <2>1. Remembered(D, s.fired)
    BY <1>1, <1>2, <1>3, <1>4, AssumedOfAlerts, KeptRemembers
  <2>2. s.recent \in [Users -> SUBSET Nat] /\ u \in Users
    BY <1>1 DEF Typed, Rules
  <2>3. W = {i \in s.recent[u] : now - s.sent[u][i] < LimitTime}
    BY DEF InLimit
  <2> HIDE DEF u, W
  <2>4. ASSUME NEW Q, Q = [s.recent EXCEPT ![u] = W]
        PROVE  Q \in [Users -> SUBSET Nat] /\ Counting(Q, s.sent)
    <3>1. W \subseteq s.recent[u] /\ s.recent[u] \subseteq Nat
      BY <2>2, <2>3
    <3>2. Q[u] = W /\ \A v \in Users : v # u => Q[v] = s.recent[v]
      BY <2>2, <2>4
    <3>3. Q \in [Users -> SUBSET Nat]
      BY <2>2, <2>4, <3>1
    <3>4. ASSUME NEW v \in Users
          PROVE  /\ Q[v] \subseteq DOMAIN s.sent[v]
                 /\ \A i \in DOMAIN s.sent[v] : now - s.sent[v][i] < LimitTime => i \in Q[v]
      BY <1>1, <2>3, <3>1, <3>2 DEF Counting
    <3>5. Counting(Q, s.sent)
      BY <1>1, <3>4 DEF Counting
    <3> QED BY <3>3, <3>5
  <2>5. t.recent \in [Users -> SUBSET Nat] /\ Counting(t.recent, s.sent)
    BY <1>1, <1>4, <2>2, <2>4
  <2>6. Typed(t.rules, t.dedup, t.recent, t.sent, t.fired)
    BY <1>1, <1>4, <2>5 DEF Typed, Kept
  <2>7. Good(t.rules, t.dedup, t.recent, t.sent, t.fired)
    BY <1>1, <1>4, <2>1, <2>5, <2>6 DEF Good
  <2> QED BY <1>4, <2>7 DEF Sound, OnlyLast
<1>5. CASE DOMAIN keys = {}
  <2>1. t = s
    BY <1>5 DEF FireFirst
  <2> QED BY <2>1 DEF OnlyLast
<1>6. CASE DOMAIN keys # {} /\ fresh = {}
  <2>1. t = [s EXCEPT !.dedup = d]
    BY <1>6 DEF FireFirst
  <2>2. Kept(s.dedup, d)
    BY <1>2, <1>3, AssumedOfAlerts, PurgingKeeps
  <2>3. DOMAIN s = Parts
    BY DEF Sound
  <2> HIDE DEF d, fresh, u, W
  <2>4. /\ DOMAIN t = Parts /\ t = [p \in DOMAIN t |-> t[p]] /\ t.rules = s.rules /\ t.dedup = d
        /\ t.sent = s.sent /\ t.fired = s.fired /\ t.recent = s.recent
    BY <2>1, <2>3 DEF Parts
  <2> QED BY <1>4, <2>2, <2>4
<1>7. CASE DOMAIN keys # {} /\ fresh # {}
  <2>1. t = Trigger(m, r, keys[h], disk)
    BY <1>7 DEF FireFirst
  <2>2. h \in fresh
    <3>1. fresh \in SUBSET Nat
      OBVIOUS
    <3> HIDE DEF fresh
    <3>2. \E i \in fresh : \A j \in fresh : i <= j
      BY <1>7, <3>1, LeastOf
    <3> QED BY <3>2
  <2>3. h \in DOMAIN keys /\ keys[h] \notin DOMAIN d
    BY <2>2
  <2> HIDE DEF h, fresh
  <2>4. CASE ~AtLimit(s, u)
    <3>1. PICK key : key = keys[h]
      OBVIOUS
    <3>2. key \notin DOMAIN Purged(s.dedup) /\ ~AtLimit(s, rules[r].user) /\ t = Trigger(Taken(s, key), r, key, disk)
      BY <2>1, <2>3, <2>4, <3>1
    <3> HIDE DEF d, E, m, W, u
    <3>3. Sound(t) /\ OnlyLast(s, t, r) /\ t.fired = Append(s.fired, AlertOf(r, key, disk))
      BY <2>3, <3>1, <3>2, AlertSent
    <3> QED BY <2>3, <3>1, <3>3
  <2>5. CASE AtLimit(s, u)
    <3>1. Kept(s.dedup, E)
      <4> HIDE DEF h
      <4> QED BY <1>2, <1>3, <2>3, AssumedOfAlerts, KeysAreKept
    <3>2. DOMAIN s = Parts
      BY DEF Sound
    <3> HIDE DEF E, d
    <3>3. /\ DOMAIN m = Parts /\ m.rules = s.rules /\ m.recent = s.recent /\ m.sent = s.sent
          /\ m.fired = s.fired /\ m.dedup = E
      BY <3>2 DEF Parts, Taken, E, d
    <3>4. InLimit(m, u) = W
      BY <3>3 DEF InLimit
    <3> HIDE DEF m, W
    <3>5. t = [m EXCEPT !.recent[u] = W]
      <4>1. AtLimit(m, u)
        BY <2>5, <3>4, Zenon DEF AtLimit, W
      <4>2. t = [m EXCEPT !.recent[u] = InLimit(m, u)]
        BY <2>1, <4>1, Zenon DEF Trigger
      <4> QED BY <3>4, <4>2, Zenon
    <3> HIDE DEF u
    <3>6. /\ DOMAIN t = Parts /\ t = [p \in DOMAIN t |-> t[p]] /\ t.rules = m.rules /\ t.dedup = m.dedup
          /\ t.sent = m.sent /\ t.fired = m.fired /\ t.recent = [m.recent EXCEPT ![u] = W]
      BY <3>3, <3>5 DEF Parts
    <3>7. Sound(t) /\ OnlyLast(s, t, r)
      BY <1>4, <3>1, <3>3, <3>6
    <3> QED BY <3>3, <3>6, <3>7
  <2> QED BY <2>4, <2>5
<1> QED BY <1>5, <1>6, <1>7

(* The candidates of a rule have positions; an ask comes after bids, and only after them.       *)
LEMMA CandidatesHavePositions ==
  ASSUME now \in Times, NEW o \in Market, NEW r \in RuleIds
  PROVE  /\ DOMAIN Candidates(r, o) \subseteq Nat /\ DOMAIN AskCandidates(r, o) \subseteq Nat
         /\ \A h \in DOMAIN AskCandidates(r, o) : AskCandidates(r, o)[h][2] = "ask"
         /\ DOMAIN AskCandidates(r, o) # {} =>
              \A h \in DOMAIN Candidates(r, o) : Candidates(r, o)[h][2] = "bid"
<1>1. o \in Observations
  BY AlertsAssumption
<1>2. o.kind \in {"tick", "bar", "absorption", "book"}
  BY <1>1 DEF Observations
<1>3. \A met \in BOOLEAN : \A key : DOMAIN One(met, key) \subseteq Nat
  BY DEF One
<1>4. DOMAIN << >> \subseteq Nat /\ DOMAIN << >> = {}
  OBVIOUS
<1>5. CASE o.kind = "tick"
  <2>1. DOMAIN TickKeys(r, o) \subseteq Nat
    BY <1>3, <1>4 DEF TickKeys, One
  <2> QED BY <1>4, <1>5, <2>1 DEF Candidates, AskCandidates
<1>6. CASE o.kind = "bar"
  <2>1. DOMAIN BarKeys(r, o) \subseteq Nat
    BY <1>3, <1>4 DEF BarKeys, One
  <2> QED BY <1>4, <1>6, <2>1 DEF Candidates, AskCandidates
<1>7. CASE o.kind = "absorption"
  <2>1. DOMAIN AbsorptionKeys(r, o) \subseteq Nat
    BY <1>3, <1>4 DEF AbsorptionKeys, One
  <2> QED BY <1>4, <1>7, <2>1 DEF Candidates, AskCandidates
<1>8. CASE o.kind = "book"
  <2>1. o.bids \in Seq(Orders) /\ o.asks \in Seq(Orders)
    BY <1>1, <1>8 DEF Observations
  <2>2. DOMAIN o.bids \subseteq Nat /\ DOMAIN o.asks \subseteq Nat
    BY <2>1
  <2>3. ASSUME NEW q, DOMAIN q \subseteq Nat, NEW side
        PROVE  /\ DOMAIN WallKeys(r, q, side) \subseteq Nat
               /\ \A h \in DOMAIN WallKeys(r, q, side) : WallKeys(r, q, side)[h][2] = side
    <3>1. CASE rules[r].type = "LIQUIDITY_WALL"
      BY <2>3, <3>1 DEF WallKeys, Walls
    <3>2. CASE rules[r].type # "LIQUIDITY_WALL"
      BY <1>4, <3>2 DEF WallKeys
    <3> QED BY <3>1, <3>2
  <2>4. Candidates(r, o) = WallKeys(r, o.bids, "bid") /\ AskCandidates(r, o) = WallKeys(r, o.asks, "ask")
    BY <1>8 DEF Candidates, AskCandidates
  <2> QED BY <2>2, <2>3, <2>4
<1> QED BY <1>2, <1>5, <1>6, <1>7, <1>8

(* One rule: that it may trigger means that its alerts are a cooldown old.                      *)
LEMMA RuleIsSound ==
  ASSUME now \in Times, boot \in 1..2, NEW s, Sound(s), NEW r \in RuleIds, rules[r] \in Rules,
         s.rules[r] = rules[r], NEW o \in Market, NEW disk \in BOOLEAN,
         NEW t, t = EvaluateRule(s, r, o, disk)
  PROVE  Sound(t) /\ OnlyLast(s, t, r)
<1> DEFINE first == Candidates(r, o)
           asks == AskCandidates(r, o)
           m == FireFirst(s, r, first, disk)
           F == s.fired
<1>1. CASE ~CanTrigger(rules[r])
  <2>1. t = s
    BY <1>1 DEF EvaluateRule
  <2> QED BY <2>1 DEF OnlyLast
<1>2. CASE CanTrigger(rules[r])
  <2>1. t = FireFirst(m, r, asks, disk)
    BY <1>2 DEF EvaluateRule
  <2>2. /\ DOMAIN first \subseteq Nat /\ DOMAIN asks \subseteq Nat
        /\ \A h \in DOMAIN asks : asks[h][2] = "ask"
        /\ DOMAIN asks # {} => \A h \in DOMAIN first : first[h][2] = "bid"
    BY CandidatesHavePositions
  <2> HIDE DEF first, asks
  <2>3. \A i \in DOMAIN F : F[i].rule = r /\ F[i].saved => now - F[i].at >= rules[r].cooldown
    <3> SUFFICES ASSUME NEW i \in DOMAIN F, F[i].rule = r, F[i].saved
                 PROVE  now - F[i].at >= rules[r].cooldown
      OBVIOUS
    <3>1. Written(s.rules, F) /\ Typed(s.rules, s.dedup, s.recent, s.sent, F)
      BY DEF Sound, Good
    <3>2. rules[r].last \in Times /\ F[i].at <= rules[r].last
      BY <3>1, AssumedOfAlerts DEF Written
    <3>3. now - rules[r].last >= rules[r].cooldown
      BY <1>2, <3>2, AssumedOfAlerts DEF CanTrigger
    <3>4. F[i].at \in Nat /\ rules[r].last \in Nat /\ now \in Nat /\ rules[r].cooldown \in Nat
      <4>1. F[i].at \in 1..now
        BY <3>1 DEF Typed
      <4>2. rules[r].cooldown \in Cooldowns
        BY DEF Rules
      <4> QED BY <3>2, <4>1, <4>2, AssumedOfAlerts
    <3> QED BY <3>2, <3>3, <3>4
  <2>4. Quiet(s, r, first)
    BY <2>3 DEF Quiet
  <2>5. /\ Sound(m) /\ OnlyLast(s, m, r)
        /\ \/ m.fired = s.fired
           \/ \E h \in DOMAIN first : m.fired = Append(s.fired, AlertOf(r, first[h], disk))
    BY <2>2, <2>4, SideIsSound
  <2> HIDE DEF m
  <2>6. m.rules[r] \in Rules
    BY <2>5 DEF OnlyLast
  <2>7. CASE DOMAIN asks = {}
    <3>1. t = m
      BY <2>1, <2>7 DEF FireFirst
    <3> QED BY <2>5, <3>1
  <2>8. CASE DOMAIN asks # {}
    <3>1. ASSUME m.fired = s.fired PROVE Quiet(m, r, asks)
      BY <2>3, <3>1 DEF Quiet
    <3>2. ASSUME m.fired # s.fired PROVE Quiet(m, r, asks)
      <4>1. PICK h \in DOMAIN first : m.fired = Append(F, AlertOf(r, first[h], disk))
        BY <2>5, <3>2
      <4>2. PICK a : a = AlertOf(r, first[h], disk)
        OBVIOUS
      <4>3. a.at = now /\ a.key = first[h] /\ first[h][2] = "bid"
        BY <2>2, <2>8, <4>2 DEF AlertOf
      <4>4. PICK X : F \in Seq(X)
        BY DEF Sound, Good, Typed
      <4>5. PICK G : G = F
        OBVIOUS
      <4>6. /\ Append(G, a) \in Seq(X \cup {a}) /\ Len(G) \in Nat /\ DOMAIN G = 1..Len(G)
            /\ DOMAIN Append(G, a) = 1..Len(G) + 1 /\ Append(G, a)[Len(G) + 1] = a
            /\ \A i \in 1..Len(G) : Append(G, a)[i] = G[i]
        BY <4>4, <4>5, AlertAppended
      <4>7. Len(Append(G, a)) = Len(G) + 1
        BY <4>4, <4>5
      <4>8. PICK H : H = Append(G, a)
        OBVIOUS
      <4>9. H = m.fired
        BY <4>1, <4>2, <4>5, <4>8
      <4>10. ASSUME NEW i \in DOMAIN H, H[i].rule = r, H[i].saved
             PROVE  \/ now - H[i].at >= rules[r].cooldown
                    \/ /\ i = Len(H) /\ H[i].at = now /\ H[i].key[2] = "bid"
                       /\ \A g \in DOMAIN asks : asks[g][2] = "ask"
        <5>1. CASE i = Len(G) + 1
          <6>1. i = Len(H) /\ H[i] = a
            BY <4>6, <4>7, <4>8, <5>1
          <6> QED BY <2>2, <4>3, <6>1
        <5>2. CASE i # Len(G) + 1
          <6>1. i \in DOMAIN F /\ H[i] = F[i]
            BY <4>5, <4>6, <4>8, <5>2
          <6>2. F[i].rule = r /\ F[i].saved
            BY <4>10, <6>1
          <6>3. now - F[i].at >= rules[r].cooldown
            BY <2>3, <6>1, <6>2
          <6> QED BY <6>1, <6>3
        <5> QED BY <5>1, <5>2
      <4> QED BY <4>9, <4>10 DEF Quiet
    <3>3. Quiet(m, r, asks)
      BY <3>1, <3>2
    <3>4. Sound(t) /\ OnlyLast(m, t, r)
      BY <2>1, <2>2, <2>5, <2>6, <3>3, SideIsSound
    <3> QED BY <2>5, <3>4 DEF OnlyLast
  <2> QED BY <2>7, <2>8
<1> QED BY <1>1, <1>2

(* One evaluation comes to an end, one rule after the other.                                    *)
LEMMA PassesAreMade ==
  ASSUME NEW order, Len(order) \in Nat, NEW o, NEW disk
  PROVE  /\ Passes(order, o, disk)[0] = Current
         /\ \A i \in 1..Len(order) :
              Passes(order, o, disk)[i] = EvaluateRule(Passes(order, o, disk)[i - 1], order[i], o, disk)
<1> DEFINE n == Len(order)
           step(before, i) == IF i = 0 THEN Current ELSE EvaluateRule(before, order[i], o, disk)
           made(f, m) == f = [i \in 0..m |-> step(f[i - 1], i)]
           Bad == {m \in Nat : ~\E f : made(f, m)}
<1>1. Bad = {}
  <2> SUFFICES ASSUME Bad # {} PROVE FALSE
    OBVIOUS
  <2>1. PICK m \in Bad : \A y \in Bad : m <= y
    <3>1. Bad \in SUBSET Nat
      OBVIOUS
    <3> HIDE DEF Bad
    <3> QED BY <3>1, LeastOf
  <2>2. m \in Nat /\ ~\E f : made(f, m)
    OBVIOUS
  <2>3. m # 0
    <3> SUFFICES ASSUME m = 0 PROVE FALSE
      OBVIOUS
    <3> DEFINE f == [i \in 0..0 |-> Current]
    <3>1. made(f, 0)
      OBVIOUS
    <3> HIDE DEF f, made
    <3> QED BY <2>2, <3>1
  <2>4. m - 1 \in Nat /\ ~(m <= m - 1)
    BY <2>2, <2>3
  <2>5. m - 1 \notin Bad
    <3> HIDE DEF Bad
    <3> QED BY <2>1, <2>4
  <2>6. PICK f : made(f, m - 1)
    <3> HIDE DEF made
    <3> QED BY <2>4, <2>5
  <2> DEFINE g == [i \in 0..m |-> IF i = m THEN step(f[m - 1], m) ELSE f[i]]
  <2>7. ASSUME NEW i \in 0..m PROVE g[i] = step(g[i - 1], i)
    <3>1. CASE i = m
      <4>1. g[i - 1] = f[m - 1] /\ g[i] = step(f[m - 1], m)
        BY <2>4, <3>1
      <4> HIDE DEF g, step
      <4> QED BY <3>1, <4>1
    <3>2. CASE i # m
      <4>1. i \in 0..m - 1 /\ g[i] = f[i] /\ (i # 0 => g[i - 1] = f[i - 1])
        BY <2>2, <3>2
      <4>2. f[i] = step(f[i - 1], i)
        <5> HIDE DEF g, step
        <5> QED BY <2>6, <4>1
      <4> QED BY <4>1, <4>2
    <3> QED BY <3>1, <3>2
  <2>8. g = [i \in 0..m |-> g[i]]
    OBVIOUS
  <2> HIDE DEF g, step
  <2>9. made(g, m)
    BY <2>7, <2>8
  <2> HIDE DEF made
  <2> QED BY <2>2, <2>9
<1>2. \E f : made(f, n)
  <2> HIDE DEF made
  <2> QED BY <1>1
<1> DEFINE p == Passes(order, o, disk)
<1>3. made(p, n)
  <2>1. p = CHOOSE f : made(f, n)
    BY DEF Passes
  <2> HIDE DEF made, p
  <2> QED BY <1>2, <2>1
<1> HIDE DEF p
<1>4. \A i \in 0..n : p[i] = step(p[i - 1], i)
  <2> HIDE DEF step
  <2> QED BY <1>3
<1>5. p[0] = Current /\ \A i \in 1..n : p[i] = EvaluateRule(p[i - 1], order[i], o, disk)
  BY <1>4
<1> QED BY <1>5 DEF p

(* The rows are of the same rules and users.                                                    *)
SameRules(R) ==
  \A q \in RuleIds :
    IF rules[q] \in {None, Deleted} THEN R[q] = rules[q]
    ELSE R[q] \in Rules /\ R[q].user = rules[q].user

LEMMA EvaluationIsSound ==
  ASSUME AlertsRareInv, NEW o \in Market, NEW disk \in BOOLEAN,
         NEW order \in SetToSeqs({r \in Existing : rules[r].enabled})
  PROVE  LET end == Passes(order, o, disk)[Len(order)] IN Sound(end) /\ SameRules(end.rules)
<1> DEFINE S == {r \in Existing : rules[r].enabled}
           n == Len(order)
           p == Passes(order, o, disk)
           Holds(i) == /\ Sound(p[i]) /\ SameRules(p[i].rules)
                       /\ \A q \in RuleIds : (\A k \in 1..i : order[k] # q) => p[i].rules[q] = rules[q]
           Bad == {i \in Nat : i <= n /\ ~Holds(i)}
<1>1. /\ now \in Times /\ boot \in 1..2 /\ Good(rules, dedup, recent, sent, fired)
      /\ rules \in [RuleIds -> Rules \cup {None, Deleted}] /\ IsFiniteSet(Existing)
  BY DEF AlertsRareInv, Good, Typed
<1>2. IsFiniteSet(S) /\ Cardinality(S) \in Nat
  <2>1. IsFiniteSet(S)
    BY <1>1, FS_Subset
  <2> QED BY <2>1, FS_CardinalityType
<1>3. /\ order \in [1..Cardinality(S) -> S]
      /\ \A i, j \in 1..Cardinality(S) : i # j => order[i] # order[j]
  BY DEF SetToSeqs
<1>4. \A r \in S : r \in RuleIds /\ rules[r] \in Rules
  BY <1>1 DEF Existing
<1> HIDE DEF S
<1>5. /\ n \in Nat /\ \A i \in 1..n : order[i] \in RuleIds /\ rules[order[i]] \in Rules
      /\ \A i, j \in 1..n : i # j => order[i] # order[j]
  <2>1. n = Cardinality(S)
    BY <1>2, <1>3
  <2> QED BY <1>2, <1>3, <1>4, <2>1
<1>6. p[0] = Current /\ \A i \in 1..n : p[i] = EvaluateRule(p[i - 1], order[i], o, disk)
  BY <1>5, PassesAreMade
<1> HIDE DEF n, p
<1>7. Holds(0)
  <2>1. /\ DOMAIN Current = Parts /\ Current.rules = rules /\ Current.dedup = dedup
        /\ Current.recent = recent /\ Current.sent = sent /\ Current.fired = fired
        /\ Current = [x \in DOMAIN Current |-> Current[x]]
    BY DEF Current, Parts
  <2>2. Sound(Current)
    BY <1>1, <2>1 DEF Sound
  <2>3. SameRules(rules)
    BY <1>1 DEF SameRules
  <2> QED BY <1>6, <2>1, <2>2, <2>3
<1>8. ASSUME NEW i \in 1..n, Holds(i - 1) PROVE Holds(i)
  <2> DEFINE r == order[i]
  <2>1. r \in RuleIds /\ rules[r] \in Rules /\ rules[r] \notin {None, Deleted}
    BY <1>1, <1>5, AssumedOfAlerts
  <2>2. p[i - 1].rules[r] = rules[r]
    <3>1. \A k \in 1..i - 1 : order[k] # r
      BY <1>5
    <3> QED BY <1>8, <2>1, <3>1
  <2>3. p[i] = EvaluateRule(p[i - 1], r, o, disk) /\ Sound(p[i - 1])
    BY <1>6, <1>8
  <2> HIDE DEF r
  <2>4. Sound(p[i]) /\ OnlyLast(p[i - 1], p[i], r)
    BY <1>1, <2>1, <2>2, <2>3, RuleIsSound
  <2>5. SameRules(p[i].rules)
    BY <1>8, <2>1, <2>2, <2>4 DEF OnlyLast, SameRules
  <2>6. ASSUME NEW q \in RuleIds, \A k \in 1..i : order[k] # q PROVE p[i].rules[q] = rules[q]
    <3>1. q # r /\ \A k \in 1..i - 1 : order[k] # q
      BY <1>5, <2>6 DEF r
    <3>2. p[i - 1].rules[q] = rules[q]
      BY <1>8, <3>1
    <3> QED BY <2>4, <3>1, <3>2 DEF OnlyLast
  <2> QED BY <2>4, <2>5, <2>6
<1> HIDE DEF Holds
<1>9. Bad = {}
  <2> SUFFICES ASSUME Bad # {} PROVE FALSE
    OBVIOUS
  <2>1. PICK m \in Bad : \A y \in Bad : m <= y
    <3>1. Bad \in SUBSET Nat
      OBVIOUS
    <3> HIDE DEF Bad
    <3> QED BY <3>1, LeastOf
  <2>2. m \in Nat /\ m <= n /\ ~Holds(m)
    OBVIOUS
  <2>3. m # 0
    BY <1>7, <2>2
  <2>4. m \in 1..n /\ m - 1 \in Nat /\ m - 1 <= n /\ ~(m <= m - 1)
    BY <1>5, <2>2, <2>3
  <2>5. Holds(m - 1)
    BY <2>1, <2>4
  <2> QED BY <1>8, <2>2, <2>4, <2>5
<1>10. Holds(n)
  BY <1>5, <1>9
<1> QED BY <1>10 DEF Holds, n, p

(* What an action that leaves the time and the process alone has to say.                        *)
LEMMA GoodWhileStill ==
  ASSUME UNCHANGED <<now, boot>>, Good(rules', dedup', recent', sent', fired')
  PROVE  Good(rules, dedup, recent, sent, fired)'
BY DEF Good, Typed, Written, Cool, Remembered, Known, Once, Counting, InTheLimit

(* An action on the rules that keeps when each of them fired last.                              *)
LEMMA RulesAreEdited ==
  ASSUME AlertsRareInv, UNCHANGED <<now, memory>>,
         rules' \in [RuleIds -> Rules \cup {None, Deleted}],
         \A r \in RuleIds : \/ rules[r] = None \/ rules'[r] = Deleted
                            \/ rules'[r] = rules[r]
                            \/ rules[r] \in Rules /\ rules'[r] \in Rules /\ rules'[r].last = rules[r].last
  PROVE  Good(rules, dedup, recent, sent, fired)'
<1>1. /\ Typed(rules, dedup, recent, sent, fired) /\ Written(rules, fired) /\ now \in Times
      /\ Cool(fired) /\ Remembered(dedup, fired) /\ Once(fired) /\ Counting(recent, sent) /\ InTheLimit(sent)
  BY DEF AlertsRareInv, Good
<1>2. Typed(rules', dedup, recent, sent, fired)
  BY <1>1 DEF Typed
<1>3. ASSUME NEW i \in DOMAIN fired, fired[i].saved
      PROVE  \/ rules'[fired[i].rule] = Deleted
             \/ /\ rules'[fired[i].rule] \in Rules /\ rules'[fired[i].rule].last \in Times
                /\ fired[i].at <= rules'[fired[i].rule].last
  <2>1. fired[i].rule \in RuleIds
    BY <1>1 DEF Typed
  <2>2. \/ rules[fired[i].rule] = Deleted
        \/ /\ rules[fired[i].rule] \in Rules /\ rules[fired[i].rule].last \in Times
           /\ fired[i].at <= rules[fired[i].rule].last
    BY <1>1, <1>3 DEF Written
  <2>3. None \notin Rules /\ Deleted \notin Rules /\ None # Deleted
    BY <1>1, AssumedOfAlerts
  <2> QED BY <2>1, <2>2, <2>3
<1>4. Written(rules', fired)
  BY <1>3 DEF Written
<1>5. Good(rules', dedup', recent', sent', fired')
  BY <1>1, <1>2, <1>4 DEF Good, memory
<1> QED BY <1>5, GoodWhileStill DEF memory

(* The rules of a user after one more, and after an edit.                                       *)
LEMMA OneMoreRule ==
  ASSUME AlertsRareInv, NEW c \in calls, CreateRule(c)
  PROVE  /\ Good(rules, dedup, recent, sent, fired)' /\ IsFiniteSet(Existing')
         /\ \A u \in Users : Cardinality(OfUser(u)') > Cardinality(OfUser(u)) =>
              c.user = u /\ Cardinality(OfUser(u)') <= MaxRules[c.plan]
<1>1. /\ rules \in [RuleIds -> Rules \cup {None, Deleted}] /\ IsFiniteSet(Existing)
      /\ c \in [user : Users, plan : Plans] /\ now \in Times
  BY DEF AlertsRareInv, Good, Typed
<1>2. CASE rules' = rules
  <2>1. Good(rules, dedup, recent, sent, fired)'
    BY <1>1, <1>2, RulesAreEdited DEF CreateRule
  <2>2. Existing' = Existing /\ \A u \in Users : OfUser(u)' = OfUser(u)
    BY <1>2 DEF Existing, OfUser
  <2>3. \A u \in Users : Cardinality(OfUser(u)) \in Nat
    <3> TAKE u \in Users
    <3>1. IsFiniteSet(OfUser(u))
      BY <1>1, FS_Subset DEF OfUser
    <3> QED BY <3>1, FS_CardinalityType
  <2>4. \A u \in Users : ~(Cardinality(OfUser(u)') > Cardinality(OfUser(u)))
    BY <2>2, <2>3
  <2> QED BY <1>1, <2>1, <2>2, <2>4
<1>3. CASE rules' # rules
  <2>1. PICK r \in RuleIds, type \in Types, threshold \in Thresholds, cooldown \in Cooldowns,
             enabled \in BOOLEAN :
               /\ rules[r] = None /\ Fits(c)
               /\ rules' = [rules EXCEPT ![r] =
                    [user |-> c.user, type |-> type, threshold |-> threshold,
                     cooldown |-> cooldown, enabled |-> enabled, last |-> None]]
    BY <1>3 DEF CreateRule
  <2> DEFINE row == [user |-> c.user, type |-> type, threshold |-> threshold,
                     cooldown |-> cooldown, enabled |-> enabled, last |-> None]
  <2>2. row \in Rules /\ row.user = c.user
    BY <1>1 DEF Rules
  <2>3. row \notin {None, Deleted}
    BY <1>1, <2>2, AssumedOfAlerts
  <2> HIDE DEF row
  <2>4. rules' = [rules EXCEPT ![r] = row]
    BY <2>1 DEF row
  <2>5. rules'[r] = row /\ (\A q \in RuleIds : q # r => rules'[q] = rules[q])
        /\ rules' \in [RuleIds -> Rules \cup {None, Deleted}]
    BY <1>1, <2>2, <2>4
  <2>6. Good(rules, dedup, recent, sent, fired)'
    <3>1. UNCHANGED <<now, memory>>
      BY DEF CreateRule
    <3> QED BY <2>1, <2>5, <3>1, RulesAreEdited
  <2>7. Existing' = Existing \cup {r} /\ r \notin Existing
    BY <1>1, <2>1, <2>3, <2>5 DEF Existing
  <2>8. IsFiniteSet(Existing')
    BY <1>1, <2>7, FS_AddElement
  <2>9. \A u \in Users : IsFiniteSet(OfUser(u)) /\ Cardinality(OfUser(u)) \in Nat
    <3> TAKE u \in Users
    <3>1. IsFiniteSet(OfUser(u))
      BY <1>1, FS_Subset DEF OfUser
    <3> QED BY <3>1, FS_CardinalityType
  <2>10. ASSUME NEW u \in Users, u # c.user PROVE OfUser(u)' = OfUser(u)
    BY <2>2, <2>5, <2>7, <2>10 DEF OfUser, Existing
  <2>11. c.user \in Users /\ OfUser(c.user)' = OfUser(c.user) \cup {r} /\ r \notin OfUser(c.user)
    <3>1. r \notin OfUser(c.user) /\ c.user \in Users
      BY <1>1, <2>7 DEF OfUser
    <3>2. OfUser(c.user)' = {q \in Existing' : rules'[q].user = c.user}
      BY DEF OfUser
    <3>3. \A q \in Existing : q \in RuleIds /\ q # r
      BY <2>7 DEF Existing
    <3> QED BY <2>2, <2>5, <2>7, <3>1, <3>2, <3>3 DEF OfUser
  <2>12. Cardinality(OfUser(c.user)') = Cardinality(OfUser(c.user)) + 1
    BY <2>9, <2>11, FS_AddElement
  <2>13. Cardinality(OfUser(c.user)) < MaxRules[c.plan] /\ MaxRules[c.plan] \in Nat
    BY <1>1, <2>1, AlertsAssumption DEF Fits
  <2>14. Cardinality(OfUser(c.user)') <= MaxRules[c.plan]
    BY <2>9, <2>11, <2>12, <2>13
  <2>15. \A u \in Users : u # c.user => ~(Cardinality(OfUser(u)') > Cardinality(OfUser(u)))
    BY <2>9, <2>10
  <2> QED BY <2>6, <2>8, <2>14, <2>15
<1> QED BY <1>2, <1>3

LEMMA EvaluationStep ==
  ASSUME AlertsRareInv, NEW o \in Market, Evaluate(o)
  PROVE  AlertsRareInv' /\ Existing' = Existing /\ \A u \in Users : OfUser(u)' = OfUser(u)
<1>1. PICK disk \in BOOLEAN, order \in SetToSeqs({r \in Existing : rules[r].enabled}) :
        LET end == Passes(order, o, disk)[Len(order)]
        IN  /\ rules' = end.rules /\ dedup' = end.dedup /\ recent' = end.recent
            /\ sent' = end.sent /\ fired' = end.fired
            /\ UNCHANGED <<now, calls, boot>>
  BY DEF Evaluate
<1>2. PICK end : end = Passes(order, o, disk)[Len(order)]
  OBVIOUS
<1>3. Sound(end) /\ SameRules(end.rules)
  BY <1>2, EvaluationIsSound
<1>4. /\ rules' = end.rules /\ dedup' = end.dedup /\ recent' = end.recent
      /\ sent' = end.sent /\ fired' = end.fired /\ UNCHANGED <<now, calls, boot>>
  BY <1>1, <1>2
<1>5. Good(rules', dedup', recent', sent', fired')
  BY <1>3, <1>4 DEF Sound
<1>6. Good(rules, dedup, recent, sent, fired)'
  BY <1>4, <1>5, GoodWhileStill
<1>7. /\ now \in Times /\ boot \in 1..2 /\ calls \subseteq [user : Users, plan : Plans]
      /\ IsFiniteSet(Existing)
  BY DEF AlertsRareInv
<1>8. \A q \in RuleIds : IF rules[q] \in {None, Deleted} THEN rules'[q] = rules[q]
                         ELSE rules'[q] \notin {None, Deleted} /\ rules'[q].user = rules[q].user
  BY <1>3, <1>4, <1>7, AssumedOfAlerts DEF SameRules
<1>9. Existing' = Existing
  BY <1>8 DEF Existing
<1>10. \A u \in Users : OfUser(u)' = OfUser(u)
  BY <1>8, <1>9 DEF OfUser, Existing
<1>11. AlertsRareInv'
  BY <1>4, <1>6, <1>7, <1>9 DEF AlertsRareInv
<1> QED BY <1>9, <1>10, <1>11

LEMMA EditStep ==
  ASSUME AlertsRareInv, NEW r \in RuleIds, UpdateRule(r) \/ DeleteRule(r)
  PROVE  /\ AlertsRareInv' /\ Existing' \subseteq Existing
         /\ \A u \in Users : OfUser(u)' \subseteq OfUser(u)
<1>1. /\ rules \in [RuleIds -> Rules \cup {None, Deleted}] /\ IsFiniteSet(Existing)
      /\ now \in Times /\ boot \in 1..2 /\ calls \subseteq [user : Users, plan : Plans]
  BY DEF AlertsRareInv, Good, Typed
<1>2. UNCHANGED <<now, calls, memory>> /\ UNCHANGED boot /\ rules[r] \in Rules
  BY <1>1 DEF UpdateRule, DeleteRule, memory, Existing
<1>3. \A q \in RuleIds : q # r => rules'[q] = rules[q]
  BY <1>1 DEF UpdateRule, DeleteRule
<1>4. /\ rules' \in [RuleIds -> Rules \cup {None, Deleted}]
      /\ \/ rules'[r] = Deleted
         \/ /\ rules'[r] \in Rules /\ rules'[r].last = rules[r].last /\ rules'[r].user = rules[r].user
  <2>1. CASE DeleteRule(r)
    BY <1>1, <2>1 DEF DeleteRule
  <2>2. CASE UpdateRule(r)
    <3>1. PICK threshold \in Thresholds, cooldown \in Cooldowns, enabled \in BOOLEAN :
            rules' = [rules EXCEPT ![r].threshold = threshold, ![r].cooldown = cooldown,
                                   ![r].enabled = enabled]
      BY <2>2 DEF UpdateRule
    <3> DEFINE row == [rules[r] EXCEPT !.threshold = threshold, !.cooldown = cooldown, !.enabled = enabled]
    <3>2. row \in Rules /\ row.last = rules[r].last /\ row.user = rules[r].user
      BY <1>2 DEF Rules
    <3>3. rules'[r] = row /\ rules' = [rules EXCEPT ![r] = row]
      BY <1>1, <3>1
    <3> HIDE DEF row
    <3> QED BY <1>1, <3>2, <3>3
  <2> QED BY <2>1, <2>2
<1>5. Good(rules, dedup, recent, sent, fired)'
  BY <1>2, <1>3, <1>4, RulesAreEdited
<1>6. Existing' \subseteq Existing
  BY <1>1, <1>2, <1>3, AssumedOfAlerts DEF Existing
<1>7. \A u \in Users : OfUser(u)' \subseteq OfUser(u)
  <2> TAKE u \in Users
  <2>1. ASSUME NEW q \in OfUser(u)' PROVE q \in OfUser(u)
    <3>1. q \in Existing' /\ rules'[q].user = u /\ q \in RuleIds /\ rules'[q] # Deleted
      BY DEF OfUser, Existing
    <3>2. rules[q].user = u
      BY <1>3, <1>4, <3>1
    <3> QED BY <1>6, <3>1, <3>2 DEF OfUser
  <2> QED BY <2>1
<1>8. IsFiniteSet(Existing')
  BY <1>1, <1>6, FS_Subset
<1> QED BY <1>1, <1>2, <1>5, <1>6, <1>7, <1>8 DEF AlertsRareInv

LEMMA TimePasses ==
  ASSUME AlertsRareInv, Tick
  PROVE  AlertsRareInv'
<1>1. /\ Typed(rules, dedup, recent, sent, fired) /\ Written(rules, fired) /\ now \in Times
      /\ Cool(fired) /\ Remembered(dedup, fired) /\ Once(fired) /\ Counting(recent, sent) /\ InTheLimit(sent)
      /\ IsFiniteSet(Existing) /\ boot \in 1..2 /\ calls \subseteq [user : Users, plan : Plans]
  BY DEF AlertsRareInv, Good
<1>2. now' = now + 1 /\ now' \in Times /\ UNCHANGED <<calls, rules, dedup, recent, sent, fired, boot>>
  BY <1>1, AlertsAssumption DEF Tick, Times, memory
<1>3. now \in Nat \ {0} /\ DedupTtl \in Nat /\ LimitTime \in Nat
  BY <1>1, AssumedOfAlerts
<1>4. Typed(rules, dedup, recent, sent, fired)'
  <2>1. /\ \A k \in DOMAIN dedup : dedup[k] \in 1..now'
        /\ \A i \in DOMAIN fired : fired[i].at \in 1..now'
    BY <1>1, <1>2, <1>3 DEF Typed
  <2> QED BY <1>1, <1>2, <2>1 DEF Typed
<1>5. Remembered(dedup, fired)'
  <2> SUFFICES ASSUME NEW i \in DOMAIN fired, fired[i].boot = boot
               PROVE  now' - fired[i].at > DedupTtl \/ (fired[i].key \in DOMAIN dedup /\ fired[i].at <= dedup[fired[i].key])
    BY <1>2 DEF Remembered, Known
  <2>1. fired[i].at \in Nat
    BY <1>1, <1>3 DEF Typed
  <2>2. Known(dedup, fired[i].key, fired[i].at)
    BY <1>1 DEF Remembered
  <2> QED BY <1>2, <1>3, <2>1, <2>2 DEF Known
<1>6. Counting(recent, sent)'
  <2> SUFFICES ASSUME NEW u \in Users, NEW i \in DOMAIN sent[u]
               PROVE  sent[u][i] <= now' /\ (now' - sent[u][i] < LimitTime => i \in recent[u])
    BY <1>1, <1>2 DEF Counting
  <2>1. sent[u][i] \in Nat
    <3>1. sent[u] \in Seq(Nat)
      BY <1>1 DEF Typed
    <3> QED BY <3>1
  <2>2. sent[u][i] <= now /\ (now - sent[u][i] < LimitTime => i \in recent[u])
    BY <1>1 DEF Counting
  <2> QED BY <1>2, <1>3, <2>1, <2>2
<1>7. Written(rules, fired)' /\ Cool(fired)' /\ Once(fired)' /\ InTheLimit(sent)' /\ Existing' = Existing
  BY <1>1, <1>2 DEF Written, Cool, Once, InTheLimit, Existing
<1> QED BY <1>1, <1>2, <1>4, <1>5, <1>6, <1>7 DEF AlertsRareInv, Good

(* A new process has sent nothing yet.                                                          *)
LEMMA ProcessBegins ==
  ASSUME AlertsRareInv, Restart
  PROVE  AlertsRareInv'
<1>1. /\ Typed(rules, dedup, recent, sent, fired) /\ Written(rules, fired) /\ now \in Times
      /\ Cool(fired) /\ Once(fired) /\ IsFiniteSet(Existing)
  BY DEF AlertsRareInv, Good
<1>2. /\ boot = 1 /\ boot' = 2 /\ calls' = {} /\ dedup' = <<>> /\ recent' = [u \in Users |-> {}]
      /\ sent' = [u \in Users |-> <<>>] /\ UNCHANGED <<now, rules, fired>>
  BY DEF Restart
<1>3. \A i \in DOMAIN fired : fired[i].boot = 1
  BY <1>1, <1>2 DEF Typed
<1>4. DOMAIN dedup' = {} /\ \A u \in Users : DOMAIN sent'[u] = {} /\ recent'[u] = {}
  BY <1>2
<1>5. Typed(rules, dedup, recent, sent, fired)'
  <2>1. sent' \in [Users -> Seq(Nat)] /\ recent' \in [Users -> SUBSET Nat]
    BY <1>2
  <2>2. \A i \in DOMAIN fired : fired[i].boot \in 1..boot'
    BY <1>2, <1>3
  <2> QED BY <1>1, <1>2, <1>4, <2>1, <2>2 DEF Typed
<1>6. Remembered(dedup, fired)'
  BY <1>2, <1>3 DEF Remembered
<1>7. Counting(recent, sent)' /\ InTheLimit(sent)'
  BY <1>4 DEF Counting, InTheLimit
<1>8. Written(rules, fired)' /\ Cool(fired)' /\ Once(fired)' /\ Existing' = Existing
  BY <1>1, <1>2 DEF Written, Cool, Once, Existing
<1> QED BY <1>1, <1>2, <1>5, <1>6, <1>7, <1>8 DEF AlertsRareInv, Good

LEMMA AlertsBegin == AlertsInit => AlertsRareInv
<1> SUFFICES ASSUME AlertsInit PROVE AlertsRareInv
  OBVIOUS
<1>1. now \in Times /\ boot \in 1..2 /\ calls \subseteq [user : Users, plan : Plans]
  BY AlertsAssumption DEF AlertsInit, Times
<1>2. Existing = {} /\ IsFiniteSet(Existing)
  <2>1. Existing = {}
    BY DEF AlertsInit, Existing
  <2> QED BY <2>1, FS_EmptySet
<1>3. DOMAIN fired = {} /\ DOMAIN dedup = {} /\ \A u \in Users : DOMAIN sent[u] = {} /\ recent[u] = {}
  BY DEF AlertsInit
<1>4. Typed(rules, dedup, recent, sent, fired)
  <2>1. fired \in Seq(Nat)
    BY DEF AlertsInit
  <2> QED BY <1>3, <2>1 DEF AlertsInit, Typed
<1>5. /\ Written(rules, fired) /\ Cool(fired) /\ Remembered(dedup, fired) /\ Once(fired)
      /\ Counting(recent, sent) /\ InTheLimit(sent)
  BY <1>3 DEF Written, Cool, Remembered, Once, Counting, InTheLimit
<1> QED BY <1>1, <1>2, <1>4, <1>5 DEF AlertsRareInv, Good

(* One step: the invariant is kept, and the rules of a user become more only within a plan.     *)
LEMMA AlertsStep ==
  ASSUME AlertsRareInv, AlertsNext
  PROVE  /\ AlertsRareInv'
         /\ \A u \in Users : Cardinality(OfUser(u)') > Cardinality(OfUser(u)) =>
              \E c \in calls : c.user = u /\ Cardinality(OfUser(u)') <= MaxRules[c.plan]
<1>1. \A u \in Users : IsFiniteSet(OfUser(u)) /\ Cardinality(OfUser(u)) \in Nat
  <2> TAKE u \in Users
  <2>1. IsFiniteSet(OfUser(u))
    BY FS_Subset DEF OfUser, AlertsRareInv
  <2> QED BY <2>1, FS_CardinalityType
<1>2. ASSUME \A u \in Users : OfUser(u)' \subseteq OfUser(u)
      PROVE  \A u \in Users : ~(Cardinality(OfUser(u)') > Cardinality(OfUser(u)))
  <2> TAKE u \in Users
  <2>1. PICK X : X = OfUser(u)'
    OBVIOUS
  <2>2. Cardinality(X) <= Cardinality(OfUser(u)) /\ Cardinality(X) \in Nat
    <3>1. X \subseteq OfUser(u)
      BY <1>2, <2>1
    <3>2. IsFiniteSet(X) /\ Cardinality(X) <= Cardinality(OfUser(u))
      BY <1>1, <3>1, FS_Subset
    <3> QED BY <3>2, FS_CardinalityType
  <2> QED BY <1>1, <2>1, <2>2
<1>3. ASSUME NEW u \in Users, NEW plan \in Plans, PostRule(u, plan) PROVE AlertsRareInv'
  <2>1. calls' \subseteq [user : Users, plan : Plans] /\ UNCHANGED <<now, rules, dedup, recent, sent, fired, boot>>
    BY <1>3 DEF PostRule, AlertsRareInv, memory
  <2>2. Good(rules', dedup', recent', sent', fired') /\ Existing' = Existing
    BY <2>1 DEF AlertsRareInv, Existing
  <2>3. Good(rules, dedup, recent, sent, fired)'
    BY <2>1, <2>2, GoodWhileStill
  <2> QED BY <2>1, <2>2, <2>3 DEF AlertsRareInv
<1>4. ASSUME NEW c \in calls, CreateRule(c) PROVE AlertsRareInv'
  <2>1. Good(rules, dedup, recent, sent, fired)' /\ IsFiniteSet(Existing')
    BY <1>4, OneMoreRule
  <2>2. calls' \subseteq calls /\ UNCHANGED <<now, boot>>
    BY <1>4 DEF CreateRule, memory
  <2> QED BY <2>1, <2>2 DEF AlertsRareInv
<1>5. ASSUME UNCHANGED rules PROVE \A u \in Users : OfUser(u)' \subseteq OfUser(u)
  BY <1>5 DEF OfUser, Existing
<1>6. CASE \E u \in Users, plan \in Plans : PostRule(u, plan)
  BY <1>2, <1>3, <1>5, <1>6 DEF PostRule
<1>7. CASE \E c \in calls : CreateRule(c)
  BY <1>4, <1>7, OneMoreRule
<1>8. CASE \E r \in RuleIds : UpdateRule(r) \/ DeleteRule(r)
  <2>1. AlertsRareInv' /\ \A u \in Users : OfUser(u)' \subseteq OfUser(u)
    BY <1>8, EditStep
  <2> QED BY <1>2, <2>1
<1>9. CASE \E o \in Market : Evaluate(o)
  <2>1. AlertsRareInv' /\ \A u \in Users : OfUser(u)' = OfUser(u)
    BY <1>9, EvaluationStep
  <2> QED BY <1>2, <2>1
<1>10. CASE Tick
  BY <1>2, <1>5, <1>10, TimePasses DEF Tick
<1>11. CASE Restart
  BY <1>2, <1>5, <1>11, ProcessBegins DEF Restart
<1> QED BY <1>6, <1>7, <1>8, <1>9, <1>10, <1>11 DEF AlertsNext

LEMMA AlertsStutter ==
  ASSUME AlertsRareInv, UNCHANGED alertsVars
  PROVE  AlertsRareInv' /\ \A u \in Users : ~(Cardinality(OfUser(u)') > Cardinality(OfUser(u)))
<1>1. UNCHANGED <<now, calls, rules, dedup, recent, sent, fired, boot>>
  BY DEF alertsVars, memory
<1>2. Good(rules', dedup', recent', sent', fired') /\ Existing' = Existing
  BY <1>1 DEF AlertsRareInv, Existing
<1>3. Good(rules, dedup, recent, sent, fired)'
  BY <1>1, <1>2, GoodWhileStill
<1>4. \A u \in Users : OfUser(u)' = OfUser(u) /\ Cardinality(OfUser(u)) \in Nat
  <2> TAKE u \in Users
  <2>1. IsFiniteSet(OfUser(u))
    BY FS_Subset DEF OfUser, AlertsRareInv
  <2> QED BY <1>1, <2>1, FS_CardinalityType DEF OfUser, Existing
<1> QED BY <1>1, <1>2, <1>3, <1>4 DEF AlertsRareInv

LEMMA AlertsRareInvMeans == AlertsRareInv => AlertsInv /\ AlertsAreRare
<1> SUFFICES ASSUME AlertsRareInv PROVE AlertsInv /\ AlertsAreRare
  OBVIOUS
<1>1. /\ Typed(rules, dedup, recent, sent, fired) /\ Cool(fired) /\ Once(fired)
      /\ Counting(recent, sent) /\ InTheLimit(sent)
      /\ now \in Times /\ boot \in 1..2 /\ calls \subseteq [user : Users, plan : Plans]
  BY DEF AlertsRareInv, Good
<1>2. AlertsAreRare
  BY <1>1 DEF AlertsAreRare, CooldownHolds, Cool, LimitHolds, InTheLimit, AnnouncedOnce, Once
<1>3. AlertsTypes
  <2>1. \A f \in Range(fired) : f.rule \in RuleIds /\ f.user \in Users /\ f.at \in 1..now
    BY <1>1 DEF Typed, Range
  <2> QED BY <1>1, <2>1 DEF AlertsTypes, Typed
<1>4. LimitRemembers
  <2> SUFFICES ASSUME NEW u \in Users
               PROVE  InLimit(Current, u) = {i \in DOMAIN sent[u] : now - sent[u][i] < LimitTime}
    BY DEF LimitRemembers
  <2>1. InLimit(Current, u) = {i \in recent[u] : now - sent[u][i] < LimitTime}
    BY DEF InLimit, Current
  <2> QED BY <1>1, <2>1 DEF Counting
<1> QED BY <1>2, <1>3, <1>4 DEF AlertsInv

(* Whatever is edited, purged or restarted, a rule is quiet for its cooldown after an alert     *)
(* that was written down, no user is sent more alerts within a minute than the limit, and no    *)
(* key is announced twice while its memory lasts (alertEngine.ts).                              *)
THEOREM AlertsAreRareTheorem == AlertsSpec => [](AlertsInv /\ AlertsAreRare)
<1>1. AlertsRareInv /\ [AlertsNext]_alertsVars => AlertsRareInv'
  BY AlertsStep, AlertsStutter
<1>2. AlertsRareInv => AlertsInv /\ AlertsAreRare
  BY AlertsRareInvMeans
<1> QED BY AlertsBegin, <1>1, <1>2, PTL DEF AlertsSpec

(* Rules become more only by a request, within the plan its user had when it came               *)
(* (AlertService.createRule), with any number of requests waiting for their bodies.             *)
THEOREM RulesWithinPlanTheorem == AlertsSpec => RulesWithinPlan
<1>1. AlertsRareInv /\ [AlertsNext]_alertsVars => AlertsRareInv'
  BY AlertsStep, AlertsStutter
<1>2. ASSUME AlertsRareInv, [AlertsNext]_alertsVars
      PROVE  [\A u \in Users : Cardinality(OfUser(u)') > Cardinality(OfUser(u)) =>
                \E c \in calls : c.user = u /\ Cardinality(OfUser(u)') <= MaxRules[c.plan]]_alertsVars
  BY <1>2, AlertsStep
<1> QED BY AlertsBegin, <1>1, <1>2, PTL DEF AlertsSpec, RulesWithinPlan

-----------------------------------------------------------------------------
(* The greatest common divisor: its equation has a solution, so CHOOSE takes one. *)

(* A solution for the pairs whose second number is at most n. *)
Divides(h, n) ==
  /\ DOMAIN h = Nat \X (0..n)
  /\ \A a \in Nat, b \in 0..n : h[<<a, b>>] = IF b = 0 THEN a ELSE h[<<b, a % b>>]

LEMMA RemainderIsLess ==
  ASSUME NEW a \in Nat, NEW b \in Nat, b # 0 PROVE a % b \in 0..(b - 1)
OBVIOUS

LEMMA SolutionsAgree ==
  ASSUME NEW m \in Nat, NEW n \in Nat, NEW g, NEW h, Divides(g, m), Divides(h, n)
  PROVE  \A a \in Nat, b \in Nat : b <= m /\ b <= n => g[<<a, b>>] = h[<<a, b>>]
<1> DEFINE Bad == {b \in Nat : b <= m /\ b <= n /\ \E a \in Nat : g[<<a, b>>] # h[<<a, b>>]}
<1>1. SUFFICES ASSUME Bad # {} PROVE FALSE
  BY <1>1
<1>2. PICK b \in Bad : \A c \in Bad : b <= c
  <2> HIDE DEF Bad
  <2>1. Bad \in SUBSET Nat
    BY DEF Bad
  <2> QED BY <1>1, <2>1, LeastOf
<1>3. PICK a \in Nat : g[<<a, b>>] # h[<<a, b>>]
  OBVIOUS
<1>4. b \in 0..m /\ b \in 0..n /\ b \in Nat
  OBVIOUS
<1>5. b # 0
  BY <1>3, <1>4 DEF Divides
<1>6. PICK r : r = a % b
  OBVIOUS
<1>7. r \in 0..(b - 1)
  BY <1>4, <1>5, <1>6, RemainderIsLess
<1>8. g[<<b, r>>] # h[<<b, r>>]
  BY <1>3, <1>4, <1>5, <1>6 DEF Divides
<1>9. r \in Nat /\ r <= m /\ r <= n /\ r < b
  BY <1>4, <1>7
<1>10. r \in Bad
  <2>1. \E c \in Nat : g[<<c, r>>] # h[<<c, r>>]
    BY <1>4, <1>8, Zenon
  <2> QED BY <1>9, <2>1, Zenon
<1>11. b <= r
  <2> HIDE DEF Bad
  <2> QED BY <1>2, <1>10
<1> QED BY <1>4, <1>9, <1>11

LEMMA SolutionsExist == \A n \in Nat : \E h : Divides(h, n)
<1> DEFINE Bad == {n \in Nat : ~\E h : Divides(h, n)}
<1>1. SUFFICES ASSUME Bad # {} PROVE FALSE
  BY <1>1
<1>2. PICK n \in Bad : \A c \in Bad : n <= c
  <2> HIDE DEF Bad
  <2>1. Bad \in SUBSET Nat
    BY DEF Bad
  <2> QED BY <1>1, <2>1, LeastOf
<1>3. CASE n = 0
  <2> DEFINE h == [p \in Nat \X (0..0) |-> p[1]]
  <2>1. Divides(h, 0)
    BY DEF Divides
  <2> QED BY <2>1, <1>3
<1>4. CASE n # 0
  <2>1. n - 1 \in Nat /\ n - 1 \notin Bad
    BY <1>2, <1>4
  <2>2. PICK h : Divides(h, n - 1)
    BY <2>1
  <2> DEFINE g == [p \in Nat \X (0..n) |-> IF p[2] <= n - 1 THEN h[p] ELSE h[<<p[2], p[1] % p[2]>>]]
  <2>3. ASSUME NEW a \in Nat, NEW b \in 0..n PROVE g[<<a, b>>] = IF b = 0 THEN a ELSE g[<<b, a % b>>]
    <3>0. b \in Nat /\ <<a, b>> \in Nat \X (0..n)
      OBVIOUS
    <3>1. CASE b = 0
      <4>1. g[<<a, b>>] = h[<<a, b>>]
        BY <3>0, <3>1, <2>1
      <4>2. b \in 0..(n - 1)
        BY <3>1, <2>1
      <4> QED BY <4>1, <4>2, <3>1, <2>2 DEF Divides
    <3>2. CASE b # 0
      <4>1. a % b \in 0..(b - 1)
        BY <3>0, <3>2, RemainderIsLess
      <4>2. a % b \in 0..n /\ a % b <= n - 1 /\ <<b, a % b>> \in Nat \X (0..n)
        BY <4>1, <3>0, <1>4
      <4>3. g[<<b, a % b>>] = h[<<b, a % b>>]
        BY <4>2
      <4>4. CASE b <= n - 1
        <5>1. b \in 0..(n - 1)
          BY <4>4, <3>0, <2>1
        <5>2. h[<<a, b>>] = h[<<b, a % b>>]
          BY <5>1, <3>2, <2>2 DEF Divides
        <5> QED BY <4>3, <4>4, <5>2, <3>0, <3>2
      <4>5. CASE ~(b <= n - 1)
        BY <4>3, <4>5, <3>0, <3>2
      <4> QED BY <4>4, <4>5
    <3> QED BY <3>1, <3>2
  <2>4. DOMAIN g = Nat \X (0..n)
    OBVIOUS
  <2>5. Divides(g, n)
    <3> HIDE DEF g
    <3> QED BY <2>3, <2>4 DEF Divides
  <2> QED BY <2>5
<1> QED BY <1>3, <1>4

LEMMA GcdStep ==
  ASSUME NEW a \in Nat, NEW b \in Nat
  PROVE  Gcd[<<a, b>>] = IF b = 0 THEN a ELSE Gcd[<<b, a % b>>]
<1> DEFINE Whole(n) == CHOOSE h : Divides(h, n)
           g == [p \in Nat \X Nat |-> Whole(p[2])[p]]
           Body(f) == [p \in Nat \X Nat |-> IF p[2] = 0 THEN p[1] ELSE f[<<p[2], p[1] % p[2]>>]]
<1>1. \A n \in Nat : Divides(Whole(n), n)
  BY SolutionsExist
<1> HIDE DEF Whole
<1>2. ASSUME NEW p \in Nat \X Nat PROVE g[p] = IF p[2] = 0 THEN p[1] ELSE g[<<p[2], p[1] % p[2]>>]
  <2>1. PICK x \in Nat, y \in Nat : p = <<x, y>>
    OBVIOUS
  <2>2. g[p] = Whole(y)[<<x, y>>]
    BY <2>1
  <2>3. Whole(y)[<<x, y>>] = IF y = 0 THEN x ELSE Whole(y)[<<y, x % y>>]
    <3>1. y \in 0..y /\ Divides(Whole(y), y)
      BY <1>1
    <3> QED BY <3>1 DEF Divides
  <2>4. CASE y = 0
    BY <2>1, <2>2, <2>3, <2>4
  <2>5. CASE y # 0
    <3>1. x % y \in 0..(y - 1)
      BY <2>5, RemainderIsLess
    <3>2. x % y \in Nat /\ x % y <= y
      BY <3>1
    <3>3. PICK r \in Nat : r = x % y
      BY <3>2
    <3>4. Whole(y)[<<y, r>>] = Whole(r)[<<y, r>>]
      BY <1>1, <3>2, <3>3, SolutionsAgree
    <3>5. g[<<y, r>>] = Whole(r)[<<y, r>>]
      OBVIOUS
    <3> HIDE DEF g
    <3> QED BY <2>1, <2>2, <2>3, <2>5, <3>3, <3>4, <3>5
  <2> QED BY <2>4, <2>5
<1>3. g = Body(g)
  <2>1. g = [p \in Nat \X Nat |-> g[p]]
    OBVIOUS
  <2> HIDE DEF g
  <2> QED BY <1>2, <2>1
<1>4. Gcd = CHOOSE f : f = Body(f)
  BY DEF Gcd
<1>5. Gcd = Body(Gcd)
  <2> HIDE DEF g, Body
  <2> QED BY <1>3, <1>4
<1> QED BY <1>5

(* A fraction whose denominator divides the numerator, or is divided by what is left over. *)
LEMMA FractionOf ==
  ASSUME NEW n \in Nat, NEW d \in Nat \ {0}, NEW g \in Nat \ {0}, NEW a \in Nat, NEW b \in Nat,
         n = a * g, d = b * g,
         \/ n % d = 0 /\ d = g
         \/ n % d = g /\ d % g = 0
  PROVE  Fraction(n, d) = <<a, b>>
<1>1. (a * g) \div g = a /\ (b * g) \div g = b
  OBVIOUS
<1>2. Gcd[<<n, d>>] = Gcd[<<d, n % d>>] /\ Gcd[<<d, 0>>] = d /\ Gcd[<<g, 0>>] = g
  BY GcdStep
<1>3. Gcd[<<n, d>>] = g
  <2>1. CASE n % d = 0 /\ d = g
    BY <2>1, <1>2
  <2>2. CASE n % d = g /\ d % g = 0
    <3>1. Gcd[<<d, g>>] = Gcd[<<g, d % g>>]
      BY GcdStep
    <3> QED BY <2>2, <3>1, <1>2
  <2> QED BY <2>1, <2>2
<1> QED BY <1>1, <1>3 DEF Fraction

LEMMA TicksOf ==
  /\ tickValueFor(<<50, 1>>, <<1, 4>>) = <<25, 2>>
  /\ tickValueFor(<<5, 1>>, <<1, 4>>) = <<5, 4>>
  /\ tickValueFor(<<20, 1>>, <<1, 4>>) = <<5, 1>>
  /\ tickValueFor(<<2, 1>>, <<1, 4>>) = <<1, 2>>
  /\ tickValueFor(<<5, 1>>, <<1, 1>>) = <<5, 1>>
  /\ tickValueFor(<<1, 2>>, <<1, 1>>) = <<1, 2>>
  /\ tickValueFor(<<50, 1>>, <<1, 10>>) = <<5, 1>>
  /\ tickValueFor(<<5, 1>>, <<1, 10>>) = <<1, 2>>
  /\ tickValueFor(<<100, 1>>, <<1, 10>>) = <<10, 1>>
  /\ tickValueFor(<<10, 1>>, <<1, 10>>) = <<1, 1>>
  /\ tickValueFor(<<1000, 1>>, <<1, 100>>) = <<10, 1>>
  /\ tickValueFor(<<100, 1>>, <<1, 100>>) = <<1, 1>>
  /\ tickValueFor(<<10000, 1>>, <<1, 1000>>) = <<10, 1>>
  /\ tickValueFor(<<1, 1>>, <<1, 100>>) = <<1, 100>>
<1> USE DEF tickValueFor
<1>1. Fraction(50, 4) = <<25, 2>> /\ Fraction(5, 4) = <<5, 4>> /\ Fraction(20, 4) = <<5, 1>>
  BY FractionOf
<1>2. Fraction(2, 4) = <<1, 2>> /\ Fraction(5, 1) = <<5, 1>> /\ Fraction(1, 2) = <<1, 2>>
  BY FractionOf
<1>3. Fraction(50, 10) = <<5, 1>> /\ Fraction(5, 10) = <<1, 2>> /\ Fraction(100, 10) = <<10, 1>>
  BY FractionOf
<1>4. Fraction(10, 10) = <<1, 1>> /\ Fraction(1000, 100) = <<10, 1>> /\ Fraction(100, 100) = <<1, 1>>
  BY FractionOf
<1>5. Fraction(10000, 1000) = <<10, 1>> /\ Fraction(1, 100) = <<1, 100>>
  BY FractionOf
<1> QED BY <1>1, <1>2, <1>3, <1>4, <1>5

-----------------------------------------------------------------------------
(* The table of the instruments. *)

RootNames == <<"ES", "MES", "NQ", "MNQ", "YM", "MYM", "RTY", "M2K", "GC", "MGC", "CL", "MCL", "NG",
           "SI", "SIL", "HG", "MHG", "MNG", "RB", "HO", "ZC", "ZS", "ZW", "ZL", "LE", "HE", "GF",
           "ZT", "ZF", "ZN", "ZB", "6E", "M6E", "6J", "6B", "M6B", "6A", "M6A", "6C", "MSF", "BTC",
           "MBT", "MET", "PL", "PA", "ZM", "VIX", "SPY", "QQQ", "IWM", "DIA", "SPX", "NDX", "RUT",
           "AAPL", "TSLA", "NVDA", "AMZN", "MSFT", "META", "GOOGL", "GOOG", "MSTR", "COIN", "AMD",
           "SMCI", "PLTR">>

(* The places of a parent and of its micro. *)
Kin == {<<1, 2>>, <<3, 4>>, <<5, 6>>, <<7, 8>>, <<9, 10>>, <<11, 12>>, <<13, 18>>, <<14, 15>>,
        <<16, 17>>, <<32, 33>>, <<35, 36>>, <<37, 38>>, <<41, 42>>}

TickIsTrue(x) == x.value = tickValueFor(x.point, x.tick)

LEMMA NamesDiffer == \A i, j \in 1..67 : RootNames[i] = RootNames[j] => i = j
BY DEF RootNames

LEMMA SpecOf ==
  ASSUME NEW row, NEW x, x = specRowToInstrument(row)
  PROVE  /\ x.root = row.root /\ x.parent = row.parent /\ x.micro = row.micro /\ x.microValue = None
         /\ TickIsTrue(x)
BY DEF specRowToInstrument, Instrument, TickIsTrue

Rows(s, n) == s = [i \in 1..n |-> s[i]]

Joined(u, s, m, t, n) ==
  /\ Rows(u, m + n)
  /\ \A i \in 1..m : u[i] = s[i]
  /\ \A i \in 1..n : u[m + i] = t[i]

LEMMA Concatenated ==
  ASSUME NEW m \in Nat, NEW n \in Nat, NEW s, NEW t, NEW u, u = s \o t, Rows(s, m), Rows(t, n)
  PROVE  Joined(u, s, m, t, n)
<1> DEFINE S == {s[i] : i \in 1..m} \cup {t[i] : i \in 1..n}
<1>1. s \in Seq(S) /\ t \in Seq(S) /\ Len(s) = m /\ Len(t) = n
  <2>1. (\A i \in 1..m : s[i] \in S) /\ (\A i \in 1..n : t[i] \in S)
    OBVIOUS
  <2> HIDE DEF S
  <2>2. s \in [1..m -> S] /\ t \in [1..n -> S]
    BY <2>1 DEF Rows
  <2> QED BY <2>2
<1> HIDE DEF S
<1>2. u \in Seq(S) /\ Len(u) = m + n
  <2>1. s \o t \in Seq(S) /\ Len(s \o t) = Len(s) + Len(t)
    BY <1>1, ConcatProperties
  <2> QED BY <1>1, <2>1
<1>3. \A i \in 1..(m + n) : u[i] = IF i <= m THEN s[i] ELSE t[i - m]
  BY <1>1
<1>4. \A i \in 1..n : m + i \in 1..(m + n) /\ ~(m + i <= m) /\ (m + i) - m = i
  OBVIOUS
<1>5. u = [i \in 1..(m + n) |-> u[i]]
  <2>1. u \in [1..(m + n) -> S]
    BY <1>2, LenProperties
  <2> QED BY <2>1
<1> QED BY <1>3, <1>4, <1>5 DEF Rows, Joined

LEMMA BuiltInIs ==
  /\ DOMAIN BuiltIn = 1..67
  /\ \A i \in 1..6 : BuiltIn[i] = IndexInstruments[i]
  /\ \A i \in 1..7 : BuiltIn[6 + i] = OtherInstruments[i]
  /\ \A i \in 1..34 : BuiltIn[13 + i] = specRowToInstrument(ProductRows[i])
  /\ \A i \in 1..20 : BuiltIn[47 + i] = specRowToInstrument(StockRows[i])
<1> DEFINE rows == [i \in DOMAIN SPEC_TABLE |-> specRowToInstrument(SPEC_TABLE[i])]
           first == IndexInstruments \o OtherInstruments
<1>1. Rows(IndexInstruments, 6)
  BY DEF IndexInstruments, Rows
<1>2. Rows(OtherInstruments, 7)
  BY DEF OtherInstruments, Rows
<1>3. Rows(ProductRows, 34)
  BY DEF ProductRows, Rows
<1>4. Rows(StockRows, 20)
  BY DEF StockRows, Stocks, Rows
<1>5. /\ Rows(SPEC_TABLE, 34 + 20)
      /\ \A i \in 1..34 : SPEC_TABLE[i] = ProductRows[i]
      /\ \A i \in 1..20 : SPEC_TABLE[34 + i] = StockRows[i]
  <2>1. SPEC_TABLE = ProductRows \o StockRows
    BY DEF SPEC_TABLE
  <2>3. Joined(SPEC_TABLE, ProductRows, 34, StockRows, 20)
    BY <1>3, <1>4, <2>1, Concatenated
  <2> QED BY <2>3 DEF Joined
<1>6. DOMAIN SPEC_TABLE = 1..54
  BY <1>5 DEF Rows
<1>7. Rows(rows, 54) /\ \A i \in 1..54 : rows[i] = specRowToInstrument(SPEC_TABLE[i])
  BY <1>6 DEF Rows
<1> HIDE DEF rows
<1>8. /\ Rows(first, 6 + 7)
      /\ \A i \in 1..6 : first[i] = IndexInstruments[i]
      /\ \A i \in 1..7 : first[6 + i] = OtherInstruments[i]
  <2>1. PICK u : u = first
    OBVIOUS
  <2>2. u = IndexInstruments \o OtherInstruments
    BY <2>1
  <2> HIDE DEF first
  <2>3. Joined(first, IndexInstruments, 6, OtherInstruments, 7)
    BY <1>1, <1>2, <2>1, <2>2, Concatenated
  <2> QED BY <2>3 DEF Joined
<1> HIDE DEF first
<1>9. Rows(first, 13)
  BY <1>8
<1>10. /\ Rows(BuiltIn, 13 + 54)
       /\ \A i \in 1..13 : BuiltIn[i] = first[i]
       /\ \A i \in 1..54 : BuiltIn[13 + i] = rows[i]
  <2>1. BuiltIn = first \o rows
    BY DEF BuiltIn, first, rows
  <2>3. Joined(BuiltIn, first, 13, rows, 54)
    BY <1>7, <1>9, <2>1, Concatenated
  <2> QED BY <2>3 DEF Joined
<1>11. DOMAIN BuiltIn = 1..67
  BY <1>10 DEF Rows
<1>12. ASSUME NEW i \in 1..7 PROVE BuiltIn[6 + i] = OtherInstruments[i]
  BY <1>8, <1>10
<1>13. ASSUME NEW i \in 1..34 PROVE BuiltIn[13 + i] = specRowToInstrument(ProductRows[i])
  BY <1>5, <1>7, <1>10
<1>14. ASSUME NEW i \in 1..20 PROVE BuiltIn[47 + i] = specRowToInstrument(StockRows[i])
  <2>1. 34 + i \in 1..54 /\ 13 + (34 + i) = 47 + i
    OBVIOUS
  <2>2. BuiltIn[13 + (34 + i)] = rows[34 + i]
    BY <1>10, <2>1
  <2> QED BY <1>5, <1>7, <2>1, <2>2
<1>15. \A i \in 1..6 : BuiltIn[i] = IndexInstruments[i]
  BY <1>8, <1>10
<1> QED BY <1>11, <1>12, <1>13, <1>14, <1>15

LEMMA Places ==
  ASSUME NEW i \in 1..67
  PROVE  \/ i \in 1..6
         \/ \E j \in 1..7 : i = 6 + j
         \/ \E j \in 1..34 : i = 13 + j
         \/ \E j \in 1..20 : i = 47 + j
<1>1. CASE i \in 7..13
  <2>1. i - 6 \in 1..7 /\ i = 6 + (i - 6)
    BY <1>1
  <2> QED BY <2>1
<1>2. CASE i \in 14..47
  <2>1. i - 13 \in 1..34 /\ i = 13 + (i - 13)
    BY <1>2
  <2> QED BY <2>1
<1>3. CASE i \in 48..67
  <2>1. i - 47 \in 1..20 /\ i = 47 + (i - 47)
    BY <1>3
  <2> QED BY <2>1
<1> QED BY <1>1, <1>2, <1>3

(* The part of a record that a symbol's numbers and its kin are in. *)
LEMMA RowsAre ==
  ASSUME NEW i \in 1..67
  PROVE  BuiltIn[i].root = RootNames[i] /\ TickIsTrue(BuiltIn[i])
<1>1. CASE i \in 1..6
  <2>1. BuiltIn[i] = IndexInstruments[i]
    BY <1>1, BuiltInIs
  <2>2. IndexInstruments[i].root = RootNames[i]
    BY <1>1 DEF IndexInstruments, Listed, Instrument, RootNames
  <2>3. TickIsTrue(IndexInstruments[i])
    <3>1. /\ IndexInstruments[1].point = <<50, 1>> /\ IndexInstruments[1].tick = <<1, 4>>
          /\ IndexInstruments[1].value = <<25, 2>>
          /\ IndexInstruments[2].point = <<5, 1>> /\ IndexInstruments[2].tick = <<1, 4>>
          /\ IndexInstruments[2].value = <<5, 4>>
          /\ IndexInstruments[3].point = <<20, 1>> /\ IndexInstruments[3].tick = <<1, 4>>
          /\ IndexInstruments[3].value = <<5, 1>>
          /\ IndexInstruments[4].point = <<2, 1>> /\ IndexInstruments[4].tick = <<1, 4>>
          /\ IndexInstruments[4].value = <<1, 2>>
          /\ IndexInstruments[5].point = <<5, 1>> /\ IndexInstruments[5].tick = <<1, 1>>
          /\ IndexInstruments[5].value = <<5, 1>>
          /\ IndexInstruments[6].point = <<1, 2>> /\ IndexInstruments[6].tick = <<1, 1>>
          /\ IndexInstruments[6].value = <<1, 2>>
      BY DEF IndexInstruments, Listed, Instrument
    <3>2. /\ TickIsTrue(IndexInstruments[1]) /\ TickIsTrue(IndexInstruments[2]) /\ TickIsTrue(IndexInstruments[3])
          /\ TickIsTrue(IndexInstruments[4]) /\ TickIsTrue(IndexInstruments[5]) /\ TickIsTrue(IndexInstruments[6])
      BY <3>1, TicksOf DEF TickIsTrue
    <3> QED BY <1>1, <3>2
  <2> QED BY <2>1, <2>2, <2>3
<1>2. CASE \E j \in 1..7 : i = 6 + j
  <2>1. PICK j \in 1..7 : i = 6 + j
    BY <1>2
  <2>2. OtherInstruments[j].root = RootNames[6 + j]
    BY DEF OtherInstruments, Listed, Instrument, RootNames
  <2>3. TickIsTrue(OtherInstruments[j])
    <3>1. /\ OtherInstruments[1].point = <<50, 1>> /\ OtherInstruments[1].tick = <<1, 10>>
          /\ OtherInstruments[1].value = <<5, 1>>
          /\ OtherInstruments[2].point = <<5, 1>> /\ OtherInstruments[2].tick = <<1, 10>>
          /\ OtherInstruments[2].value = <<1, 2>>
          /\ OtherInstruments[3].point = <<100, 1>> /\ OtherInstruments[3].tick = <<1, 10>>
          /\ OtherInstruments[3].value = <<10, 1>>
          /\ OtherInstruments[4].point = <<10, 1>> /\ OtherInstruments[4].tick = <<1, 10>>
          /\ OtherInstruments[4].value = <<1, 1>>
          /\ OtherInstruments[5].point = <<1000, 1>> /\ OtherInstruments[5].tick = <<1, 100>>
          /\ OtherInstruments[5].value = <<10, 1>>
          /\ OtherInstruments[6].point = <<100, 1>> /\ OtherInstruments[6].tick = <<1, 100>>
          /\ OtherInstruments[6].value = <<1, 1>>
          /\ OtherInstruments[7].point = <<10000, 1>> /\ OtherInstruments[7].tick = <<1, 1000>>
          /\ OtherInstruments[7].value = <<10, 1>>
      BY DEF OtherInstruments, Listed, Instrument
    <3>2. /\ TickIsTrue(OtherInstruments[1]) /\ TickIsTrue(OtherInstruments[2]) /\ TickIsTrue(OtherInstruments[3])
          /\ TickIsTrue(OtherInstruments[4]) /\ TickIsTrue(OtherInstruments[5]) /\ TickIsTrue(OtherInstruments[6]) /\ TickIsTrue(OtherInstruments[7])
      BY <3>1, TicksOf DEF TickIsTrue
    <3> QED BY <3>2
  <2> QED BY <2>1, <2>2, <2>3, BuiltInIs
<1>3. CASE \E j \in 1..34 : i = 13 + j
  <2>1. PICK j \in 1..34 : i = 13 + j
    BY <1>3
  <2>2. ProductRows[j].root = RootNames[13 + j]
    BY DEF ProductRows, SpecRow, RootNames
  <2> QED BY <2>1, <2>2, BuiltInIs, SpecOf
<1>4. CASE \E j \in 1..20 : i = 47 + j
  <2>1. PICK j \in 1..20 : i = 47 + j
    BY <1>4
  <2>2. StockRows[j].root = RootNames[47 + j]
    BY DEF StockRows, Stocks, SpecRow, RootNames
  <2> QED BY <2>1, <2>2, BuiltInIs, SpecOf
<1> QED BY <1>1, <1>2, <1>3, <1>4, Places

(* A record that names a parent or a micro is one of a pair. *)
LEMMA KinAre ==
  ASSUME NEW i \in 1..67
  PROVE  /\ BuiltIn[i].parent # None => \E k \in Kin : k[2] = i
         /\ BuiltIn[i].micro # None => \E k \in Kin : k[1] = i
<1>1. CASE i \in 1..6
  <2>1. BuiltIn[i] = IndexInstruments[i]
    BY <1>1, BuiltInIs
  <2>2. /\ IndexInstruments[i].parent # None => i \in {2, 4, 6}
        /\ IndexInstruments[i].micro # None => i \in {1, 3, 5}
    BY <1>1 DEF IndexInstruments, Listed, Instrument
  <2> QED BY <2>1, <2>2 DEF Kin
<1>2. CASE \E j \in 1..7 : i = 6 + j
  <2>1. PICK j \in 1..7 : i = 6 + j
    BY <1>2
  <2>2. /\ OtherInstruments[j].parent # None => j \in {2, 4, 6}
        /\ OtherInstruments[j].micro # None => j \in {1, 3, 5, 7}
    BY DEF OtherInstruments, Listed, Instrument
  <2>3. BuiltIn[i] = OtherInstruments[j]
    BY <2>1, BuiltInIs
  <2> QED BY <2>1, <2>2, <2>3 DEF Kin
<1>3. CASE \E j \in 1..34 : i = 13 + j
  <2>1. PICK j \in 1..34 : i = 13 + j
    BY <1>3
  <2>2. /\ ProductRows[j].parent # None => j \in {2, 4, 5, 20, 23, 25, 29}
        /\ ProductRows[j].micro # None => j \in {1, 3, 19, 22, 24, 28}
    BY DEF ProductRows, SpecRow
  <2>3. BuiltIn[i].parent = ProductRows[j].parent /\ BuiltIn[i].micro = ProductRows[j].micro
    BY <2>1, BuiltInIs, SpecOf
  <2> QED BY <2>1, <2>2, <2>3 DEF Kin
<1>4. CASE \E j \in 1..20 : i = 47 + j
  <2>1. PICK j \in 1..20 : i = 47 + j
    BY <1>4
  <2>2. StockRows[j].parent = None /\ StockRows[j].micro = None
    BY DEF StockRows, Stocks, SpecRow
  <2> QED BY <2>1, <2>2, BuiltInIs, SpecOf
<1> QED BY <1>1, <1>2, <1>3, <1>4, Places

(* The two of a pair name each other, and a value stated for the micro is the micro's own. *)
LEMMA KinAgree ==
  ASSUME NEW k \in Kin
  PROVE  /\ BuiltIn[k[1]].micro = RootNames[k[2]] /\ BuiltIn[k[2]].parent = RootNames[k[1]]
         /\ BuiltIn[k[1]].microValue \in {None, BuiltIn[k[2]].value}
<1>1. CASE k \in {<<1, 2>>, <<3, 4>>, <<5, 6>>}
  <2>1. /\ BuiltIn[k[1]] = IndexInstruments[k[1]] /\ BuiltIn[k[2]] = IndexInstruments[k[2]]
    BY <1>1, BuiltInIs
  <2>2. IndexInstruments[k[1]].micro = RootNames[k[2]] /\ IndexInstruments[k[2]].parent = RootNames[k[1]]
    BY <1>1 DEF IndexInstruments, Listed, Instrument, RootNames
  <2>3. /\ IndexInstruments[1].microValue = <<5, 4>> /\ IndexInstruments[2].value = <<5, 4>>
        /\ IndexInstruments[3].microValue = <<1, 2>> /\ IndexInstruments[4].value = <<1, 2>>
        /\ IndexInstruments[5].microValue = <<1, 2>> /\ IndexInstruments[6].value = <<1, 2>>
    BY DEF IndexInstruments, Listed, Instrument
  <2> QED BY <1>1, <2>1, <2>2, <2>3
<1>2. CASE k \in {<<7, 8>>, <<9, 10>>, <<11, 12>>}
  <2>1. PICK i \in {1, 3, 5} : k = <<6 + i, 6 + (i + 1)>>
    BY <1>2
  <2>2. BuiltIn[k[1]] = OtherInstruments[i] /\ BuiltIn[k[2]] = OtherInstruments[i + 1]
    BY <2>1, BuiltInIs
  <2>3. OtherInstruments[i].micro = RootNames[6 + (i + 1)] /\ OtherInstruments[i + 1].parent = RootNames[6 + i]
    BY DEF OtherInstruments, Listed, Instrument, RootNames
  <2>4. /\ OtherInstruments[1].microValue = <<1, 2>> /\ OtherInstruments[2].value = <<1, 2>>
        /\ OtherInstruments[3].microValue = <<1, 1>> /\ OtherInstruments[4].value = <<1, 1>>
        /\ OtherInstruments[5].microValue = <<1, 1>> /\ OtherInstruments[6].value = <<1, 1>>
    BY DEF OtherInstruments, Listed, Instrument
  <2>5. OtherInstruments[i].microValue = OtherInstruments[i + 1].value
    BY <2>4
  <2> QED BY <2>1, <2>2, <2>3, <2>5
<1>3. CASE k = <<13, 18>>
  <2>1. BuiltIn[6 + 7] = OtherInstruments[7] /\ BuiltIn[13 + 5] = specRowToInstrument(ProductRows[5])
    BY BuiltInIs
  <2>2. OtherInstruments[7].micro = RootNames[18] /\ OtherInstruments[7].microValue = None
    BY DEF OtherInstruments, Listed, Instrument, RootNames
  <2>3. ProductRows[5].parent = RootNames[13]
    BY DEF ProductRows, SpecRow, RootNames
  <2> QED BY <1>3, <2>1, <2>2, <2>3, SpecOf
<1>4. CASE k \in {<<14, 15>>, <<16, 17>>, <<32, 33>>, <<35, 36>>, <<37, 38>>, <<41, 42>>}
  <2>1. PICK i \in {1, 3, 19, 22, 24, 28} : k = <<13 + i, 13 + (i + 1)>>
    BY <1>4
  <2>2. i \in 1..34 /\ i + 1 \in 1..34
    BY <2>1
  <2>3. /\ BuiltIn[k[1]] = specRowToInstrument(ProductRows[i])
        /\ BuiltIn[k[2]] = specRowToInstrument(ProductRows[i + 1])
    BY <2>1, <2>2, BuiltInIs
  <2>4. ProductRows[i].micro = RootNames[13 + (i + 1)] /\ ProductRows[i + 1].parent = RootNames[13 + i]
    BY DEF ProductRows, SpecRow, RootNames
  <2> QED BY <2>1, <2>3, <2>4, SpecOf
<1> QED BY <1>1, <1>2, <1>3, <1>4 DEF Kin

(* The first row of a root. *)
LEMMA FirstRow ==
  ASSUME NEW rows, DOMAIN rows \subseteq Nat, NEW r \in RootsOf(rows)
  PROVE  \E i \in DOMAIN rows : /\ FirstOf(rows, r) = rows[i] /\ rows[i].root = r
                                /\ \A j \in DOMAIN rows : j < i => rows[j].root # r
<1> DEFINE S == {i \in DOMAIN rows : rows[i].root = r}
<1>1. S \in SUBSET Nat /\ S # {}
  BY DEF RootsOf
<1>2. PICK x \in S : \A y \in S : x <= y
  <2> HIDE DEF S
  <2> QED BY <1>1, LeastOf
<1>3. \E i \in DOMAIN rows : rows[i].root = r /\ \A j \in DOMAIN rows : j < i => rows[j].root # r
  <2>1. \A j \in DOMAIN rows : j < x => rows[j].root # r
    <3> SUFFICES ASSUME NEW j \in DOMAIN rows, j < x, rows[j].root = r PROVE FALSE
      OBVIOUS
    <3>1. x <= j /\ x \in Nat /\ j \in Nat
      BY <1>2
    <3> QED BY <3>1
  <2> QED BY <1>2, <2>1
<1> QED BY <1>3 DEF FirstOf

(* The table: the record of each name, and the records of the operator, which have no kin. *)
LEMMA TableIs ==
  ASSUME CatalogueAssumption
  PROVE  /\ \A i \in 1..67 : RootNames[i] \in DOMAIN Table /\ Table[RootNames[i]] = BuiltIn[i]
         /\ \A r \in DOMAIN Table :
               \/ \E i \in 1..67 : r = RootNames[i]
               \/ TickIsTrue(Table[r]) /\ Table[r].parent = None /\ Table[r].micro = None
<1> DEFINE extra == parseExtraInstruments(Entries)
<1>1. /\ DOMAIN Table = RootsOf(BuiltIn) \cup RootsOf(extra)
      /\ \A r \in RootsOf(BuiltIn) : Table[r] = FirstOf(BuiltIn, r)
      /\ \A r \in RootsOf(extra) \ RootsOf(BuiltIn) : Table[r] = FirstOf(extra, r)
  BY DEF Table, FUTURES_INSTRUMENTS
<1>2. DOMAIN BuiltIn = 1..67 /\ 1..67 \subseteq Nat
  BY BuiltInIs
<1>3. \A r : r \in RootsOf(BuiltIn) <=> \E i \in 1..67 : r = RootNames[i]
  BY <1>2, RowsAre DEF RootsOf
<1>4. ASSUME NEW i \in 1..67 PROVE RootNames[i] \in DOMAIN Table /\ Table[RootNames[i]] = BuiltIn[i]
  <2>1. RootNames[i] \in RootsOf(BuiltIn)
    BY <1>3
  <2>2. PICK j \in 1..67 : FirstOf(BuiltIn, RootNames[i]) = BuiltIn[j] /\ BuiltIn[j].root = RootNames[i]
    BY <1>2, <2>1, FirstRow
  <2>3. j = i
    BY <2>2, RowsAre, NamesDiffer
  <2> QED BY <1>1, <2>1, <2>2, <2>3
<1>5. ASSUME NEW r \in DOMAIN Table, r \notin RootsOf(BuiltIn)
      PROVE  TickIsTrue(Table[r]) /\ Table[r].parent = None /\ Table[r].micro = None
  <2>1. r \in RootsOf(extra) /\ Table[r] = FirstOf(extra, r)
    BY <1>1, <1>5
  <2>2. DOMAIN extra \subseteq Nat
    BY DEF CatalogueAssumption, parseExtraInstruments
  <2>3. PICK i \in DOMAIN extra : FirstOf(extra, r) = extra[i]
    <3> HIDE DEF extra
    <3> QED BY <2>1, <2>2, FirstRow
  <2>4. extra[i].parent = None /\ extra[i].micro = None /\ TickIsTrue(extra[i])
    BY DEF parseExtraInstruments, Instrument, TickIsTrue
  <2> QED BY <2>1, <2>3, <2>4
<1> QED BY <1>3, <1>4, <1>5

LEMMA TableAgrees ==
  ASSUME CatalogueAssumption, NEW r \in DOMAIN Table
  PROVE  /\ TickIsTrue(Table[r])
         /\ Table[r].parent # None => Table[Table[r].parent].micro = r
         /\ Table[r].micro # None =>
               /\ Table[Table[r].micro].parent = r
               /\ Table[r].microValue \in {None, Table[Table[r].micro].value}
<1>1. CASE \E i \in 1..67 : r = RootNames[i]
  <2>1. PICK i \in 1..67 : r = RootNames[i]
    BY <1>1
  <2>2. Table[r] = BuiltIn[i]
    BY <2>1, TableIs
  <2>3. TickIsTrue(Table[r])
    BY <2>2, RowsAre
  <2>4. ASSUME Table[r].parent # None PROVE Table[Table[r].parent].micro = r
    <3>1. PICK k \in Kin : k[2] = i
      BY <2>2, <2>4, KinAre
    <3>2. k[1] \in 1..67
      BY DEF Kin
    <3>3. BuiltIn[i].parent = RootNames[k[1]] /\ BuiltIn[k[1]].micro = r
      BY <2>1, <3>1, KinAgree
    <3> QED BY <2>2, <3>2, <3>3, TableIs
  <2>5. ASSUME Table[r].micro # None
        PROVE  /\ Table[Table[r].micro].parent = r
               /\ Table[r].microValue \in {None, Table[Table[r].micro].value}
    <3>1. PICK k \in Kin : k[1] = i
      BY <2>2, <2>5, KinAre
    <3>2. k[2] \in 1..67
      BY DEF Kin
    <3>3. /\ BuiltIn[i].micro = RootNames[k[2]] /\ BuiltIn[k[2]].parent = r
          /\ BuiltIn[i].microValue \in {None, BuiltIn[k[2]].value}
      BY <2>1, <3>1, KinAgree
    <3>4. Table[RootNames[k[2]]] = BuiltIn[k[2]]
      BY <3>2, TableIs
    <3> QED BY <2>2, <3>3, <3>4
  <2> QED BY <2>3, <2>4, <2>5
<1>2. CASE ~\E i \in 1..67 : r = RootNames[i]
  BY <1>2, TableIs
<1> QED BY <1>1, <1>2

(* Every record of the table has the fields of an instrument. *)
Fields == {"symbol", "root", "point", "tick", "value", "parent", "micro", "microValue", "isMicro",
           "kind", "month", "year", "schedule"}

LEMMA FieldsAre ==
  ASSUME CatalogueAssumption, NEW r \in DOMAIN Table
  PROVE  DOMAIN Table[r] = Fields
<1> DEFINE extra == parseExtraInstruments(Entries)
<1>1. ASSUME NEW i \in 1..67 PROVE DOMAIN BuiltIn[i] = Fields
  <2>1. CASE i \in 1..6
    <3>1. DOMAIN IndexInstruments[i] = Fields
      BY <2>1 DEF IndexInstruments, Listed, Instrument, Fields
    <3> QED BY <2>1, <3>1, BuiltInIs
  <2>2. CASE \E j \in 1..7 : i = 6 + j
    <3>1. PICK j \in 1..7 : i = 6 + j
      BY <2>2
    <3>2. DOMAIN OtherInstruments[j] = Fields
      BY DEF OtherInstruments, Listed, Instrument, Fields
    <3> QED BY <3>1, <3>2, BuiltInIs
  <2>3. \A row : DOMAIN specRowToInstrument(row) = Fields
    BY DEF specRowToInstrument, Instrument, Fields
  <2> QED BY <2>1, <2>2, <2>3, BuiltInIs, Places
<1>2. CASE \E i \in 1..67 : r = RootNames[i]
  BY <1>1, <1>2, TableIs
<1>3. CASE ~\E i \in 1..67 : r = RootNames[i]
  <2>1. DOMAIN BuiltIn = 1..67
    BY BuiltInIs
  <2>2. r \notin RootsOf(BuiltIn)
    BY <1>3, <2>1, RowsAre DEF RootsOf
  <2>3. r \in RootsOf(extra) /\ Table[r] = FirstOf(extra, r)
    BY <2>2 DEF Table, FUTURES_INSTRUMENTS
  <2>4. DOMAIN extra \subseteq Nat
    BY DEF CatalogueAssumption, parseExtraInstruments
  <2>5. PICK i \in DOMAIN extra : FirstOf(extra, r) = extra[i]
    <3> HIDE DEF extra
    <3> QED BY <2>3, <2>4, FirstRow
  <2>6. DOMAIN extra[i] = Fields
    BY DEF parseExtraInstruments, Instrument, Fields
  <2> QED BY <2>3, <2>5, <2>6
<1> QED BY <1>2, <1>3

-----------------------------------------------------------------------------
(* The records that are registered. *)

(* A contract has the tick and the point of its root. *)
OfItsRoot(s, x) ==
  s.month # None /\ s.root \in DOMAIN Table => x.tick = Table[s.root].tick /\ x.point = Table[s.root].point

SoundSpecs(table) == DOMAIN table = Symbols /\ \A s \in Symbols : table[s] # None => TickIsTrue(table[s])

SoundRecords(known) ==
  DOMAIN known = Symbols /\ \A s \in Symbols : known[s] # None => TickIsTrue(known[s]) /\ OfItsRoot(s, known[s])

CatalogueInv ==
  /\ SoundRecords(dynamic)
  /\ SoundSpecs(specs)
  /\ syncs \in Seq(Seq(DOMAIN ClassOf))
  /\ SyncLands

LEMMA RecordIsSound ==
  ASSUME CatalogueAssumption, NEW known, NEW stored, SoundRecords(known), SoundSpecs(stored), NEW s \in Symbols,
         NEW x, x = getOrRegisterInstrument(known, stored, s)
  PROVE  TickIsTrue(x) /\ OfItsRoot(s, x)
<1>1. CASE IsRoot(s) /\ s.root \in DOMAIN Table
  BY <1>1, TableAgrees DEF getOrRegisterInstrument, IsRoot, OfItsRoot
<1>2. CASE ~(IsRoot(s) /\ s.root \in DOMAIN Table) /\ known[s] # None
  BY <1>2 DEF getOrRegisterInstrument, SoundRecords
<1>3. CASE ~(IsRoot(s) /\ s.root \in DOMAIN Table) /\ known[s] = None
  <2>1. CASE s.month # None /\ s.tail = None /\ s.root \in DOMAIN Table
    <3>1. x = contractOf(Table[s.root], s)
      BY <1>3, <2>1 DEF getOrRegisterInstrument
    <3>2. DOMAIN Table[s.root] = Fields /\ TickIsTrue(Table[s.root])
      BY <2>1, FieldsAre, TableAgrees
    <3>3. x.tick = Table[s.root].tick /\ x.point = Table[s.root].point /\ x.value = Table[s.root].value
      BY <3>1, <3>2 DEF contractOf, Fields
    <3> QED BY <3>2, <3>3 DEF TickIsTrue, OfItsRoot
  <2>2. CASE ~(s.month # None /\ s.tail = None /\ s.root \in DOMAIN Table)
    <3>1. OfItsRoot(s, x)
      BY <2>2 DEF CatalogueAssumption, OfItsRoot
    <3>2. CASE getInstrumentSpec(stored, s) # None
      <4>1. PICK y : y = getInstrumentSpec(stored, s)
        OBVIOUS
      <4>2. x = fromSpec(y, s)
        BY <1>3, <2>2, <3>2, <4>1 DEF getOrRegisterInstrument
      <4>3. TickIsTrue(y)
        BY <3>2, <4>1 DEF getInstrumentSpec, SoundSpecs
      <4>4. x.point = y.point /\ x.tick = y.tick /\ x.value = y.value
        BY <4>2 DEF fromSpec, Instrument
      <4> QED BY <3>1, <4>3, <4>4 DEF TickIsTrue
    <3>3. CASE getInstrumentSpec(stored, s) = None
      <4>1. x = defaultInstrument(s)
        BY <1>3, <2>2, <3>3 DEF getOrRegisterInstrument
      <4>2. \/ x.point = <<50, 1>> /\ x.tick = <<1, 4>> /\ x.value = <<25, 2>>
            \/ x.point = <<1, 1>> /\ x.tick = <<1, 100>> /\ x.value = <<1, 100>>
        BY <4>1 DEF defaultInstrument, Instrument
      <4> QED BY <3>1, <4>2, TicksOf DEF TickIsTrue
    <3> QED BY <3>2, <3>3
  <2> QED BY <2>1, <2>2
<1> QED BY <1>1, <1>2, <1>3

(* Whatever is asked for, what is registered stays, and what comes is sound. *)
LEMMA RegisteringIsSound ==
  ASSUME CatalogueAssumption, NEW known, NEW stored, SoundRecords(known), SoundSpecs(stored), NEW wanted
  PROVE  /\ SoundRecords(Registered(known, stored, wanted))
         /\ \A s \in Symbols : known[s] # None => Registered(known, stored, wanted)[s] = known[s]
<1>1. DOMAIN Registered(known, stored, wanted) = Symbols
  BY DEF Registered, SoundRecords
<1>2. ASSUME NEW s \in Symbols
      PROVE  /\ known[s] # None => Registered(known, stored, wanted)[s] = known[s]
             /\ Registered(known, stored, wanted)[s] # None =>
                   /\ TickIsTrue(Registered(known, stored, wanted)[s])
                   /\ OfItsRoot(s, Registered(known, stored, wanted)[s])
  <2>1. CASE s \in wanted /\ ~(IsRoot(s) /\ s.root \in DOMAIN Table)
    <3>1. Registered(known, stored, wanted)[s] = getOrRegisterInstrument(known, stored, s)
      BY <2>1 DEF Registered, SoundRecords
    <3>2. known[s] # None => getOrRegisterInstrument(known, stored, s) = known[s]
      BY <2>1 DEF getOrRegisterInstrument
    <3>3. PICK x : x = getOrRegisterInstrument(known, stored, s)
      OBVIOUS
    <3>4. TickIsTrue(x) /\ OfItsRoot(s, x)
      BY <3>3, RecordIsSound
    <3> QED BY <3>1, <3>2, <3>3, <3>4
  <2>2. CASE ~(s \in wanted /\ ~(IsRoot(s) /\ s.root \in DOMAIN Table))
    BY <2>2 DEF Registered, SoundRecords
  <2> QED BY <2>1, <2>2
<1> QED BY <1>1, <1>2 DEF SoundRecords

-----------------------------------------------------------------------------
(* What an answer leaves in the tables. *)

LEMMA SpecRowIs ==
  ASSUME NEW r, NEW d, NEW x, x = toSpecRow(r, d)
  PROVE  x.root = rootOf(r) /\ x.class = ClassOf[d] /\ TickIsTrue(x)
BY DEF toSpecRow, TickIsTrue

(* The first definition of each root is kept, and no other. *)
LEMMA FirstOfEachRoot ==
  ASSUME NEW rows, NEW n \in Nat, DOMAIN rows = 1..n
  PROVE  /\ \A x \in dedupeByRoot(rows) : \E i \in 1..n : x = rows[i]
         /\ \A i \in 1..n : \E x \in dedupeByRoot(rows) : x.root = rows[i].root
<1>1. \A x \in dedupeByRoot(rows) : \E i \in 1..n : x = rows[i]
  BY DEF dedupeByRoot
<1>2. ASSUME NEW i \in 1..n PROVE \E x \in dedupeByRoot(rows) : x.root = rows[i].root
  <2>1. rows[i].root \in RootsOf(rows) /\ DOMAIN rows \subseteq Nat
    BY DEF RootsOf
  <2>2. PICK j \in 1..n : rows[j].root = rows[i].root /\ \A k \in 1..n : k < j => rows[k].root # rows[i].root
    <3>1. PICK r : r = rows[i].root
      OBVIOUS
    <3>2. \E j \in DOMAIN rows : rows[j].root = r /\ \A k \in DOMAIN rows : k < j => rows[k].root # r
      BY <2>1, <3>1, FirstRow
    <3> QED BY <3>1, <3>2
  <2>3. \A k \in 1..(j - 1) : k \in 1..n /\ k < j
    OBVIOUS
  <2>4. rows[j] \in dedupeByRoot(rows)
    BY <2>2, <2>3 DEF dedupeByRoot
  <2> QED BY <2>2, <2>4
<1> QED BY <1>1, <1>2

LEMMA SpecsAreStored ==
  ASSUME NEW table, SoundSpecs(table), NEW rows, \A x \in rows : TickIsTrue(x)
  PROVE  /\ SoundSpecs(upsertInstrumentSpecs(table, rows))
         /\ \A x \in rows : x.root \in Symbols =>
               \E y \in rows : y.root = x.root /\ upsertInstrumentSpecs(table, rows)[x.root] = y
<1>1. DOMAIN upsertInstrumentSpecs(table, rows) = Symbols
  BY DEF upsertInstrumentSpecs, SoundSpecs
<1>2. ASSUME NEW s \in Symbols, NEW x \in rows, x.root = s
      PROVE  \E y \in rows : y.root = s /\ upsertInstrumentSpecs(table, rows)[s] = y
  <2>1. upsertInstrumentSpecs(table, rows)[s] = CHOOSE r \in rows : r.root = s
    BY <1>2 DEF upsertInstrumentSpecs, SoundSpecs
  <2> QED BY <1>2, <2>1
<1>3. ASSUME NEW s \in Symbols, ~\E x \in rows : x.root = s
      PROVE  upsertInstrumentSpecs(table, rows)[s] = table[s]
  BY <1>3 DEF upsertInstrumentSpecs, SoundSpecs
<1> QED BY <1>1, <1>2, <1>3 DEF SoundSpecs

LEMMA PurgeIsSound ==
  ASSUME NEW table, SoundSpecs(table) PROVE SoundSpecs(purgeInvalidInstrumentSpecs(table))
BY DEF SoundSpecs, purgeInvalidInstrumentSpecs

(* The rows of the master after the first n of an answer. *)
WrittenRows(f, rows, new, n) ==
  /\ DOMAIN f = 0..n /\ f[0] = rows
  /\ \A k \in 1..n : f[k] = ReplaceMasterRow(f[k - 1], new[k])

LEMMA WritingGoesOn ==
  ASSUME NEW rows, NEW new
  PROVE  \A n \in Nat : \E f : WrittenRows(f, rows, new, n)
<1> DEFINE Bad == {n \in Nat : ~\E f : WrittenRows(f, rows, new, n)}
<1>1. SUFFICES ASSUME Bad # {} PROVE FALSE
  BY <1>1
<1>2. PICK n \in Bad : \A c \in Bad : n <= c
  <2> HIDE DEF Bad
  <2>1. Bad \in SUBSET Nat
    BY DEF Bad
  <2> QED BY <1>1, <2>1, LeastOf
<1>3. CASE n = 0
  <2> DEFINE f == [k \in 0..0 |-> rows]
  <2>1. WrittenRows(f, rows, new, 0)
    BY DEF WrittenRows
  <2> QED BY <2>1, <1>3
<1>4. CASE n # 0
  <2>1. n - 1 \in Nat /\ n - 1 \notin Bad /\ n \in Nat
    BY <1>2, <1>4
  <2>2. PICK f : WrittenRows(f, rows, new, n - 1)
    BY <2>1
  <2> DEFINE g == [k \in 0..n |-> IF k <= n - 1 THEN f[k] ELSE ReplaceMasterRow(f[n - 1], new[n])]
  <2>3. ASSUME NEW k \in 1..n PROVE g[k] = ReplaceMasterRow(g[k - 1], new[k])
    <3>1. g[k - 1] = f[k - 1]
      BY <2>1
    <3>2. CASE k = n
      <4>1. g[k] = ReplaceMasterRow(f[n - 1], new[n])
        BY <3>2, <2>1
      <4> HIDE DEF g
      <4> QED BY <3>1, <3>2, <4>1
    <3>3. CASE k # n
      <4>1. k \in 1..(n - 1) /\ g[k] = f[k]
        BY <3>3, <2>1
      <4> HIDE DEF g
      <4> QED BY <3>1, <4>1, <2>2 DEF WrittenRows
    <3> QED BY <3>2, <3>3
  <2>4. DOMAIN g = 0..n /\ g[0] = rows
    BY <2>1, <2>2 DEF WrittenRows
  <2>5. WrittenRows(g, rows, new, n)
    <3> HIDE DEF g
    <3> QED BY <2>3, <2>4 DEF WrittenRows
  <2> QED BY <2>5
<1> QED BY <1>3, <1>4

LEMMA MasterIsWritten ==
  ASSUME NEW rows, NEW new, NEW n \in Nat, Len(new) = n
  PROVE  \E f : WrittenRows(f, rows, new, n) /\ upsertMaster(rows, new) = f[n]
<1> DEFINE Body(f) == [k \in 0..Len(new) |-> IF k = 0 THEN rows ELSE ReplaceMasterRow(f[k - 1], new[k])]
           after == CHOOSE f : f = Body(f)
<1>1. upsertMaster(rows, new) = after[n]
  BY DEF upsertMaster
<1>2. PICK f : WrittenRows(f, rows, new, n)
  BY WritingGoesOn
<1> DEFINE g == [k \in 0..n |-> f[k]]
<1>3. g = Body(g)
  <2>1. ASSUME NEW k \in 0..n PROVE g[k] = IF k = 0 THEN rows ELSE ReplaceMasterRow(g[k - 1], new[k])
    <3>1. CASE k = 0
      BY <3>1, <1>2 DEF WrittenRows
    <3>2. CASE k # 0
      <4>1. k \in 1..n /\ k - 1 \in 0..n
        BY <3>2
      <4>2. g[k] = f[k] /\ g[k - 1] = f[k - 1]
        BY <4>1
      <4> HIDE DEF g
      <4> QED BY <3>2, <4>1, <4>2, <1>2 DEF WrittenRows
    <3> QED BY <3>1, <3>2
  <2>2. g = [k \in 0..n |-> g[k]]
    OBVIOUS
  <2> HIDE DEF g
  <2> QED BY <2>1, <2>2
<1>4. after = Body(after)
  <2> HIDE DEF g, Body
  <2> QED BY <1>3
<1>5. WrittenRows(after, rows, new, n)
  <2>1. PICK h : h = after
    OBVIOUS
  <2>2. h = [k \in 0..n |-> IF k = 0 THEN rows ELSE ReplaceMasterRow(h[k - 1], new[k])]
    BY <1>4, <2>1
  <2>3. DOMAIN h = 0..n /\ h[0] = rows
    BY <2>2
  <2>4. ASSUME NEW k \in 1..n PROVE h[k] = ReplaceMasterRow(h[k - 1], new[k])
    <3>1. k \in 0..n /\ k # 0
      OBVIOUS
    <3> QED BY <2>2, <3>1
  <2> HIDE DEF after
  <2> QED BY <2>1, <2>3, <2>4 DEF WrittenRows
<1> QED BY <1>1, <1>5

(* Of the first n definitions of an answer each raw symbol has a row, with an identifier of its own *)
(* definitions and with their expiration.                                                            *)
Landed(rows, new, d, n) ==
  \A i \in 1..n :
     /\ \E x \in rows, j \in 1..n : /\ x.dataset = d /\ x.raw = new[i].raw
                                    /\ new[j].raw = new[i].raw /\ x.id = new[j].id
     /\ \A x \in rows : x.dataset = d /\ x.raw = new[i].raw => x.expiration = new[i].expiration

LEMMA OneMoreLands ==
  ASSUME NEW new, NEW d, NEW N \in Nat, NEW n \in 1..N, NEW rows, Landed(rows, new, d, n - 1),
         \A i \in 1..N : new[i].dataset = d,
         \A i, j \in 1..N : /\ new[i].id = new[j].id => new[i].raw = new[j].raw
                            /\ new[i].raw = new[j].raw => new[i].expiration = new[j].expiration
  PROVE  Landed(ReplaceMasterRow(rows, new[n]), new, d, n)
<1> SUFFICES ASSUME NEW i \in 1..n
             PROVE  /\ \E x \in ReplaceMasterRow(rows, new[n]), j \in 1..n :
                         /\ x.dataset = d /\ x.raw = new[i].raw
                         /\ new[j].raw = new[i].raw /\ x.id = new[j].id
                    /\ \A x \in ReplaceMasterRow(rows, new[n]) :
                         x.dataset = d /\ x.raw = new[i].raw => x.expiration = new[i].expiration
  BY DEF Landed
<1>1. i \in 1..N /\ n \in 1..n /\ n \in 1..N /\ new[n] \in ReplaceMasterRow(rows, new[n])
  BY DEF ReplaceMasterRow
<1>2. CASE new[i].raw = new[n].raw
  <2>1. \A x \in ReplaceMasterRow(rows, new[n]) : x.dataset = d /\ x.raw = new[n].raw => x = new[n]
    BY <1>1 DEF ReplaceMasterRow
  <2>2. new[n].expiration = new[i].expiration
    BY <1>1, <1>2
  <2> QED BY <1>1, <1>2, <2>1, <2>2
<1>3. CASE new[i].raw # new[n].raw
  <2>1. i \in 1..(n - 1)
    BY <1>3
  <2>2. PICK x \in rows, j \in 1..(n - 1) : /\ x.dataset = d /\ x.raw = new[i].raw
                                            /\ new[j].raw = new[i].raw /\ x.id = new[j].id
    BY <2>1 DEF Landed
  <2>3. j \in 1..N /\ j \in 1..n /\ new[j].id # new[n].id
    BY <1>1, <1>3, <2>2
  <2>4. x \in ReplaceMasterRow(rows, new[n])
    BY <1>3, <2>2, <2>3 DEF ReplaceMasterRow
  <2>5. ASSUME NEW y \in ReplaceMasterRow(rows, new[n]), y.dataset = d, y.raw = new[i].raw
        PROVE  y.expiration = new[i].expiration
    <3>1. y \in rows
      BY <1>3, <2>5 DEF ReplaceMasterRow
    <3> QED BY <2>1, <2>5, <3>1 DEF Landed
  <2> QED BY <2>2, <2>3, <2>4, <2>5
<1> QED BY <1>2, <1>3

LEMMA AllOfThemLand ==
  ASSUME NEW new, NEW d, NEW N \in Nat, NEW f, NEW rows, WrittenRows(f, rows, new, N),
         \A i \in 1..N : new[i].dataset = d,
         \A i, j \in 1..N : /\ new[i].id = new[j].id => new[i].raw = new[j].raw
                            /\ new[i].raw = new[j].raw => new[i].expiration = new[j].expiration
  PROVE  Landed(f[N], new, d, N)
<1> DEFINE Bad == {n \in 0..N : ~Landed(f[n], new, d, n)}
<1>1. SUFFICES ASSUME Bad # {} PROVE FALSE
  BY <1>1
<1>2. PICK n \in Bad : \A c \in Bad : n <= c
  <2> HIDE DEF Bad
  <2>1. Bad \in SUBSET Nat
    BY DEF Bad
  <2> QED BY <1>1, <2>1, LeastOf
<1>3. n # 0
  BY DEF Landed
<1>4. n \in 1..N /\ n - 1 \in 0..N
  BY <1>3
<1>5. Landed(f[n - 1], new, d, n - 1)
  BY <1>2, <1>4
<1>6. f[n] = ReplaceMasterRow(f[n - 1], new[n])
  BY <1>4 DEF WrittenRows
<1>7. PICK r : r = f[n - 1]
  OBVIOUS
<1>8. Landed(ReplaceMasterRow(r, new[n]), new, d, n)
  BY <1>4, <1>5, <1>7, OneMoreLands
<1> QED BY <1>6, <1>7, <1>8

(* What is stored of an answer with the dataset d. *)
LEMMA AnswerIsStored ==
  ASSUME CatalogueAssumption, NEW d \in DOMAIN ClassOf, NEW records \in Answers[d],
         NEW table, SoundSpecs(table), NEW rows, rows = [i \in DOMAIN records |-> toSpecRow(records[i], d)],
         NEW stored, stored = upsertInstrumentSpecs(table, dedupeByRoot(rows))
  PROVE  /\ SoundSpecs(stored)
         /\ \A i \in DOMAIN records : /\ stored[rootOf(records[i])] # None
                                      /\ stored[rootOf(records[i])].class = ClassOf[d]
<1>1. PICK n \in Nat : DOMAIN records = 1..n
  BY DEF CatalogueAssumption
<1>2. DOMAIN rows = 1..n
  BY <1>1
<1>3. ASSUME NEW i \in 1..n
      PROVE  /\ rows[i] = toSpecRow(records[i], d) /\ rows[i].root = rootOf(records[i])
             /\ rows[i].class = ClassOf[d] /\ TickIsTrue(rows[i])
             /\ rootOf(records[i]) \in Symbols /\ rows[i] # None
  <2>1. rows[i] = toSpecRow(records[i], d)
    BY <1>1
  <2>2. PICK r, x : r = records[i] /\ x = rows[i]
    OBVIOUS
  <2>3. x.root = rootOf(r) /\ x.class = ClassOf[d] /\ TickIsTrue(x)
    BY <2>1, <2>2, SpecRowIs
  <2>4. rootOf(records[i]) \in Symbols /\ toSpecRow(records[i], d) # None
    BY <1>1 DEF CatalogueAssumption
  <2> QED BY <2>1, <2>2, <2>3, <2>4
<1>4. PICK first : first = dedupeByRoot(rows)
  OBVIOUS
<1>5. /\ \A x \in first : \E i \in 1..n : x = rows[i]
      /\ \A i \in 1..n : \E x \in first : x.root = rows[i].root
  BY <1>2, <1>4, FirstOfEachRoot
<1>6. \A x \in first : TickIsTrue(x) /\ x.class = ClassOf[d] /\ x # None
  BY <1>3, <1>5
<1>7. /\ SoundSpecs(stored)
      /\ \A x \in first : x.root \in Symbols => \E y \in first : y.root = x.root /\ stored[x.root] = y
  BY <1>4, <1>6, SpecsAreStored
<1>8. ASSUME NEW i \in 1..n
      PROVE  stored[rootOf(records[i])] # None /\ stored[rootOf(records[i])].class = ClassOf[d]
  <2>1. PICK x \in first : x.root = rootOf(records[i])
    BY <1>3, <1>5
  <2>2. PICK y \in first : stored[rootOf(records[i])] = y
    BY <2>1, <1>3, <1>7
  <2> QED BY <2>2, <1>6
<1> QED BY <1>1, <1>7, <1>8

(* What the master has of it. *)
MasterRowsOf(records, d) == [i \in DOMAIN records |-> toMasterRow(records[i], d, i)]

InMaster(rows, records, d) ==
  \A i \in DOMAIN records :
     /\ \E x \in rows : x.dataset = d /\ x.raw = records[i].raw
     /\ \A x \in rows : x.dataset = d /\ x.raw = records[i].raw => x.expiration = records[i].expiration

LEMMA AnswerIsInTheMaster ==
  ASSUME CatalogueAssumption, NEW d \in DOMAIN ClassOf, NEW records \in Answers[d], NEW rows
  PROVE  InMaster(upsertMaster(rows, MasterRowsOf(records, d)), records, d)
<1> DEFINE after == upsertMaster(rows, MasterRowsOf(records, d))
<1>0. PICK new : new = [i \in DOMAIN records |-> toMasterRow(records[i], d, i)]
  OBVIOUS
<1>1. PICK n \in Nat : DOMAIN records = 1..n
  BY DEF CatalogueAssumption
<1>2. new = [i \in 1..n |-> new[i]]
  BY <1>0, <1>1
<1>3. Len(new) = n
  <2>1. new \in Seq({new[i] : i \in 1..n})
    BY <1>2
  <2> QED BY <1>2, <2>1
<1>4. ASSUME NEW i \in 1..n
      PROVE  /\ new[i] = toMasterRow(records[i], d, i) /\ new[i].dataset = d
             /\ new[i].raw = records[i].raw /\ new[i].expiration = records[i].expiration
  <2>1. new[i] = toMasterRow(records[i], d, i)
    BY <1>0, <1>1
  <2> QED BY <2>1 DEF toMasterRow
<1>5. ASSUME NEW i \in 1..n, NEW j \in 1..n
      PROVE  /\ new[i].id = new[j].id => new[i].raw = new[j].raw
             /\ new[i].raw = new[j].raw => new[i].expiration = new[j].expiration
  <2>1. /\ toMasterRow(records[i], d, i).id = toMasterRow(records[j], d, j).id => records[i].raw = records[j].raw
        /\ records[i].raw = records[j].raw => records[i].expiration = records[j].expiration
    BY <1>1 DEF CatalogueAssumption
  <2> QED BY <2>1, <1>4
<1>6. PICK f : WrittenRows(f, rows, new, n) /\ after = f[n]
  <2>1. \E f : WrittenRows(f, rows, new, n) /\ upsertMaster(rows, new) = f[n]
    BY ONLY n \in Nat, <1>3, MasterIsWritten
  <2> QED BY <2>1, <1>0 DEF MasterRowsOf
<1>7. Landed(f[n], new, d, n)
  <2>1. \A i \in 1..n : new[i].dataset = d
    BY <1>4
  <2>2. \A i, j \in 1..n : /\ new[i].id = new[j].id => new[i].raw = new[j].raw
                           /\ new[i].raw = new[j].raw => new[i].expiration = new[j].expiration
    BY <1>5
  <2>3. n \in Nat /\ WrittenRows(f, rows, new, n)
    BY <1>6
  <2> QED BY ONLY <2>1, <2>2, <2>3, AllOfThemLand
<1>8. ASSUME NEW i \in 1..n
      PROVE  /\ \E x \in after : x.dataset = d /\ x.raw = records[i].raw
             /\ \A x \in after : x.dataset = d /\ x.raw = records[i].raw =>
                                   x.expiration = records[i].expiration
  <2>1. /\ \E x \in f[n] : x.dataset = d /\ x.raw = new[i].raw
        /\ \A x \in f[n] : x.dataset = d /\ x.raw = new[i].raw => x.expiration = new[i].expiration
    BY <1>7 DEF Landed
  <2> HIDE DEF after
  <2> QED BY <1>4, <1>6, <2>1
<1>9. InMaster(after, records, d)
  <2> HIDE DEF after
  <2> QED BY <1>1, <1>8 DEF InMaster
<1> QED BY <1>9

-----------------------------------------------------------------------------
(* The steps. *)

(* A step keeps what is registered, or forgets all of it. *)
KeepsInstruments ==
  (\E s \in Symbols : dynamic[s] # None /\ dynamic'[s] # dynamic[s]) => dynamic' = [s \in Symbols |-> None]

LEMMA RecordsStart == ASSUME CatalogueInit PROVE CatalogueInv
<1>1. <<>> \in Seq(Seq(DOMAIN ClassOf))
  OBVIOUS
<1> QED BY <1>1 DEF CatalogueInit, CatalogueInv, SoundRecords, SoundSpecs, SyncLands

(* What is asked for is registered; the tables stay. *)
LEMMA AskingKeeps ==
  ASSUME CatalogueAssumption, CatalogueInv, NEW wanted, dynamic' = Registered(dynamic, specs, wanted),
         synced' = None, UNCHANGED <<specs, masterRows, syncs>>
  PROVE  CatalogueInv' /\ KeepsInstruments
<1>1. SoundRecords(dynamic) /\ SoundSpecs(specs)
  BY DEF CatalogueInv
<1>2. PICK known, stored, after : known = dynamic /\ stored = specs /\ after = Registered(known, stored, wanted)
  OBVIOUS
<1>3. /\ SoundRecords(after)
      /\ \A s \in Symbols : known[s] # None => after[s] = known[s]
  BY <1>1, <1>2, RegisteringIsSound
<1>4. SoundRecords(dynamic)' /\ SoundSpecs(specs)'
  BY <1>1, <1>2, <1>3 DEF SoundRecords, SoundSpecs, OfItsRoot
<1> QED BY <1>2, <1>3, <1>4 DEF CatalogueInv, KeepsInstruments, SyncLands

LEMMA SyncStarts == ASSUME CatalogueInv, StartSync PROVE CatalogueInv' /\ KeepsInstruments
<1>1. SoundSpecs(purgeInvalidInstrumentSpecs(specs))
  BY PurgeIsSound DEF CatalogueInv
<1>2. Datasets \in Seq(DOMAIN ClassOf)
  BY DEF Datasets, ClassOf
<1>3. syncs' \in Seq(Seq(DOMAIN ClassOf))
  BY <1>2 DEF CatalogueInv, StartSync
<1> QED BY <1>1, <1>3 DEF CatalogueInv, StartSync, KeepsInstruments, SyncLands, SoundRecords, SoundSpecs, OfItsRoot

(* The dataset that is asked for, and those that remain. *)
LEMMA OneDatasetLess ==
  ASSUME syncs \in Seq(Seq(DOMAIN ClassOf)), NEW k \in DOMAIN syncs, syncs[k] # <<>>,
         syncs' = [syncs EXCEPT ![k] = Tail(@)]
  PROVE  Head(syncs[k]) \in DOMAIN ClassOf /\ syncs' \in Seq(Seq(DOMAIN ClassOf))
<1>1. syncs[k] \in Seq(DOMAIN ClassOf)
  OBVIOUS
<1>2. PICK q : q = syncs[k]
  OBVIOUS
<1>3. q \in Seq(DOMAIN ClassOf) /\ q # <<>>
  BY <1>1, <1>2
<1>4. Head(q) \in DOMAIN ClassOf /\ Tail(q) \in Seq(DOMAIN ClassOf)
  BY <1>3
<1>5. syncs' = [syncs EXCEPT ![k] = Tail(q)]
  BY <1>2
<1> QED BY <1>2, <1>4, <1>5

LEMMA SyncFails ==
  ASSUME CatalogueInv, NEW k, SyncFailed(k) PROVE CatalogueInv' /\ KeepsInstruments
<1>1. syncs' \in Seq(Seq(DOMAIN ClassOf))
  BY OneDatasetLess DEF CatalogueInv, SyncFailed
<1> QED BY <1>1 DEF CatalogueInv, SyncFailed, KeepsInstruments, SyncLands, SoundRecords, SoundSpecs, OfItsRoot

LEMMA CatalogueRestarts == ASSUME CatalogueInv, RestartCatalogue PROVE CatalogueInv' /\ KeepsInstruments
<1>1. <<>> \in Seq(Seq(DOMAIN ClassOf))
  OBVIOUS
<1> QED BY <1>1 DEF CatalogueInv, RestartCatalogue, KeepsInstruments, SyncLands, SoundRecords, SoundSpecs, OfItsRoot

LEMMA AnswerKeeps ==
  ASSUME CatalogueAssumption, CatalogueInv, NEW k \in DOMAIN syncs, syncs[k] # <<>>,
         NEW records \in Answers[Head(syncs[k])], NEW ok \in BOOLEAN, SyncAnswered(k, records, ok)
  PROVE  CatalogueInv' /\ KeepsInstruments
<1>1. PICK d : d = Head(syncs[k])
  OBVIOUS
<1>2. d \in DOMAIN ClassOf /\ records \in Answers[d] /\ syncs' \in Seq(Seq(DOMAIN ClassOf))
  BY <1>1, OneDatasetLess DEF CatalogueInv, SyncAnswered
<1>3. PICK rows, new, known, table, before :
         /\ rows = [i \in DOMAIN records |-> toSpecRow(records[i], d)]
         /\ new = MasterRowsOf(records, d)
         /\ known = dynamic /\ table = specs /\ before = masterRows
  OBVIOUS
<1>4. PICK written, merged :
         written = upsertInstrumentSpecs(table, dedupeByRoot(rows)) /\ merged = upsertMaster(before, new)
  OBVIOUS
<1>5. PICK stored : stored = IF ok THEN written ELSE table
  OBVIOUS
<1>6. PICK wanted, after : wanted = {r.root : r \in dedupeByRoot(rows)} /\ after = Registered(known, stored, wanted)
  OBVIOUS
<1>7. /\ specs' = stored /\ masterRows' = (IF ok THEN merged ELSE before) /\ dynamic' = after
      /\ synced' = [dataset |-> d, records |-> records, written |-> ok]
  BY <1>1, <1>3, <1>4, <1>5, <1>6 DEF SyncAnswered, MasterRowsOf
<1>8. SoundRecords(known) /\ SoundSpecs(table)
  BY <1>3 DEF CatalogueInv
<1>9. /\ SoundSpecs(written)
      /\ \A i \in DOMAIN records : /\ written[rootOf(records[i])] # None
                                   /\ written[rootOf(records[i])].class = ClassOf[d]
  BY <1>2, <1>3, <1>4, <1>8, AnswerIsStored
<1>10. InMaster(merged, records, d)
  BY <1>2, <1>3, <1>4, AnswerIsInTheMaster
<1>11. SoundSpecs(stored)
  BY <1>5, <1>8, <1>9
<1>12. SoundRecords(after) /\ \A s \in Symbols : known[s] # None => after[s] = known[s]
  BY <1>6, <1>8, <1>11, RegisteringIsSound
<1>13. SyncLands'
  <2> SUFFICES ASSUME ok, NEW i \in DOMAIN records
      PROVE  /\ \A x \in {y \in masterRows' : y.dataset = d /\ y.raw = records[i].raw} :
                   x.expiration = records[i].expiration
             /\ {y \in masterRows' : y.dataset = d /\ y.raw = records[i].raw} # {}
             /\ specs'[rootOf(records[i])] # None /\ specs'[rootOf(records[i])].class = ClassOf[d]
    BY <1>7 DEF SyncLands, getByRawSymbol
  <2> QED BY <1>5, <1>7, <1>9, <1>10 DEF InMaster
<1>14. KeepsInstruments
  BY <1>3, <1>7, <1>12 DEF KeepsInstruments
<1>15. SoundRecords(dynamic)' /\ SoundSpecs(specs)'
  BY <1>7, <1>11, <1>12 DEF SoundRecords, SoundSpecs, OfItsRoot
<1> QED BY <1>2, <1>13, <1>14, <1>15 DEF CatalogueInv

LEMMA CatalogueStep ==
  ASSUME CatalogueAssumption, CatalogueInv, NEW wanted, NEW read, NEW datasets, CatalogueNext(wanted, read, datasets)
  PROVE  CatalogueInv' /\ KeepsInstruments
<1>1. ASSUME NEW s \in wanted, Lookup(s) PROVE CatalogueInv' /\ KeepsInstruments
  BY <1>1, AskingKeeps DEF Lookup
<1>2. ASSUME NEW s \in read, NEW d \in datasets, Ask(s, d) PROVE CatalogueInv' /\ KeepsInstruments
  <2>1. synced' = None /\ UNCHANGED <<dynamic, specs, masterRows, syncs>>
    BY <1>2 DEF Ask
  <2> QED BY <2>1 DEF CatalogueInv, KeepsInstruments, SyncLands, SoundRecords, SoundSpecs, OfItsRoot
<1>3. CASE ListInstruments
  BY <1>3, AskingKeeps DEF ListInstruments
<1>4. CASE StartSync
  BY <1>4, SyncStarts
<1>5. CASE RestartCatalogue
  BY <1>5, CatalogueRestarts
<1>6. ASSUME NEW k \in DOMAIN syncs, SyncFailed(k) PROVE CatalogueInv' /\ KeepsInstruments
  BY <1>6, SyncFails
<1>7. ASSUME NEW k \in DOMAIN syncs, syncs[k] # <<>>, NEW records \in Answers[Head(syncs[k])],
             NEW ok \in BOOLEAN, SyncAnswered(k, records, ok)
      PROVE  CatalogueInv' /\ KeepsInstruments
  BY <1>7, AnswerKeeps
<1> QED BY <1>1, <1>2, <1>3, <1>4, <1>5, <1>6, <1>7 DEF CatalogueNext

LEMMA RecordsAreSound == ASSUME CatalogueAssumption, CatalogueInv PROVE RecordsAgree
<1>1. ASSUME NEW s \in Symbols, dynamic[s] # None
      PROVE  /\ dynamic[s].value = tickValueFor(dynamic[s].point, dynamic[s].tick)
             /\ s.month # None /\ s.root \in DOMAIN Table =>
                   dynamic[s].tick = Table[s.root].tick /\ dynamic[s].point = Table[s.root].point
  BY <1>1 DEF CatalogueInv, SoundRecords, TickIsTrue, OfItsRoot
<1>2. ASSUME NEW r \in DOMAIN Table
      PROVE  /\ Table[r].value = tickValueFor(Table[r].point, Table[r].tick)
             /\ Table[r].parent # None => Table[Table[r].parent].micro = r
             /\ Table[r].micro # None =>
                   /\ Table[Table[r].micro].parent = r
                   /\ Table[r].microValue \in {None, Table[Table[r].micro].value}
  BY TableAgrees DEF TickIsTrue
<1>3. TicksAgree
  BY <1>1, <1>2 DEF TicksAgree
<1> QED BY <1>3 DEF RecordsAgree, CatalogueInv

LEMMA CatalogueGoesOn ==
  ASSUME CatalogueAssumption, CatalogueInv,
         [CatalogueNext(Symbols, Symbols, {None} \cup DOMAIN ClassOf)]_catalogueVars
  PROVE  CatalogueInv'
<1>1. CASE CatalogueNext(Symbols, Symbols, {None} \cup DOMAIN ClassOf)
  BY <1>1, CatalogueStep
<1>2. CASE UNCHANGED catalogueVars
  BY <1>2 DEF catalogueVars, CatalogueInv, SyncLands, SoundRecords, SoundSpecs, OfItsRoot, getByRawSymbol
<1> QED BY <1>1, <1>2

(* The records of a symbol agree wherever they are looked up, whatever was asked for before, in *)
(* whatever order the vendor's answers came; and what a synchronisation wrote is found: the     *)
(* registry of futuresConfig.ts and the tables of instrumentSync.ts and instruments/master.ts.  *)
THEOREM RecordsAgreeTheorem == ASSUME CatalogueAssumption PROVE CatalogueSpec => []RecordsAgree
<1>1. CatalogueInit => CatalogueInv
  BY RecordsStart
<1>2. CatalogueInv /\ [CatalogueNext(Symbols, Symbols, {None} \cup DOMAIN ClassOf)]_catalogueVars => CatalogueInv'
  BY CatalogueGoesOn
<1>3. CatalogueInv => RecordsAgree
  BY RecordsAreSound
<1> QED BY <1>1, <1>2, <1>3, PTL DEF CatalogueSpec

(* A symbol means one instrument for the life of the process: what getOrRegisterInstrument has put *)
(* in DYNAMIC_INSTRUMENTS is replaced by nothing but a restart (futuresConfig.ts).                 *)
THEOREM InstrumentNeverChangesTheorem == ASSUME CatalogueAssumption PROVE CatalogueSpec => InstrumentNeverChanges
<1>1. CatalogueInit => CatalogueInv
  BY RecordsStart
<1>2. CatalogueInv /\ [CatalogueNext(Symbols, Symbols, {None} \cup DOMAIN ClassOf)]_catalogueVars => CatalogueInv'
  BY CatalogueGoesOn
<1>3. CatalogueInv /\ [CatalogueNext(Symbols, Symbols, {None} \cup DOMAIN ClassOf)]_catalogueVars
      => [KeepsInstruments]_catalogueVars
  BY CatalogueStep
<1> QED BY <1>1, <1>2, <1>3, PTL DEF CatalogueSpec, InstrumentNeverChanges, KeepsInstruments

-----------------------------------------------------------------------------
(* Tape: sums over finite sets. *)

(* A function of the subsets up to a size that sums as the fold does. *)
First1(S) == CHOOSE x \in S : TRUE
Small(S, k) == {s \in SUBSET S : Cardinality(s) <= k}
Sums(f, amount, S, k) ==
  /\ DOMAIN f = Small(S, k)
  /\ \A s \in Small(S, k) : f[s] = IF s = {} THEN 0 ELSE amount[First1(s)] + f[s \ {First1(s)}]

LEMMA OneLess ==
  ASSUME NEW S, IsFiniteSet(S), S # {}
  PROVE  /\ First1(S) \in S /\ IsFiniteSet(S \ {First1(S)}) /\ Cardinality(S) \in Nat \ {0}
         /\ Cardinality(S \ {First1(S)}) = Cardinality(S) - 1
<1>1. First1(S) \in S
  BY DEF First1
<1>2. IsFiniteSet(S \ {First1(S)}) /\ Cardinality(S \ {First1(S)}) = Cardinality(S) - 1
  BY <1>1, FS_RemoveElement
<1>3. Cardinality(S) \in Nat /\ Cardinality(S) # 0
  BY FS_CardinalityType, FS_EmptySet
<1> QED BY <1>1, <1>2, <1>3

LEMMA SmallerSum ==
  ASSUME NEW S, IsFiniteSet(S), NEW k \in Nat, NEW s \in Small(S, k), s # {}
  PROVE  /\ k # 0 /\ s \ {First1(s)} \in Small(S, k - 1) /\ s \ {First1(s)} \in Small(S, k)
         /\ s \in SUBSET S /\ IsFiniteSet(s)
<1>1. s \in SUBSET S /\ Cardinality(s) <= k /\ IsFiniteSet(s)
  BY FS_Subset DEF Small
<1>2. /\ IsFiniteSet(s \ {First1(s)}) /\ Cardinality(s) \in Nat \ {0}
      /\ Cardinality(s \ {First1(s)}) = Cardinality(s) - 1
  BY <1>1, OneLess
<1> QED BY <1>1, <1>2 DEF Small

LEMMA SummingGoesOn ==
  ASSUME NEW S, IsFiniteSet(S), NEW amount
  PROVE  \A k \in Nat : \E f : Sums(f, amount, S, k)
<1> DEFINE Bad == {k \in Nat : ~\E f : Sums(f, amount, S, k)}
<1>1. SUFFICES ASSUME Bad # {} PROVE FALSE
  BY <1>1
<1>2. PICK k \in Bad : \A c \in Bad : k <= c
  <2> HIDE DEF Bad
  <2>1. Bad \in SUBSET Nat
    BY DEF Bad
  <2> QED BY <1>1, <2>1, LeastOf
<1>3. CASE k = 0
  <2> DEFINE f == [s \in Small(S, 0) |-> 0]
  <2>1. ASSUME NEW s \in Small(S, 0) PROVE s = {}
    BY <2>1, SmallerSum
  <2>2. Sums(f, amount, S, 0)
    BY <2>1 DEF Sums
  <2> QED BY <1>3, <2>2
<1>4. CASE k # 0
  <2>1. k - 1 \in Nat /\ k - 1 \notin Bad /\ k \in Nat
    BY <1>2, <1>4
  <2>2. PICK f : Sums(f, amount, S, k - 1)
    BY <2>1
  <2> DEFINE g == [s \in Small(S, k) |-> IF s = {} THEN 0 ELSE amount[First1(s)] + f[s \ {First1(s)}]]
  <2>3. ASSUME NEW s \in Small(S, k - 1) PROVE g[s] = f[s]
    <3>1. s \in Small(S, k)
      <4>1. s \in SUBSET S /\ Cardinality(s) <= k - 1 /\ Cardinality(s) \in Nat
        BY FS_Subset, FS_CardinalityType DEF Small
      <4> QED BY <2>1, <4>1 DEF Small
    <3>2. f[s] = IF s = {} THEN 0 ELSE amount[First1(s)] + f[s \ {First1(s)}]
      BY <2>2 DEF Sums
    <3> QED BY <3>1, <3>2
  <2>4. ASSUME NEW s \in Small(S, k), s # {} PROVE g[s] = amount[First1(s)] + g[s \ {First1(s)}]
    <3>1. s \ {First1(s)} \in Small(S, k - 1)
      BY <2>1, <2>4, SmallerSum
    <3>2. g[s] = amount[First1(s)] + f[s \ {First1(s)}]
      BY <2>4
    <3> HIDE DEF g
    <3> QED BY <2>3, <3>1, <3>2
  <2>5. Sums(g, amount, S, k)
    <3>1. \A s \in Small(S, k) : s = {} => g[s] = 0
      OBVIOUS
    <3>2. DOMAIN g = Small(S, k)
      OBVIOUS
    <3> HIDE DEF g
    <3> QED BY <2>4, <3>1, <3>2 DEF Sums
  <2> QED BY <2>1, <2>5
<1> QED BY <1>3, <1>4

(* The fold is such a function. *)
LEMMA FoldSums ==
  ASSUME NEW S, IsFiniteSet(S), NEW amount
  PROVE  \E f : Sums(f, amount, S, Cardinality(S)) /\ Total(amount, S) = f[S]
<1>1. Cardinality(S) \in Nat /\ Small(S, Cardinality(S)) = SUBSET S
  BY FS_CardinalityType, FS_Subset DEF Small
<1> DEFINE Body(f) == [s \in SUBSET S |-> IF s = {} THEN 0 ELSE amount[First1(s)] + f[s \ {First1(s)}]]
           iter == CHOOSE f : f = Body(f)
<1>2. Total(amount, S) = iter[S]
  BY DEF Total, FoldSet, MapThenFoldSet, First1
<1>3. PICK f : Sums(f, amount, S, Cardinality(S))
  BY <1>1, SummingGoesOn
<1> DEFINE g == [s \in SUBSET S |-> f[s]]
<1>4. g = Body(g)
  <2>1. ASSUME NEW s \in SUBSET S PROVE g[s] = IF s = {} THEN 0 ELSE amount[First1(s)] + g[s \ {First1(s)}]
    <3>1. f[s] = IF s = {} THEN 0 ELSE amount[First1(s)] + f[s \ {First1(s)}]
      BY <1>1, <1>3 DEF Sums
    <3>2. s \ {First1(s)} \in SUBSET S
      OBVIOUS
    <3>3. g[s] = f[s] /\ g[s \ {First1(s)}] = f[s \ {First1(s)}]
      BY <3>2
    <3> QED BY <3>1, <3>3
  <2>2. g = [s \in SUBSET S |-> g[s]]
    OBVIOUS
  <2> HIDE DEF g
  <2> QED BY <2>1, <2>2
<1>5. iter = Body(iter)
  <2> HIDE DEF g, Body
  <2> QED BY <1>4
<1>6. DOMAIN iter = SUBSET S /\ \A s \in SUBSET S : iter[s] = IF s = {} THEN 0 ELSE amount[First1(s)] + iter[s \ {First1(s)}]
  <2> HIDE DEF iter
  <2> QED BY <1>5
<1>7. Sums(iter, amount, S, Cardinality(S))
  <2> HIDE DEF iter
  <2> QED BY <1>1, <1>6 DEF Sums
<1> QED BY <1>2, <1>7

LEMMA SumsAgree ==
  ASSUME NEW S, IsFiniteSet(S), NEW T, IsFiniteSet(T), NEW amount, NEW other, NEW f, NEW g,
         Sums(f, amount, S, Cardinality(S)), Sums(g, other, T, Cardinality(T))
  PROVE  \A s \in SUBSET S : s \subseteq T /\ (\A x \in s : amount[x] = other[x]) => f[s] = g[s]
<1> DEFINE Alike(s) == s \subseteq T /\ \A x \in s : amount[x] = other[x]
           Bad == {n \in Nat : \E s \in SUBSET S : Cardinality(s) = n /\ Alike(s) /\ f[s] # g[s]}
<1>1. Small(S, Cardinality(S)) = SUBSET S /\ Small(T, Cardinality(T)) = SUBSET T
  BY FS_Subset DEF Small
<1>2. /\ \A s \in SUBSET S : f[s] = IF s = {} THEN 0 ELSE amount[First1(s)] + f[s \ {First1(s)}]
      /\ \A s \in SUBSET T : g[s] = IF s = {} THEN 0 ELSE other[First1(s)] + g[s \ {First1(s)}]
  BY <1>1 DEF Sums
<1>3. ASSUME Bad # {} PROVE FALSE
  <2>1. PICK n \in Bad : \A c \in Bad : n <= c
    <3> HIDE DEF Bad
    <3>1. Bad \in SUBSET Nat
      BY DEF Bad
    <3> QED BY <1>3, <3>1, LeastOf
  <2>2. PICK s \in SUBSET S : Cardinality(s) = n /\ Alike(s) /\ f[s] # g[s]
    OBVIOUS
  <2>3. s # {}
    BY <1>2, <2>2
  <2>4. IsFiniteSet(s) /\ n \in Nat
    BY FS_Subset
  <2>5. PICK c : c = First1(s)
    OBVIOUS
  <2>6. c \in s /\ Cardinality(s \ {c}) = n - 1 /\ n \in Nat \ {0}
    BY <2>2, <2>3, <2>4, <2>5, OneLess
  <2>7. n - 1 \notin Bad /\ n - 1 \in Nat
    BY <2>1, <2>6
  <2>8. s \ {c} \in SUBSET S /\ Alike(s \ {c})
    BY <2>2
  <2>9. f[s \ {c}] = g[s \ {c}]
    BY <2>6, <2>7, <2>8
  <2>10. f[s] = amount[c] + f[s \ {c}] /\ g[s] = other[c] + g[s \ {c}] /\ amount[c] = other[c]
    BY <1>2, <2>2, <2>3, <2>5, <2>6
  <2> QED BY <2>2, <2>9, <2>10
<1>4. ASSUME NEW s \in SUBSET S, Alike(s) PROVE f[s] = g[s]
  <2>1. Cardinality(s) \in Nat
    BY FS_Subset, FS_CardinalityType
  <2>2. Cardinality(s) \notin Bad
    BY <1>3
  <2> QED BY <1>4, <2>1, <2>2
<1> QED BY <1>4

LEMMA TotalOfNothing == ASSUME NEW amount PROVE Total(amount, {}) = 0
<1>1. IsFiniteSet({}) /\ Cardinality({}) = 0
  BY FS_EmptySet
<1>2. PICK f : Sums(f, amount, {}, Cardinality({})) /\ Total(amount, {}) = f[{}]
  BY <1>1, FoldSums
<1>3. {} \in Small({}, Cardinality({}))
  BY <1>1 DEF Small
<1> QED BY <1>2, <1>3 DEF Sums

LEMMA TotalOfFirst ==
  ASSUME NEW S, IsFiniteSet(S), S # {}, NEW amount
  PROVE  Total(amount, S) = amount[First1(S)] + Total(amount, S \ {First1(S)})
<1>1. PICK c : c = First1(S)
  OBVIOUS
<1>2. PICK T : T = S \ {c}
  OBVIOUS
<1>3. IsFiniteSet(T)
  BY <1>1, <1>2, OneLess
<1>4. PICK f : Sums(f, amount, S, Cardinality(S)) /\ Total(amount, S) = f[S]
  BY FoldSums
<1>5. PICK g : Sums(g, amount, T, Cardinality(T)) /\ Total(amount, T) = g[T]
  BY <1>3, FoldSums
<1>6. \A s \in SUBSET T : s \subseteq S /\ (\A x \in s : amount[x] = amount[x]) => g[s] = f[s]
  BY <1>3, <1>4, <1>5, SumsAgree
<1>7. f[T] = g[T]
  BY <1>2, <1>6
<1>8. S \in Small(S, Cardinality(S))
  BY FS_CardinalityType DEF Small
<1>9. f[S] = amount[c] + f[S \ {c}]
  BY <1>1, <1>4, <1>8 DEF Sums
<1> QED BY <1>1, <1>2, <1>4, <1>5, <1>7, <1>9

LEMMA TotalOfAlike ==
  ASSUME NEW S, IsFiniteSet(S), NEW amount, NEW other, \A x \in S : amount[x] = other[x]
  PROVE  Total(amount, S) = Total(other, S)
<1>1. PICK f : Sums(f, amount, S, Cardinality(S)) /\ Total(amount, S) = f[S]
  BY FoldSums
<1>2. PICK g : Sums(g, other, S, Cardinality(S)) /\ Total(other, S) = g[S]
  BY FoldSums
<1>3. \A s \in SUBSET S : s \subseteq S /\ (\A x \in s : amount[x] = other[x]) => f[s] = g[s]
  BY <1>1, <1>2, SumsAgree
<1> QED BY <1>1, <1>2, <1>3

(* A finite set of natural amounts has a natural total, and one more adds its amount. *)
LEMMA TotalIsNat ==
  ASSUME NEW S, IsFiniteSet(S), NEW amount, \A x \in S : amount[x] \in Nat
  PROVE  Total(amount, S) \in Nat
<1> DEFINE Bad == {n \in Nat : \E s \in SUBSET S : Cardinality(s) = n /\ Total(amount, s) \notin Nat}
<1>1. ASSUME Bad # {} PROVE FALSE
  <2>1. PICK n \in Bad : \A c \in Bad : n <= c
    <3> HIDE DEF Bad
    <3>1. Bad \in SUBSET Nat
      BY DEF Bad
    <3> QED BY <1>1, <3>1, LeastOf
  <2>2. PICK s \in SUBSET S : Cardinality(s) = n /\ Total(amount, s) \notin Nat
    OBVIOUS
  <2>3. s # {} /\ IsFiniteSet(s)
    <3>1. Total(amount, {}) \in Nat
      BY TotalOfNothing
    <3>2. IsFiniteSet(s)
      BY FS_Subset
    <3> QED BY <2>2, <3>1, <3>2
  <2>4. PICK c : c = First1(s)
    OBVIOUS
  <2>5. c \in s /\ Cardinality(s \ {c}) = n - 1 /\ n \in Nat \ {0}
    BY <2>2, <2>3, <2>4, OneLess
  <2>6. Total(amount, s) = amount[c] + Total(amount, s \ {c})
    BY <2>3, <2>4, TotalOfFirst
  <2>7. n - 1 \notin Bad /\ n - 1 \in Nat /\ s \ {c} \in SUBSET S
    BY <2>1, <2>5
  <2>8. Total(amount, s \ {c}) \in Nat
    BY <2>5, <2>7
  <2>9. amount[c] \in Nat
    BY <2>2, <2>5
  <2> QED BY <2>2, <2>6, <2>8, <2>9
<1>2. Cardinality(S) \in Nat /\ Cardinality(S) \notin Bad
  BY <1>1, FS_CardinalityType
<1> QED BY <1>2

LEMMA TotalIsInt ==
  ASSUME NEW S, IsFiniteSet(S), NEW amount, \A x \in S : amount[x] \in Int
  PROVE  Total(amount, S) \in Int
<1> DEFINE Bad == {n \in Nat : \E s \in SUBSET S : Cardinality(s) = n /\ Total(amount, s) \notin Int}
<1>1. ASSUME Bad # {} PROVE FALSE
  <2>1. PICK n \in Bad : \A c \in Bad : n <= c
    <3> HIDE DEF Bad
    <3>1. Bad \in SUBSET Nat
      BY DEF Bad
    <3> QED BY <1>1, <3>1, LeastOf
  <2>2. PICK s \in SUBSET S : Cardinality(s) = n /\ Total(amount, s) \notin Int
    OBVIOUS
  <2>3. s # {} /\ IsFiniteSet(s)
    <3>1. Total(amount, {}) \in Int
      BY TotalOfNothing
    <3>2. IsFiniteSet(s)
      BY FS_Subset
    <3> QED BY <2>2, <3>1, <3>2
  <2>4. PICK c : c = First1(s)
    OBVIOUS
  <2>5. c \in s /\ Cardinality(s \ {c}) = n - 1 /\ n \in Nat \ {0}
    BY <2>2, <2>3, <2>4, OneLess
  <2>6. Total(amount, s) = amount[c] + Total(amount, s \ {c})
    BY <2>3, <2>4, TotalOfFirst
  <2>7. n - 1 \notin Bad /\ n - 1 \in Nat /\ s \ {c} \in SUBSET S
    BY <2>1, <2>5
  <2>8. Total(amount, s \ {c}) \in Int
    BY <2>5, <2>7
  <2>9. amount[c] \in Int
    BY <2>2, <2>5
  <2> QED BY <2>2, <2>6, <2>8, <2>9
<1>2. Cardinality(S) \in Nat /\ Cardinality(S) \notin Bad
  BY <1>1, FS_CardinalityType
<1> QED BY <1>2

LEMMA TotalOfOneMore ==
  ASSUME NEW S, IsFiniteSet(S), NEW y, y \notin S, NEW amount, \A x \in S \cup {y} : amount[x] \in Int
  PROVE  Total(amount, S \cup {y}) = Total(amount, S) + amount[y]
<1> DEFINE T == S \cup {y}
           Fails(s, x) == x \in T /\ x \notin s /\ Total(amount, s \cup {x}) # Total(amount, s) + amount[x]
           Bad == {n \in Nat : \E s \in SUBSET T : Cardinality(s) = n /\ \E x : Fails(s, x)}
<1>0. IsFiniteSet(T) /\ \A s \in SUBSET T : IsFiniteSet(s) /\ Total(amount, s) \in Int
  <2>1. IsFiniteSet(T)
    BY FS_AddElement
  <2>2. \A s \in SUBSET T : IsFiniteSet(s) /\ \A x \in s : amount[x] \in Int
    BY <2>1, FS_Subset
  <2> HIDE DEF T
  <2> QED BY <2>1, <2>2, TotalIsInt
<1>a. \A x \in T : amount[x] \in Int
  OBVIOUS
<1> HIDE DEF T
<1>1. ASSUME Bad # {} PROVE FALSE
  <2>1. PICK n \in Bad : \A c \in Bad : n <= c
    <3> HIDE DEF Bad
    <3>1. Bad \in SUBSET Nat
      BY DEF Bad
    <3> QED BY <1>1, <3>1, LeastOf
  <2>2. PICK s \in SUBSET T : Cardinality(s) = n /\ \E x : Fails(s, x)
    OBVIOUS
  <2>3. PICK x : x \in T /\ x \notin s /\ Total(amount, s \cup {x}) # Total(amount, s) + amount[x]
    BY <2>2
  <2>4. PICK u, c : u = s \cup {x} /\ c = First1(u)
    OBVIOUS
  <2>b. Total(amount, u) # Total(amount, s) + amount[x]
    BY <2>3, <2>4
  <2>5. u \in SUBSET T /\ u # {} /\ c \in u
    BY <2>3, <2>4 DEF First1
  <2>6. Total(amount, u) = amount[c] + Total(amount, u \ {c})
    BY <1>0, <2>4, <2>5, TotalOfFirst
  <2>7. CASE c = x
    <3>1. u \ {c} = s
      BY <2>3, <2>4, <2>7
    <3>2. Total(amount, u) = amount[x] + Total(amount, s)
      BY <2>6, <2>7, <3>1
    <3>3. Total(amount, s) \in Int /\ amount[x] \in Int
      BY <1>0, <1>a, <2>3
    <3> QED BY <2>b, <3>2, <3>3
  <2>8. CASE c # x
    <3>1. PICK r : r = s \ {c}
      OBVIOUS
    <3>2. c \in s /\ c \notin r /\ x \notin r /\ r \in SUBSET T /\ c \in T
      BY <2>3, <2>4, <2>5, <2>8, <3>1
    <3>3. n \in Nat \ {0} /\ Cardinality(r) = n - 1
      <4>1. IsFiniteSet(s) /\ Cardinality(s) = n
        BY <1>0, <2>2
      <4>2. Cardinality(r) = Cardinality(s) - 1 /\ IsFiniteSet(r)
        BY <3>1, <3>2, <4>1, FS_RemoveElement
      <4>3. Cardinality(r) \in Nat /\ n \in Nat
        BY <4>2, FS_CardinalityType
      <4> QED BY <4>1, <4>2, <4>3
    <3>4. n - 1 \notin Bad /\ n - 1 \in Nat
      <4> HIDE DEF Bad
      <4>1. n \in Nat \ {0} /\ \A m \in Bad : n <= m
        BY <2>1, <3>3
      <4>2. ~(n <= n - 1)
        BY <4>1
      <4> QED BY <4>1, <4>2
    <3>5. ~Fails(r, x) /\ ~Fails(r, c)
      <4> HIDE DEF Fails
      <4> QED BY <3>2, <3>3, <3>4
    <3>6. /\ Total(amount, r \cup {x}) = Total(amount, r) + amount[x]
          /\ Total(amount, r \cup {c}) = Total(amount, r) + amount[c]
      BY <2>3, <3>2, <3>5
    <3>7. r \cup {x} = u \ {c} /\ r \cup {c} = s
      BY <2>3, <2>4, <2>8, <3>1, <3>2
    <3>8. Total(amount, r) \in Int /\ amount[x] \in Int /\ amount[c] \in Int
      BY <1>0, <1>a, <2>3, <3>2
    <3>9. Total(amount, u) = amount[c] + (Total(amount, r) + amount[x])
      BY <2>6, <3>6, <3>7
    <3>10. Total(amount, s) = Total(amount, r) + amount[c]
      BY <3>6, <3>7
    <3> QED BY <2>b, <3>8, <3>9, <3>10
  <2> QED BY <2>7, <2>8
<1>2. S \in SUBSET T /\ y \in T
  BY DEF T
<1>3. Cardinality(S) \in Nat /\ Cardinality(S) \notin Bad
  BY <1>1, FS_CardinalityType
<1>4. ~Fails(S, y)
  <2> HIDE DEF Fails
  <2> QED BY <1>2, <1>3
<1> QED BY <1>2, <1>4

LEMMA TotalGrows ==
  ASSUME NEW S, IsFiniteSet(S), NEW y, y \notin S, NEW amount, NEW more,
         \A x \in S : amount[x] = more[x], \A x \in S \cup {y} : more[x] \in Nat
  PROVE  Total(more, S \cup {y}) = Total(amount, S) + more[y]
<1>1. Total(amount, S) = Total(more, S)
  BY TotalOfAlike
<1>2. \A x \in S \cup {y} : more[x] \in Int
  OBVIOUS
<1>3. Total(more, S \cup {y}) = Total(more, S) + more[y]
  BY <1>2, TotalOfOneMore
<1> QED BY <1>1, <1>3

-----------------------------------------------------------------------------
(* Tape: what is told of the flow of trades. *)

Reports == {None} \cup [side : {"buy", "sell"}, price : Int, volume : Nat]
Marks == [tick : Ticks, absorption : Reports, deep : BOOLEAN]

(* What a trade leaves: the tape with its mark, and nothing of what was there changed. *)
TapeTypes == host \in Int /\ tape \in Seq(Marks)

LEMMA TicksAreTyped ==
  ASSUME TapeAssumption, NEW t \in Ticks
  PROVE  t.time \in Int /\ t.price \in Int /\ t.size \in Nat /\ t.side \in {"buy", "sell", "unknown"}
<1>1. t \in [time : Int, price : Int, size : Nat, side : {"buy", "sell", "unknown"}]
  BY DEF TapeAssumption
<1> QED BY <1>1

LEMMA MarksAreTyped ==
  ASSUME TapeAssumption, TapeTypes, NEW i \in DOMAIN tape
  PROVE  /\ tape[i].tick \in Ticks /\ tape[i].absorption \in Reports
         /\ tape[i].tick.time \in Int /\ tape[i].tick.price \in Int /\ tape[i].tick.size \in Nat
<1>1. tape[i] \in Marks
  BY ElementOfSeq, LenProperties DEF TapeTypes
<1>2. tape[i].tick \in Ticks /\ tape[i].absorption \in Reports
  BY <1>1 DEF Marks
<1> QED BY <1>2, TicksAreTyped

LEMMA TapeGrows ==
  ASSUME TapeTypes, NEW t, NEW book, ProcessTick(t, book)
  PROVE  /\ Len(tape) \in Nat /\ DOMAIN tape = 1..Len(tape)
         /\ Len(tape') = Len(tape) + 1 /\ DOMAIN tape' = 1..(Len(tape) + 1)
         /\ \A i \in 1..Len(tape) : tape'[i] = tape[i]
         /\ tape'[Len(tape) + 1].tick = t
         /\ host' = host
<1>1. /\ tape' = Append(tape, [tick |-> t, deep |-> deepTrade(t),
             absorption |-> Absorption(WithTrade(Evicted(rollingPriceVolumes, t.time), t), t, book)])
      /\ host' = host
  BY DEF ProcessTick
<1>2. PICK m : m = [tick |-> t, deep |-> deepTrade(t),
             absorption |-> Absorption(WithTrade(Evicted(rollingPriceVolumes, t.time), t), t, book)]
  OBVIOUS
<1>3. tape' = Append(tape, m) /\ m.tick = t
  BY <1>1, <1>2
<1>4. tape \in Seq(Marks \cup {m}) /\ m \in Marks \cup {m}
  BY SeqMonotonic DEF TapeTypes
<1>5. /\ Len(Append(tape, m)) = Len(tape) + 1 /\ \A i \in 1..Len(tape) : Append(tape, m)[i] = tape[i]
      /\ Append(tape, m)[Len(tape) + 1] = m /\ Append(tape, m) \in Seq(Marks \cup {m})
  BY <1>4, AppendProperties
<1>6. Len(tape) \in Nat /\ DOMAIN tape = 1..Len(tape) /\ DOMAIN Append(tape, m) = 1..Len(Append(tape, m))
  BY <1>4, <1>5, LenProperties
<1>7. PICK all : all = Append(tape, m)
  OBVIOUS
<1>8. /\ Len(all) = Len(tape) + 1 /\ \A i \in 1..Len(tape) : all[i] = tape[i]
      /\ all[Len(tape) + 1] = m /\ DOMAIN all = 1..(Len(tape) + 1) /\ tape' = all
  BY <1>3, <1>5, <1>6, <1>7
<1> QED BY <1>1, <1>3, <1>6, <1>8

(* The speed of the tape. *)
LEMMA SpeedIsKept ==
  ASSUME TapeAssumption, TapeTypes, SpeedIsOfItsTime, NEW t \in Ticks, NEW book, ProcessTick(t, book)
  PROVE  SpeedIsOfItsTime'
<1> DEFINE n == Len(tape)
           times == [i \in 1..(n + 1) |-> IF i = n + 1 THEN t.time ELSE TradeAt(i).time]
<1>1. /\ n \in Nat /\ DOMAIN tape = 1..n /\ Len(tape') = n + 1 /\ DOMAIN tape' = 1..(n + 1)
      /\ \A i \in 1..n : tape'[i] = tape[i]
      /\ tape'[n + 1].tick = t
  BY TapeGrows
<1>2. recentTicks' = {i \in recentTicks \cup {n + 1} : InSpeed(times[i], t.time)}
  BY DEF ProcessTick
<1>3. recentTicks = {i \in 1..n : \A j \in i..n : InSpeed(tape[i].tick.time, tape[j].tick.time)}
  BY <1>1 DEF SpeedIsOfItsTime, TradeAt
<1>4. \A i \in 1..(n + 1) : times[i] = tape'[i].tick.time
  BY <1>1 DEF TradeAt
<1> HIDE DEF times, n
<1>5. InSpeed(t.time, t.time)
  BY TicksAreTyped DEF InSpeed, TapeAssumption
<1>6. ASSUME NEW i \in 1..(n + 1)
      PROVE  i \in recentTicks' <=> \A j \in i..(n + 1) : InSpeed(tape'[i].tick.time, tape'[j].tick.time)
  <2>1. CASE i = n + 1
    <3>1. i..(n + 1) = {i}
      BY <1>1, <2>1
    <3> QED BY <1>1, <1>2, <1>4, <1>5, <2>1, <3>1
  <2>2. CASE i \in 1..n
    <3>1. i \in recentTicks' <=> i \in recentTicks /\ InSpeed(tape'[i].tick.time, t.time)
      BY <1>1, <1>2, <1>4, <2>2
    <3>2. i..(n + 1) = (i..n) \cup {n + 1} /\ \A j \in i..n : j \in 1..n
      BY <1>1, <2>2
    <3> QED BY <1>1, <1>3, <2>2, <3>1, <3>2
  <2> QED BY <1>1, <2>1, <2>2
<1>7. recentTicks' \subseteq 1..(n + 1)
  BY <1>1, <1>2, <1>3
<1>8. recentTicks' = {i \in 1..(n + 1) : \A j \in i..(n + 1) : InSpeed(tape'[i].tick.time, tape'[j].tick.time)}
  BY <1>6, <1>7
<1> QED BY <1>1, <1>8 DEF SpeedIsOfItsTime, TradeAt

(* The levels: what they count are numbers. *)
LevelsCount == \A p \in DOMAIN rollingPriceVolumes :
                  rollingPriceVolumes[p].buy \in Nat /\ rollingPriceVolumes[p].sell \in Nat

LEMMA EvictedAreOld ==
  ASSUME NEW levels, NEW moment, NEW p \in DOMAIN Evicted(levels, moment)
  PROVE  p \in DOMAIN levels /\ Evicted(levels, moment)[p] = levels[p]
BY DEF Evicted

(* The level of a trade counts what the level did, or nothing, and the trade. *)
LEMMA LevelOfTrade ==
  ASSUME TapeAssumption, LevelsCount, NEW t \in Ticks
  PROVE  LET level == WithTrade(Evicted(rollingPriceVolumes, t.time), t)
             open(side) == IF t.price \in DOMAIN rollingPriceVolumes THEN rollingPriceVolumes[t.price][side] ELSE 0
         IN  \A side \in {"buy", "sell"} :
               /\ level[side] \in Nat /\ open(side) \in Nat
               /\ level[side] <= open(side) + (IF t.side = side THEN t.size ELSE 0)
<1> DEFINE levels == Evicted(rollingPriceVolumes, t.time)
           open(side) == IF t.price \in DOMAIN rollingPriceVolumes THEN rollingPriceVolumes[t.price][side] ELSE 0
           was == IF t.price \notin DOMAIN levels \/ t.time - levels[t.price].last > LevelTime THEN NewLevel ELSE levels[t.price]
<1>1. \A side \in {"buy", "sell"} : open(side) \in Nat
  BY DEF LevelsCount
<1>2. /\ was.buy \in Nat /\ was.buy <= open("buy")
      /\ was.sell \in Nat /\ was.sell <= open("sell")
  <2>1. CASE was = NewLevel
    BY <1>1, <2>1 DEF NewLevel
  <2>2. CASE was # NewLevel
    <3>1. t.price \in DOMAIN levels /\ was = levels[t.price]
      BY <2>2
    <3> HIDE DEF levels
    <3>2. t.price \in DOMAIN rollingPriceVolumes /\ levels[t.price] = rollingPriceVolumes[t.price]
      BY <3>1, EvictedAreOld DEF levels
    <3>3. was = rollingPriceVolumes[t.price]
      BY <3>1, <3>2
    <3> HIDE DEF was
    <3> QED BY <1>1, <3>2, <3>3
  <2> QED BY <2>1, <2>2
<1>3. t.size \in Nat
  BY TicksAreTyped
<1>4. WithTrade(levels, t) = [buy  |-> was.buy + (IF t.side = "buy" THEN t.size ELSE 0),
                              sell |-> was.sell + (IF t.side = "sell" THEN t.size ELSE 0), last |-> t.time]
  BY DEF WithTrade
<1> HIDE DEF was, open, levels
<1>5. ASSUME NEW side \in {"buy", "sell"}
      PROVE  /\ WithTrade(levels, t)[side] \in Nat
             /\ WithTrade(levels, t)[side] <= open(side) + (IF t.side = side THEN t.size ELSE 0)
  <2>1. CASE side = "buy"
    BY <1>1, <1>2, <1>3, <1>4, <2>1
  <2>2. CASE side = "sell"
    BY <1>1, <1>2, <1>3, <1>4, <2>2
  <2> QED BY <2>1, <2>2
<1> QED BY <1>1, <1>5 DEF open, levels

LEMMA TapeStaysTyped ==
  ASSUME TapeAssumption, TapeTypes, LevelsCount, NEW t \in Ticks, NEW book, ProcessTick(t, book)
  PROVE  TapeTypes' /\ LevelsCount'
<1> DEFINE levels == Evicted(rollingPriceVolumes, t.time)
           level  == WithTrade(levels, t)
           mark   == [tick |-> t, absorption |-> Absorption(level, t, book), deep |-> deepTrade(t)]
<1>1. level.buy \in Nat /\ level.sell \in Nat
  BY LevelOfTrade
<1>2. /\ tape' = Append(tape, mark) /\ host' = host
      /\ rollingPriceVolumes' = [p \in DOMAIN levels \cup {t.price} |-> IF p = t.price THEN Rest(level, t, book) ELSE levels[p]]
  BY DEF ProcessTick
<1> HIDE DEF level
<1>3. Absorption(level, t, book) \in Reports
  BY <1>1, TicksAreTyped DEF Absorption, Reports
<1>4. deepTrade(t) \in BOOLEAN
  BY DEF deepTrade
<1>5. mark \in Marks
  BY <1>3, <1>4 DEF Marks
<1> HIDE DEF mark
<1>6. TapeTypes'
  BY <1>2, <1>5, AppendProperties DEF TapeTypes
<1>7. Rest(level, t, book).buy \in Nat /\ Rest(level, t, book).sell \in Nat
  <2>1. level = [buy |-> level.buy, sell |-> level.sell, last |-> level.last]
    BY DEF level, WithTrade
  <2> QED BY <1>1, <2>1 DEF Rest
<1>8. \A p \in DOMAIN levels : levels[p].buy \in Nat /\ levels[p].sell \in Nat
  <2>1. ASSUME NEW p \in DOMAIN levels PROVE levels[p] = rollingPriceVolumes[p] /\ p \in DOMAIN rollingPriceVolumes
    BY EvictedAreOld
  <2> QED BY <2>1 DEF LevelsCount
<1>9. LevelsCount'
  <2> HIDE DEF levels
  <2> QED BY <1>2, <1>7, <1>8 DEF LevelsCount
<1> QED BY <1>6, <1>9

-----------------------------------------------------------------------------
(* Tape: the minute of the microstructure. *)

(* The places are the last of the tape, and those before them are of before the minute or too many. *)
MinuteInv ==
  /\ minute \in Seq(Nat) /\ Len(minute) <= MaxKept /\ Len(minute) <= Len(tape)
  /\ \A i \in 1..Len(minute) : minute[i] = Len(tape) - Len(minute) + i
  /\ \A i \in 1..(Len(tape) - Len(minute)) : i <= Len(tape) - MaxKept \/ tape[i].tick.time < host - MinuteTime

LEMMA LesserOf ==
  ASSUME NEW a \in Int, NEW b \in Int PROVE Min({a, b}) = IF a <= b THEN a ELSE b
<1>1. CASE a <= b
  <2>1. a \in {a, b} /\ \A x \in {a, b} : a <= x
    BY <1>1
  <2>2. \A y \in {a, b} : (\A x \in {a, b} : y <= x) => y = a
    BY <1>1
  <2> QED BY <1>1, <2>1, <2>2 DEF Min
<1>2. CASE ~(a <= b)
  <2>1. b \in {a, b} /\ \A x \in {a, b} : b <= x
    BY <1>2
  <2>2. \A y \in {a, b} : (\A x \in {a, b} : y <= x) => y = b
    BY <1>2
  <2> QED BY <1>2, <2>1, <2>2 DEF Min
<1> QED BY <1>1, <1>2

LEMMA MinuteIsWholeThen ==
  ASSUME TapeAssumption, TapeTypes, MinuteInv PROVE MinuteIsWhole
<1> DEFINE n == Len(tape)
           m == Len(minute)
           k == Min({MaxKept, n})
<1>1. n \in Nat /\ m \in Nat /\ MaxKept \in Nat \ {0} /\ DOMAIN tape = 1..n /\ DOMAIN minute = 1..m
  BY LenProperties DEF TapeTypes, MinuteInv, TapeAssumption
<1>2. k = IF MaxKept <= n THEN MaxKept ELSE n
  BY <1>1, LesserOf
<1>3. /\ m <= MaxKept /\ m <= n /\ \A i \in 1..m : minute[i] = n - m + i
      /\ \A i \in 1..(n - m) : i <= n - MaxKept \/ tape[i].tick.time < host - MinuteTime
  BY DEF MinuteInv
<1> HIDE DEF n, m, k
<1>4. ASSUME NEW i PROVE i \in Range(minute) <=> i \in (n - m + 1)..n
  <2>1. ASSUME NEW j \in 1..m PROVE minute[j] \in (n - m + 1)..n
    BY <1>1, <1>3
  <2>2. ASSUME i \in (n - m + 1)..n PROVE i - (n - m) \in 1..m /\ minute[i - (n - m)] = i
    <3>1. i - (n - m) \in 1..m
      BY <1>1, <1>3, <2>2
    <3> QED BY <1>1, <1>3, <2>2, <3>1
  <2>3. Range(minute) = {minute[j] : j \in 1..m}
    BY <1>1 DEF Range
  <2> QED BY <2>1, <2>2, <2>3
<1>5. ASSUME NEW i \in (n - k + 1)..n, tape[i].tick.time >= host - MinuteTime PROVE i \in (n - m + 1)..n
  <2>1. i \in 1..n
    BY <1>1, <1>2, <1>5
  <2>2. tape[i].tick.time \in Int /\ host \in Int /\ MinuteTime \in Int
    BY <1>1, <2>1, MarksAreTyped DEF TapeTypes, TapeAssumption
  <2>3. ~(i <= n - MaxKept)
    BY <1>1, <1>2, <1>5
  <2>4. ~(tape[i].tick.time < host - MinuteTime)
    BY <1>5, <2>2
  <2>5. i \notin 1..(n - m)
    BY <1>3, <2>3, <2>4
  <2> QED BY <1>1, <1>3, <2>1, <2>5
<1>6. ASSUME NEW i \in (n - m + 1)..n PROVE i \in (n - k + 1)..n
  BY <1>1, <1>2, <1>3
<1>7. snapshot = {i \in Range(minute) : tape[i].tick.time >= host - MinuteTime}
  BY DEF snapshot, TradeAt
<1>8. snapshot = {i \in (n - k + 1)..n : tape[i].tick.time >= host - MinuteTime}
  BY <1>4, <1>5, <1>6, <1>7
<1> QED BY <1>8 DEF MinuteIsWhole, TradeAt, n, k

(* What recordTick keeps is an end of what it is given; what it drops is old, or one too many. *)
AnEnd(fresh, kept, n, f, times, moment) ==
  /\ fresh \in Seq(Nat) /\ Len(fresh) = n + 1 - f /\ n + 1 - f <= MaxKept
  /\ \A i \in 1..(n + 1 - f) : fresh[i] = kept[f + i - 1]
  /\ \A j \in 1..(f - 1) : j <= n - MaxKept \/ ~(times[kept[j]] >= moment - MinuteTime)

LEMMA KeepsAnEnd ==
  ASSUME NEW kept \in Seq(Nat), NEW times, NEW moment, MaxKept \in Nat \ {0}, Len(kept) <= MaxKept + 1
  PROVE  \E f \in 1..(Len(kept) + 1) : AnEnd(recordTick(kept, times, moment), kept, Len(kept), f, times, moment)
<1> DEFINE n == Len(kept)
           Late(j) == times[kept[j]] >= moment - MinuteTime
           stays == {i \in DOMAIN kept : \E j \in 1..i : Late(j)}
           start == n - Cardinality(stays) + 1
           fresh == SubSeq(kept, start, n)
<1>1. n \in Nat /\ DOMAIN kept = 1..n /\ \A i \in 1..n : kept[i] \in Nat
  BY LenProperties, ElementOfSeq
<1>2. recordTick(kept, times, moment) = IF Len(fresh) > MaxKept THEN Tail(fresh) ELSE fresh
  BY DEF recordTick
<1> HIDE DEF Late, n
<1>3. PICK e \in 1..(n + 1) : stays = e..n /\ \A j \in 1..(e - 1) : ~Late(j)
  <2>1. CASE stays = {}
    <3>1. \A j \in 1..n : ~Late(j)
      BY <1>1, <2>1
    <3>2. stays = (n + 1)..n /\ \A j \in 1..(n + 1 - 1) : ~Late(j)
      BY <1>1, <2>1, <3>1
    <3> QED BY <1>1, <3>2
  <2>2. CASE stays # {}
    <3>1. stays \in SUBSET Nat
      BY <1>1
    <3>2. PICK e \in stays : \A y \in stays : e <= y
      <4> HIDE DEF stays
      <4> QED BY <2>2, <3>1, LeastOf
    <3>3. e \in 1..n
      BY <1>1
    <3>4. PICK j \in 1..e : Late(j)
      BY <3>2
    <3>5. \A i \in e..n : i \in stays
      BY <1>1, <3>3, <3>4
    <3>6. \A i \in stays : i \in e..n
      BY <1>1, <3>2, <3>3
    <3>7. ASSUME NEW i \in 1..(e - 1) PROVE ~Late(i)
      <4>1. i \in 1..n /\ i \in 1..i
        BY <1>1, <3>3
      <4>2. i \notin stays
        <5> HIDE DEF stays
        <5> QED BY <3>2, <3>3, <4>1
      <4> QED BY <1>1, <4>1, <4>2
    <3> HIDE DEF stays
    <3>8. stays = e..n
      BY <3>5, <3>6
    <3> QED BY <1>1, <3>3, <3>7, <3>8
  <2> QED BY <2>1, <2>2
<1> HIDE DEF stays
<1>4. Cardinality(stays) = n + 1 - e
  <2>1. e \in Int /\ n \in Int
    BY <1>1
  <2>2. Cardinality(e..n) = IF e > n THEN 0 ELSE n - e + 1
    BY <2>1, FS_Interval
  <2> QED BY <1>1, <1>3, <2>2
<1>5. start = e
  BY <1>1, <1>4
<1>6. /\ fresh \in Seq(Nat) /\ Len(fresh) = n + 1 - e
      /\ \A i \in 1..(n + 1 - e) : fresh[i] = kept[e + i - 1]
  <2>1. e \in Int /\ n \in Int /\ \A i \in e..n : kept[i] \in Nat
    BY <1>1
  <2>2. /\ SubSeq(kept, e, n) \in Seq(Nat) /\ Len(SubSeq(kept, e, n)) = IF e <= n THEN n - e + 1 ELSE 0
        /\ \A i \in 1..(n - e + 1) : SubSeq(kept, e, n)[i] = kept[e + i - 1]
    BY <2>1, SubSeqProperties
  <2>3. (IF e <= n THEN n - e + 1 ELSE 0) = n + 1 - e /\ n - e + 1 = n + 1 - e
    BY <1>1
  <2> QED BY <1>5, <2>2, <2>3
<1> HIDE DEF fresh
<1>7. CASE Len(fresh) > MaxKept
  <2>1. e + 1 \in 1..(n + 1) /\ n + 1 - e = MaxKept + 1 /\ e = 1 /\ n = MaxKept + 1
    <3>1. Len(fresh) = n + 1 - e /\ n <= MaxKept + 1
      BY <1>6 DEF n
    <3> QED BY <1>1, <1>7, <3>1
  <2>2. fresh # <<>>
    BY <1>6, <2>1, EmptySeq
  <2>3. PICK r : r = Tail(fresh)
    OBVIOUS
  <2>4. r \in Seq(Nat) /\ Len(r) = Len(fresh) - 1 /\ \A i \in 1..Len(r) : r[i] = fresh[i + 1]
    BY <1>6, <2>2, <2>3, HeadTailProperties
  <2>5. Len(r) = n + 1 - (e + 1) /\ Len(r) <= MaxKept
    BY <1>1, <1>6, <2>1, <2>4
  <2>6. ASSUME NEW i \in 1..(n + 1 - (e + 1)) PROVE r[i] = kept[(e + 1) + i - 1]
    <3>1. i \in 1..Len(r) /\ i + 1 \in 1..(n + 1 - e) /\ e + (i + 1) - 1 = (e + 1) + i - 1
      BY <1>1, <2>1, <2>5
    <3> QED BY <1>6, <2>4, <3>1
  <2>7. \A j \in 1..((e + 1) - 1) : j <= n - MaxKept
    BY <2>1
  <2>8. recordTick(kept, times, moment) = r
    BY <1>2, <1>7, <2>3
  <2>9. AnEnd(r, kept, n, e + 1, times, moment)
    BY <2>4, <2>5, <2>6, <2>7 DEF AnEnd
  <2> QED BY <2>1, <2>8, <2>9 DEF n
<1>8. CASE ~(Len(fresh) > MaxKept)
  <2>1. recordTick(kept, times, moment) = fresh
    BY <1>2, <1>8
  <2>2. n + 1 - e <= MaxKept
    BY <1>1, <1>6, <1>8
  <2>3. \A j \in 1..(e - 1) : ~(times[kept[j]] >= moment - MinuteTime)
    BY <1>3 DEF Late
  <2>4. AnEnd(fresh, kept, n, e, times, moment)
    BY <1>6, <2>2, <2>3 DEF AnEnd
  <2> QED BY <1>3, <2>1, <2>4 DEF n
<1> QED BY <1>7, <1>8

LEMMA MinuteIsKept ==
  ASSUME TapeAssumption, TapeTypes, MinuteInv, NEW t \in Ticks, NEW book, ProcessTick(t, book)
  PROVE  MinuteInv'
<1> DEFINE n == Len(tape)
           m == Len(minute)
           times == [i \in 1..(n + 1) |-> IF i = n + 1 THEN t.time ELSE TradeAt(i).time]
           kept == Append(minute, n + 1)
<1>1. /\ n \in Nat /\ DOMAIN tape = 1..n /\ Len(tape') = n + 1 /\ DOMAIN tape' = 1..(n + 1)
      /\ \A i \in 1..n : tape'[i] = tape[i]
      /\ tape'[n + 1].tick = t /\ host' = host
  BY TapeGrows
<1>2. minute' = recordTick(kept, times, host)
  BY DEF ProcessTick
<1>3. \A i \in 1..(n + 1) : times[i] = tape'[i].tick.time
  BY <1>1 DEF TradeAt
<1>4. /\ minute \in Seq(Nat) /\ m \in Nat /\ m <= MaxKept /\ m <= n /\ MaxKept \in Nat \ {0}
      /\ \A i \in 1..m : minute[i] = n - m + i
      /\ \A i \in 1..(n - m) : i <= n - MaxKept \/ tape[i].tick.time < host - MinuteTime
  BY LenProperties DEF MinuteInv, TapeAssumption
<1> HIDE DEF n, m, times
<1>5. /\ kept \in Seq(Nat) /\ Len(kept) = m + 1
      /\ \A i \in 1..m : kept[i] = minute[i] /\ kept[m + 1] = n + 1
  <2>1. n + 1 \in Nat
    BY <1>1
  <2> QED BY <1>4, <2>1, AppendProperties DEF m
<1>6. \A i \in 1..(m + 1) : kept[i] = n - m + i
  <2>1. kept[m + 1] = n + 1
    <3>1. n + 1 \in Nat
      BY <1>1
    <3> QED BY <1>4, <3>1, AppendProperties DEF m
  <2> HIDE DEF kept
  <2> QED BY <1>1, <1>4, <1>5, <2>1
<1> HIDE DEF kept
<1>7. PICK f \in 1..(m + 2) : AnEnd(minute', kept, m + 1, f, times, host)
  <2>1. Len(kept) <= MaxKept + 1 /\ Len(kept) + 1 = m + 2 /\ m \in Nat
    BY <1>4, <1>5
  <2>2. PICK f \in 1..(Len(kept) + 1) : AnEnd(minute', kept, Len(kept), f, times, host)
    BY <1>2, <1>4, <1>5, <2>1, KeepsAnEnd
  <2> QED BY <1>5, <2>1, <2>2
<1>a. PICK w : w = m + 1
  OBVIOUS
<1>b. PICK k : k = w + 1 - f
  OBVIOUS
<1>8. /\ minute' \in Seq(Nat) /\ Len(minute') = k /\ k <= MaxKept
      /\ \A i \in 1..k : minute'[i] = kept[f + i - 1]
      /\ \A j \in 1..(f - 1) : j <= w - MaxKept \/ ~(times[kept[j]] >= host - MinuteTime)
  <2>1. AnEnd(minute', kept, w, f, times, host) /\ w + 1 - f = k
    BY <1>7, <1>a, <1>b
  <2> QED BY <2>1, Zenon DEF AnEnd
<1>9. k \in Nat /\ k <= n + 1 /\ k <= MaxKept /\ (n + 1) - k = (n - m) + (f - 1)
  <2>1. n \in Nat /\ m \in Nat /\ m <= n /\ f \in Nat /\ f >= 1 /\ f <= m + 2 /\ k <= MaxKept
    BY <1>1, <1>4, <1>7, <1>8
  <2>2. k = m + 1 + 1 - f
    BY <1>a, <1>b
  <2> QED BY <2>1, <2>2
<1>10. ASSUME NEW i \in 1..k PROVE minute'[i] = (n + 1) - k + i
  <2>1. f + i - 1 \in 1..(m + 1) /\ n - m + (f + i - 1) = (n + 1) - k + i
    <3>1. n \in Nat /\ m \in Nat /\ m <= n /\ f \in Nat /\ f >= 1 /\ f <= m + 2
      BY <1>1, <1>4, <1>7
    <3>2. k = m + 1 + 1 - f
      BY <1>a, <1>b
    <3> QED BY <3>1, <3>2
  <2> QED BY <1>6, <1>8, <2>1
<1>11. ASSUME NEW i \in 1..((n + 1) - k)
       PROVE  i <= (n + 1) - MaxKept \/ tape'[i].tick.time < host - MinuteTime
  <2>1. CASE i \in 1..(n - m)
    <3>1. tape'[i] = tape[i] /\ (i <= n - MaxKept \/ tape[i].tick.time < host - MinuteTime)
      BY <1>1, <1>4, <2>1
    <3> QED BY <1>1, <1>4, <3>1
  <2>2. CASE i \notin 1..(n - m)
    <3>1. PICK j : j = i - (n - m)
      OBVIOUS
    <3>2. j \in 1..(f - 1) /\ j \in 1..(m + 1) /\ i = n - m + j /\ i \in 1..(n + 1)
      BY <1>1, <1>4, <1>9, <2>2, <3>1
    <3>3. kept[j] = i /\ times[i] = tape'[i].tick.time
      BY <1>3, <1>6, <3>2
    <3>4. j <= w - MaxKept \/ ~(tape'[i].tick.time >= host - MinuteTime)
      BY <1>8, <3>2, <3>3
    <3>5. tape'[i].tick.time \in Int /\ host \in Int /\ MinuteTime \in Int
      <4>1. host \in Int /\ MinuteTime \in Int /\ t.time \in Int
        BY TicksAreTyped DEF TapeTypes, TapeAssumption
      <4>2. CASE i = n + 1
        BY <1>1, <4>1, <4>2
      <4>3. CASE i # n + 1
        <5>1. i \in 1..n /\ tape'[i] = tape[i]
          BY <1>1, <3>2, <4>3
        <5> QED BY <1>1, <4>1, <5>1, MarksAreTyped
      <4> QED BY <4>2, <4>3
    <3>6. ~(tape'[i].tick.time >= host - MinuteTime) => tape'[i].tick.time < host - MinuteTime
      BY <3>5
    <3>7. j <= w - MaxKept => i <= (n + 1) - MaxKept
      BY <1>1, <1>4, <1>a, <3>2
    <3> QED BY <3>4, <3>6, <3>7
  <2> QED BY <2>1, <2>2
<1> QED BY <1>1, <1>8, <1>9, <1>10, <1>11 DEF MinuteInv

LEMMA MinutePasses ==
  ASSUME TapeAssumption, TapeTypes, MinuteInv, HostTick PROVE MinuteInv'
<1>1. host' = host + 1 /\ UNCHANGED <<tape, minute>> /\ host \in Int /\ MinuteTime \in Int
  BY DEF HostTick, TapeTypes, TapeAssumption
<1>2. ASSUME NEW i \in 1..(Len(tape) - Len(minute)), tape[i].tick.time < host - MinuteTime
      PROVE  tape[i].tick.time < host' - MinuteTime
  <2>1. Len(tape) \in Nat /\ Len(minute) \in Nat /\ DOMAIN tape = 1..Len(tape)
    BY LenProperties DEF TapeTypes, MinuteInv
  <2>2. tape[i].tick.time \in Int
    BY <2>1, MarksAreTyped
  <2> QED BY <1>1, <1>2, <2>2
<1> QED BY <1>1, <1>2 DEF MinuteInv

-----------------------------------------------------------------------------
(* Tape: absorptions. *)

Told(side, p) == Total([i \in Absorbing(side, p) |-> tape[i].absorption.volume], Absorbing(side, p))
TradedAt(side, p) == {i \in Sided(DOMAIN tape, side) : TradeAt(i).price = p}
Traded(side, p) == Total([i \in DOMAIN tape |-> TradeAt(i).size], TradedAt(side, p))
Open(side, p) == IF p \in DOMAIN rollingPriceVolumes THEN rollingPriceVolumes[p][side] ELSE 0

AbsorbInv ==
  \A side \in {"buy", "sell"}, p \in Int :
    /\ Told(side, p) + Open(side, p) <= Traded(side, p)
    /\ Open(side, p) > 0 => TradedAt(side, p) # {}
    /\ \A i \in Absorbing(side, p) : tape[i].absorption.volume >= Absorbed /\ \E j \in 1..i : j \in TradedAt(side, p)

(* What is reported is what the level counted, at least the threshold, and the level begins anew. *)
LEMMA ReportOf ==
  ASSUME NEW level, NEW buy \in Nat, NEW sell \in Nat, NEW last, level = [buy |-> buy, sell |-> sell, last |-> last],
         NEW t, NEW book, NEW side \in {"buy", "sell"}
  PROVE  /\ Rest(level, t, book)[side] \in {0, level[side]}
         /\ Absorption(level, t, book) # None /\ Absorption(level, t, book).side = side =>
               /\ Absorption(level, t, book).price = t.price /\ Absorption(level, t, book).volume = level[side]
               /\ level[side] >= Absorbed /\ Rest(level, t, book)[side] = 0
<1> DEFINE sold == level.sell >= Absorbed /\ Close(t.price, book.bid)
           bought == level.buy >= Absorbed /\ Close(t.price, book.ask)
<1>1. Absorptions(level, t, book) = [sell |-> sold, buy |-> bought]
  BY DEF Absorptions
<1>2. Absorptions(level, t, book).sell = sold /\ Absorptions(level, t, book).buy = bought
  BY <1>1
<1> HIDE DEF sold, bought
<1>3. /\ Absorption(level, t, book) =
            IF bought THEN [side |-> "buy", price |-> t.price, volume |-> level.buy]
            ELSE IF sold THEN [side |-> "sell", price |-> t.price, volume |-> level.sell] ELSE None
      /\ Rest(level, t, book) = [level EXCEPT !.sell = IF sold THEN 0 ELSE @, !.buy = IF bought THEN 0 ELSE @]
  BY <1>2 DEF Absorption, Rest
<1>4. Rest(level, t, book) = [buy |-> IF bought THEN 0 ELSE buy, sell |-> IF sold THEN 0 ELSE sell, last |-> last]
  BY <1>3
<1>5. CASE bought
  <2>1. Absorption(level, t, book) = [side |-> "buy", price |-> t.price, volume |-> level.buy]
    BY <1>3, <1>5
  <2>2. level.buy >= Absorbed
    BY <1>5 DEF bought
  <2> QED BY <1>4, <1>5, <2>1, <2>2
<1>6. CASE ~bought /\ sold
  <2>1. Absorption(level, t, book) = [side |-> "sell", price |-> t.price, volume |-> level.sell]
    BY <1>3, <1>6
  <2>2. level.sell >= Absorbed
    BY <1>6 DEF sold
  <2> QED BY <1>4, <1>6, <2>1, <2>2
<1>7. CASE ~bought /\ ~sold
  BY <1>3, <1>4, <1>7
<1> QED BY <1>5, <1>6, <1>7

LEMMA PlacesAreFinite ==
  ASSUME TapeAssumption, TapeTypes, NEW side, NEW p
  PROVE  /\ DOMAIN tape = 1..Len(tape) /\ Len(tape) \in Nat
         /\ TradedAt(side, p) \subseteq 1..Len(tape) /\ IsFiniteSet(TradedAt(side, p))
         /\ Absorbing(side, p) \subseteq 1..Len(tape) /\ IsFiniteSet(Absorbing(side, p))
         /\ \A i \in Absorbing(side, p) : tape[i].absorption.volume \in Nat
         /\ Told(side, p) \in Nat /\ Traded(side, p) \in Nat
<1>1. DOMAIN tape = 1..Len(tape) /\ Len(tape) \in Nat
  BY LenProperties DEF TapeTypes
<1>2. IsFiniteSet(1..Len(tape))
  BY <1>1, FS_Interval
<1>3. TradedAt(side, p) \subseteq 1..Len(tape) /\ Absorbing(side, p) \subseteq 1..Len(tape)
  BY <1>1 DEF TradedAt, Sided, Absorbing
<1>4. IsFiniteSet(TradedAt(side, p)) /\ IsFiniteSet(Absorbing(side, p))
  BY <1>2, <1>3, FS_Subset
<1>5. \A i \in Absorbing(side, p) : tape[i].absorption.volume \in Nat
  <2>1. ASSUME NEW i \in Absorbing(side, p) PROVE tape[i].absorption.volume \in Nat
    <3>1. tape[i].absorption # None /\ i \in DOMAIN tape
      BY DEF Absorbing
    <3>2. tape[i].absorption \in Reports
      BY <3>1, MarksAreTyped
    <3> QED BY <3>1, <3>2 DEF Reports
  <2> QED BY <2>1
<1>6. Told(side, p) \in Nat
  <2> DEFINE amount == [i \in Absorbing(side, p) |-> tape[i].absorption.volume]
  <2>1. \A i \in Absorbing(side, p) : amount[i] \in Nat
    BY <1>5
  <2> HIDE DEF amount
  <2>2. Total(amount, Absorbing(side, p)) \in Nat
    BY <1>4, <2>1, TotalIsNat
  <2> QED BY <2>2 DEF Told, amount
<1>7. Traded(side, p) \in Nat
  <2> DEFINE amount == [i \in DOMAIN tape |-> TradeAt(i).size]
  <2>1. \A i \in DOMAIN tape : tape[i].tick.size \in Nat
    BY MarksAreTyped
  <2>2. \A i \in TradedAt(side, p) : amount[i] \in Nat
    BY <1>1, <1>3, <2>1 DEF TradeAt
  <2> HIDE DEF amount
  <2>3. Total(amount, TradedAt(side, p)) \in Nat
    BY <1>4, <2>2, TotalIsNat
  <2> QED BY <2>3 DEF Traded, amount
<1> QED BY <1>1, <1>3, <1>4, <1>5, <1>6, <1>7

(* A total of one set before a trade, and of that set with its place after it. *)
LEMMA SumOfPlaces ==
  ASSUME NEW S, IsFiniteSet(S), NEW y, y \notin S, NEW T, NEW amount, NEW more,
         \A i \in S : amount[i] = more[i], \A i \in T : more[i] \in Nat
  PROVE  /\ T = S => Total(more, T) = Total(amount, S)
         /\ T = S \cup {y} => Total(more, T) = Total(amount, S) + more[y]
<1>1. CASE T = S
  <2>1. Total(amount, S) = Total(more, S)
    BY TotalOfAlike
  <2>2. T # S \cup {y}
    BY <1>1
  <2> QED BY <1>1, <2>1, <2>2
<1>2. CASE T = S \cup {y}
  <2>1. Total(more, S \cup {y}) = Total(amount, S) + more[y]
    BY <1>2, TotalGrows
  <2> QED BY <1>2, <2>1
<1> QED BY <1>1, <1>2

LEMMA AbsorbedStaysOnce ==
  ASSUME TapeAssumption, TapeTypes, LevelsCount, AbsorbInv, NEW t \in Ticks, NEW book, ProcessTick(t, book)
  PROVE  AbsorbInv'
<1> DEFINE n == Len(tape)
           levels == Evicted(rollingPriceVolumes, t.time)
           level  == WithTrade(levels, t)
           report == Absorption(level, t, book)
<1>1. /\ n \in Nat /\ DOMAIN tape = 1..n /\ Len(tape') = n + 1 /\ DOMAIN tape' = 1..(n + 1)
      /\ \A i \in 1..n : tape'[i] = tape[i]
      /\ tape'[n + 1].tick = t
  BY TapeGrows
<1>2. tape'[n + 1].absorption = report
  <2>1. PICK mark : mark = [tick |-> t, absorption |-> report, deep |-> deepTrade(t)]
    OBVIOUS
  <2>2. tape' = Append(tape, mark) /\ mark.absorption = report
    BY <2>1 DEF ProcessTick
  <2>3. tape \in Seq(Marks \cup {mark}) /\ mark \in Marks \cup {mark}
    BY SeqMonotonic DEF TapeTypes
  <2>4. Append(tape, mark)[Len(tape) + 1] = mark
    BY <2>3, AppendProperties
  <2> QED BY <2>2, <2>4
<1>3. rollingPriceVolumes' = [p \in DOMAIN levels \cup {t.price} |-> IF p = t.price THEN Rest(level, t, book) ELSE levels[p]]
  BY DEF ProcessTick
<1>4. TapeTypes' /\ LevelsCount'
  BY TapeStaysTyped
<1>5. t.time \in Int /\ t.price \in Int /\ t.size \in Nat
  BY TicksAreTyped
<1>6. \A side \in {"buy", "sell"} :
        /\ level[side] \in Nat /\ Open(side, t.price) \in Nat
        /\ level[side] <= Open(side, t.price) + (IF t.side = side THEN t.size ELSE 0)
  BY LevelOfTrade DEF Open
<1>7. \A side \in {"buy", "sell"} :
        /\ Rest(level, t, book)[side] \in {0, level[side]}
        /\ report # None /\ report.side = side =>
              /\ report.price = t.price /\ report.volume = level[side]
              /\ level[side] >= Absorbed /\ Rest(level, t, book)[side] = 0
  <2>1. level = [buy |-> level.buy, sell |-> level.sell, last |-> level.last]
    BY DEF WithTrade
  <2>2. level.buy \in Nat /\ level.sell \in Nat
    BY <1>6
  <2> HIDE DEF level
  <2> QED BY <2>1, <2>2, ReportOf
<1>8. Absorbed \in Nat \ {0}
  BY DEF TapeAssumption
<1>9. ASSUME NEW p \in DOMAIN levels PROVE p \in DOMAIN rollingPriceVolumes /\ levels[p] = rollingPriceVolumes[p]
  BY EvictedAreOld
<1> HIDE DEF n, levels, level, report
<1> SUFFICES ASSUME NEW side \in {"buy", "sell"}, NEW p \in Int
             PROVE  /\ Told(side, p)' + Open(side, p)' <= Traded(side, p)'
                    /\ Open(side, p)' > 0 => TradedAt(side, p)' # {}
                    /\ \A i \in Absorbing(side, p)' :
                          tape'[i].absorption.volume >= Absorbed /\ \E j \in 1..i : j \in TradedAt(side, p)'
  BY DEF AbsorbInv
<1> DEFINE reported == report # None /\ report.side = side /\ report.price = p
           counts == t.side = side /\ t.price = p
<1>10. Absorbing(side, p)' = Absorbing(side, p) \cup (IF reported THEN {n + 1} ELSE {})
  BY <1>1, <1>2 DEF Absorbing
<1>11. TradedAt(side, p)' = TradedAt(side, p) \cup (IF counts THEN {n + 1} ELSE {})
  BY <1>1 DEF TradedAt, Sided, TradeAt
<1>12. /\ TradedAt(side, p) \subseteq 1..n /\ Absorbing(side, p) \subseteq 1..n
       /\ Told(side, p) \in Nat /\ Traded(side, p) \in Nat
  BY PlacesAreFinite DEF n
<1>13. n + 1 \notin TradedAt(side, p) /\ n + 1 \notin Absorbing(side, p)
  BY <1>1, <1>12
<1>14. Told(side, p)' = Told(side, p) + (IF reported THEN report.volume ELSE 0)
  <2> DEFINE amount == [i \in Absorbing(side, p) |-> tape[i].absorption.volume]
             more == [i \in Absorbing(side, p)' |-> tape'[i].absorption.volume]
             T == Absorbing(side, p)'
  <2>1. /\ Told(side, p)' = Total(more, T) /\ Told(side, p) = Total(amount, Absorbing(side, p))
    BY DEF Told
  <2>2. \A i \in Absorbing(side, p) : amount[i] = more[i]
    BY <1>1, <1>10, <1>12
  <2>3. \A i \in T : more[i] \in Nat
    <3>1. ASSUME NEW i \in Absorbing(side, p) PROVE more[i] \in Nat
      <4>1. tape[i].absorption.volume \in Nat
        BY PlacesAreFinite
      <4> QED BY <2>2, <4>1
    <3>2. reported => report.volume \in Nat
      BY <1>6, <1>7
    <3>3. reported => more[n + 1] \in Nat
      BY <1>2, <1>10, <3>2
    <3> QED BY <1>10, <3>1, <3>3
  <2>4. T = Absorbing(side, p) \/ T = Absorbing(side, p) \cup {n + 1}
    BY <1>10
  <2>5. n + 1 \in T <=> reported
    BY <1>10, <1>13
  <2>6. n + 1 \in T => more[n + 1] = report.volume
    BY <1>2
  <2>8. Total(amount, Absorbing(side, p)) \in Nat
    BY <1>12, <2>1
  <2> HIDE DEF amount, more, T, reported
  <2>7. Total(more, T) = Total(amount, Absorbing(side, p)) + (IF n + 1 \in T THEN more[n + 1] ELSE 0)
    <3>1. PICK S, y : S = Absorbing(side, p) /\ y = n + 1
      OBVIOUS
    <3>2. IsFiniteSet(S) /\ y \notin S
      <4>1. IsFiniteSet(1..n)
        BY <1>1, FS_Interval
      <4>2. IsFiniteSet(S)
        BY <1>12, <3>1, <4>1, FS_Subset
      <4> QED BY <1>13, <3>1, <4>2
    <3>3. \A i \in S : amount[i] = more[i]
      BY <2>2, <3>1
    <3>4. /\ T = S => Total(more, T) = Total(amount, S)
          /\ T = S \cup {y} => Total(more, T) = Total(amount, S) + more[y]
      BY <2>3, <3>2, <3>3, SumOfPlaces
    <3>5. Total(amount, S) \in Nat
      BY <2>8, <3>1
    <3>6. CASE T = S
      BY <3>1, <3>2, <3>4, <3>5, <3>6
    <3>7. CASE T = S \cup {y}
      BY <3>1, <3>4, <3>7
    <3> QED BY <2>4, <3>1, <3>6, <3>7
  <2> QED BY <2>1, <2>5, <2>6, <2>7
<1>15. Traded(side, p)' = Traded(side, p) + (IF counts THEN t.size ELSE 0)
  <2> DEFINE amount == [i \in DOMAIN tape |-> TradeAt(i).size]
             more == [i \in DOMAIN tape' |-> tape'[i].tick.size]
             T == TradedAt(side, p)'
  <2>1. /\ Traded(side, p)' = Total(more, T) /\ Traded(side, p) = Total(amount, TradedAt(side, p))
    BY DEF Traded, TradeAt
  <2>2. \A i \in TradedAt(side, p) : amount[i] = more[i]
    BY <1>1, <1>12 DEF TradeAt
  <2>3. \A i \in T : more[i] \in Nat
    <3>1. ASSUME NEW i \in TradedAt(side, p) PROVE more[i] \in Nat
      <4>1. tape[i].tick.size \in Nat
        BY <1>1, <1>12, MarksAreTyped
      <4> QED BY <1>1, <1>12, <4>1
    <3>2. more[n + 1] \in Nat
      BY <1>1, <1>5
    <3> QED BY <1>11, <3>1, <3>2
  <2>4. T = TradedAt(side, p) \/ T = TradedAt(side, p) \cup {n + 1}
    BY <1>11
  <2>5. n + 1 \in T <=> counts
    BY <1>11, <1>13
  <2>6. more[n + 1] = t.size
    BY <1>1
  <2>8. Total(amount, TradedAt(side, p)) \in Nat
    BY <1>12, <2>1
  <2> HIDE DEF amount, more, T, counts
  <2>7. Total(more, T) = Total(amount, TradedAt(side, p)) + (IF n + 1 \in T THEN more[n + 1] ELSE 0)
    <3>1. PICK S, y : S = TradedAt(side, p) /\ y = n + 1
      OBVIOUS
    <3>2. IsFiniteSet(S) /\ y \notin S
      <4>1. IsFiniteSet(1..n)
        BY <1>1, FS_Interval
      <4>2. IsFiniteSet(S)
        BY <1>12, <3>1, <4>1, FS_Subset
      <4> QED BY <1>13, <3>1, <4>2
    <3>3. \A i \in S : amount[i] = more[i]
      BY <2>2, <3>1
    <3>4. /\ T = S => Total(more, T) = Total(amount, S)
          /\ T = S \cup {y} => Total(more, T) = Total(amount, S) + more[y]
      BY <2>3, <3>2, <3>3, SumOfPlaces
    <3>5. Total(amount, S) \in Nat
      BY <2>8, <3>1
    <3>6. CASE T = S
      BY <3>1, <3>2, <3>4, <3>5, <3>6
    <3>7. CASE T = S \cup {y}
      BY <3>1, <3>4, <3>7
    <3> QED BY <2>4, <3>1, <3>6, <3>7
  <2> QED BY <2>1, <2>5, <2>6, <2>7
<1>16. /\ Told(side, p) + Open(side, p) <= Traded(side, p)
       /\ Open(side, p) > 0 => TradedAt(side, p) # {}
       /\ \A i \in Absorbing(side, p) : tape[i].absorption.volume >= Absorbed /\ \E j \in 1..i : j \in TradedAt(side, p)
       /\ Open(side, p) \in Nat
  BY DEF AbsorbInv, LevelsCount, Open
<1>17. Open(side, p)' = IF p = t.price THEN Rest(level, t, book)[side] ELSE IF p \in DOMAIN levels THEN levels[p][side] ELSE 0
  BY <1>3 DEF Open
<1>18. p # t.price => Open(side, p)' \in {0, Open(side, p)}
  BY <1>9, <1>17 DEF Open
<1>19. level[side] > 0 /\ p = t.price => TradedAt(side, p)' # {}
  <2>1. CASE Open(side, p) > 0
    BY <1>11, <1>16, <2>1
  <2>2. CASE ~(Open(side, p) > 0)
    BY <1>5, <1>6, <1>11, <1>16, <2>2
  <2> QED BY <2>1, <2>2
<1>20. Told(side, p)' + Open(side, p)' <= Traded(side, p)'
  <2>1. CASE p # t.price
    <3>1. ~reported /\ ~counts
      BY <1>7, <2>1
    <3> QED BY <1>12, <1>14, <1>15, <1>16, <1>18, <2>1, <3>1
  <2>2. CASE p = t.price /\ reported
    <3>1. Open(side, p)' = 0 /\ report.volume = level[side]
      BY <1>7, <1>17, <2>2
    <3>2. level[side] \in Nat /\ level[side] <= Open(side, p) + (IF counts THEN t.size ELSE 0)
      BY <1>6, <2>2
    <3> HIDE DEF reported, counts
    <3> QED BY <1>5, <1>12, <1>14, <1>15, <1>16, <2>2, <3>1, <3>2
  <2>3. CASE p = t.price /\ ~reported
    <3>1. Open(side, p)' \in {0, level[side]}
      BY <1>7, <1>17, <2>3
    <3>2. level[side] \in Nat /\ level[side] <= Open(side, p) + (IF counts THEN t.size ELSE 0)
      BY <1>6, <2>3
    <3> HIDE DEF reported, counts
    <3> QED BY <1>5, <1>12, <1>14, <1>15, <1>16, <2>3, <3>1, <3>2
  <2> QED BY <2>1, <2>2, <2>3
<1>21. Open(side, p)' > 0 => TradedAt(side, p)' # {}
  <2>1. CASE p # t.price
    BY <1>11, <1>16, <1>18, <2>1
  <2>2. CASE p = t.price
    <3>1. Open(side, p)' \in {0, level[side]}
      BY <1>7, <1>17, <2>2
    <3> QED BY <1>19, <2>2, <3>1
  <2> QED BY <2>1, <2>2
<1>22. ASSUME NEW i \in Absorbing(side, p)'
       PROVE  tape'[i].absorption.volume >= Absorbed /\ \E j \in 1..i : j \in TradedAt(side, p)'
  <2>1. CASE i \in Absorbing(side, p)
    BY <1>1, <1>11, <1>12, <1>16, <2>1
  <2>2. CASE i \notin Absorbing(side, p)
    <3>1. i = n + 1 /\ reported
      BY <1>10, <2>2
    <3>2. report.volume = level[side] /\ level[side] >= Absorbed /\ p = t.price
      BY <1>7, <3>1
    <3>3. level[side] \in Nat /\ level[side] > 0
      BY <1>6, <1>8, <3>2
    <3>4. PICK j : j \in TradedAt(side, p)'
      BY <1>19, <3>2, <3>3
    <3>5. j \in 1..(n + 1)
      BY <1>1, <1>11, <1>12, <3>4
    <3>6. tape'[i].absorption.volume >= Absorbed
      BY <1>2, <3>1, <3>2
    <3> QED BY <3>1, <3>4, <3>5, <3>6
  <2> QED BY <2>1, <2>2
<1> QED BY <1>20, <1>21, <1>22

LEMMA AbsorbedOnceThen ==
  ASSUME TapeAssumption, AbsorbInv PROVE AbsorbedOnce
<1> SUFFICES ASSUME NEW side \in {"buy", "sell"}, NEW p \in {t.price : t \in Ticks}
             PROVE  /\ Told(side, p) + Open(side, p) <= Traded(side, p)
                    /\ \A i \in Absorbing(side, p) :
                          /\ tape[i].absorption.volume >= Absorbed
                          /\ \E j \in 1..i : TradeAt(j).side = side /\ TradeAt(j).price = p
  BY DEF AbsorbedOnce, Told, Open, Traded, TradedAt
<1>1. p \in Int
  BY TicksAreTyped
<1> QED BY <1>1 DEF AbsorbInv, TradedAt, Sided

-----------------------------------------------------------------------------
(* Tape: what it tells. *)

TapeInv == TapeTypes /\ LevelsCount /\ SpeedIsOfItsTime /\ MinuteInv /\ AbsorbInv

LEMMA TapeBegins == ASSUME TapeAssumption, TapeInit PROVE TapeInv
<1>1. /\ host = 0 /\ tape = <<>> /\ recentTicks = {} /\ minute = <<>>
      /\ rollingPriceVolumes = [p \in {} |-> NewLevel]
  BY DEF TapeInit
<1>2. TapeTypes
  BY <1>1, EmptySeq DEF TapeTypes
<1>3. LevelsCount
  BY <1>1 DEF LevelsCount
<1>4. DOMAIN tape = {} /\ Len(tape) = 0
  BY <1>1
<1>5. SpeedIsOfItsTime
  BY <1>1, <1>4 DEF SpeedIsOfItsTime
<1>6. MinuteInv
  BY <1>1 DEF MinuteInv, TapeAssumption
<1>7. AbsorbInv
  <2> SUFFICES ASSUME NEW side \in {"buy", "sell"}, NEW p \in Int
               PROVE  /\ Told(side, p) + Open(side, p) <= Traded(side, p)
                      /\ ~(Open(side, p) > 0)
                      /\ Absorbing(side, p) = {}
    BY DEF AbsorbInv
  <2>1. Absorbing(side, p) = {} /\ TradedAt(side, p) = {}
    BY <1>4 DEF Absorbing, TradedAt, Sided
  <2>2. Told(side, p) = 0 /\ Traded(side, p) = 0
    BY <2>1, TotalOfNothing DEF Told, Traded
  <2>3. Open(side, p) = 0
    BY <1>1 DEF Open
  <2> QED BY <2>1, <2>2, <2>3
<1> QED BY <1>2, <1>3, <1>5, <1>6, <1>7 DEF TapeInv

LEMMA TapeGoesOn == ASSUME TapeAssumption, TapeInv, [TapeNext]_tapeVars PROVE TapeInv'
<1>1. TapeTypes /\ LevelsCount /\ SpeedIsOfItsTime /\ MinuteInv /\ AbsorbInv
  BY DEF TapeInv
<1>2. ASSUME NEW t \in Ticks, NEW book \in Books, ProcessTick(t, book) PROVE TapeInv'
  <2>1. TapeTypes' /\ LevelsCount'
    BY <1>1, <1>2, TapeStaysTyped
  <2>2. SpeedIsOfItsTime'
    BY <1>1, <1>2, SpeedIsKept
  <2>3. MinuteInv'
    BY <1>1, <1>2, MinuteIsKept
  <2>4. AbsorbInv'
    BY <1>1, <1>2, AbsorbedStaysOnce
  <2> QED BY <2>1, <2>2, <2>3, <2>4 DEF TapeInv
<1>3. ASSUME UNCHANGED <<tape, recentTicks, rollingPriceVolumes>> PROVE LevelsCount' /\ SpeedIsOfItsTime' /\ AbsorbInv'
  <2>1. LevelsCount'
    BY <1>1, <1>3 DEF LevelsCount
  <2>2. SpeedIsOfItsTime'
    BY <1>1, <1>3 DEF SpeedIsOfItsTime, TradeAt
  <2>3. AbsorbInv'
    <3> SUFFICES ASSUME NEW side \in {"buy", "sell"}, NEW p \in Int
                 PROVE  /\ Told(side, p)' + Open(side, p)' <= Traded(side, p)'
                        /\ Open(side, p)' > 0 => TradedAt(side, p)' # {}
                        /\ \A i \in Absorbing(side, p)' :
                              tape'[i].absorption.volume >= Absorbed /\ \E j \in 1..i : j \in TradedAt(side, p)'
      BY DEF AbsorbInv
    <3>1. Absorbing(side, p)' = Absorbing(side, p) /\ TradedAt(side, p)' = TradedAt(side, p)
      BY <1>3 DEF Absorbing, TradedAt, Sided, TradeAt
    <3>2. Told(side, p)' = Told(side, p) /\ Traded(side, p)' = Traded(side, p) /\ Open(side, p)' = Open(side, p)
      BY <1>3, <3>1, Zenon DEF Told, Traded, Open, TradeAt
    <3> QED BY <1>1, <1>3, <3>1, <3>2 DEF AbsorbInv
  <2> QED BY <2>1, <2>2, <2>3
<1>4. CASE HostTick
  <2>1. TapeTypes'
    BY <1>1, <1>4 DEF HostTick, TapeTypes
  <2>2. MinuteInv'
    BY <1>1, <1>4, MinutePasses
  <2> QED BY <1>3, <1>4, <2>1, <2>2 DEF HostTick, TapeInv
<1>5. CASE UNCHANGED tapeVars
  <2>1. TapeTypes' /\ MinuteInv'
    BY <1>1, <1>5 DEF tapeVars, TapeTypes, MinuteInv
  <2> QED BY <1>3, <1>5, <2>1 DEF tapeVars, TapeInv
<1> QED BY <1>2, <1>4, <1>5 DEF TapeNext

(* No volume is absorbed twice, the speed is of the trades within the time of every trade since, and a *)
(* snapshot counts every trade of the minute among the last 5000 (processTick, recordTick, snapshot). *)
THEOREM TapeIsTrueTheorem == ASSUME TapeAssumption PROVE TapeSpec => []TapeIsTrue
<1> USE TapeAssumption
<1>1. TapeInit => TapeInv
  BY TapeBegins
<1>2. TapeInv /\ [TapeNext]_tapeVars => TapeInv'
  BY TapeGoesOn
<1>3. TapeInv => TapeIsTrue
  <2>1. ASSUME TapeInv PROVE AbsorbedOnce /\ SpeedIsOfItsTime /\ MinuteIsWhole
    BY <2>1, AbsorbedOnceThen, MinuteIsWholeThen DEF TapeInv
  <2> QED BY <2>1 DEF TapeIsTrue
<1> QED BY <1>1, <1>2, <1>3, PTL DEF TapeSpec

-----------------------------------------------------------------------------
(* Options: totals over sets of contracts. *)

LEMMA SumIsTotal == ASSUME NEW S, NEW amount PROVE Sum(S, amount) = Total(amount, S)
BY Zenon DEF Sum, Total

(* What holds of the empty set and of any part with one more element holds of a finite set. *)
LEMMA PartByPart ==
  ASSUME NEW S, IsFiniteSet(S), NEW P, {} \in P,
         \A T \in SUBSET S : \A y \in S \ T : T \in P => T \cup {y} \in P
  PROVE  S \in P
<1> DEFINE Bad == {n \in Nat : \E T \in SUBSET S : Cardinality(T) = n /\ T \notin P}
<1>1. ASSUME Bad # {} PROVE FALSE
  <2>1. PICK n \in Bad : \A m \in Bad : n <= m
    <3> HIDE DEF Bad
    <3>1. Bad \in SUBSET Nat
      BY DEF Bad
    <3> QED BY <1>1, <3>1, LeastOf
  <2>2. PICK T \in SUBSET S : Cardinality(T) = n /\ T \notin P
    OBVIOUS
  <2>3. T # {} /\ IsFiniteSet(T)
    BY <2>2, FS_Subset
  <2>4. PICK c, R : c = First1(T) /\ R = T \ {c}
    OBVIOUS
  <2>5. c \in T /\ Cardinality(R) = n - 1 /\ n \in Nat \ {0}
    BY <2>2, <2>3, <2>4, OneLess
  <2>6. n - 1 \notin Bad /\ n - 1 \in Nat /\ R \in SUBSET S
    BY <2>1, <2>4, <2>5
  <2>7. R \in P
    BY <2>5, <2>6
  <2>8. c \in S \ R /\ R \cup {c} = T
    BY <2>2, <2>4, <2>5
  <2> QED BY <2>2, <2>6, <2>7, <2>8
<1>2. Cardinality(S) \in Nat /\ Cardinality(S) \notin Bad
  BY <1>1, FS_CardinalityType
<1> QED BY <1>2

LEMMA TotalOfTwo ==
  ASSUME NEW A, NEW B, IsFiniteSet(A), IsFiniteSet(B), A \cap B = {},
         NEW amount, \A x \in A \cup B : amount[x] \in Int
  PROVE  Total(amount, A \cup B) = Total(amount, A) + Total(amount, B)
<1> DEFINE P == {T \in SUBSET B : Total(amount, A \cup T) = Total(amount, A) + Total(amount, T)}
<1>1. {} \in P
  <2>1. Total(amount, A) \in Int /\ Total(amount, {}) = 0 /\ A \cup {} = A
    BY TotalIsInt, TotalOfNothing
  <2> QED BY <2>1
<1>2. ASSUME NEW T \in SUBSET B, NEW y \in B \ T, T \in P PROVE T \cup {y} \in P
  <2>1. PICK U : U = A \cup T
    OBVIOUS
  <2>2. IsFiniteSet(T) /\ IsFiniteSet(U)
    BY <2>1, FS_Subset, FS_Union
  <2>3. y \notin U /\ (\A x \in U \cup {y} : amount[x] \in Int) /\ \A x \in T \cup {y} : amount[x] \in Int
    BY <1>2, <2>1
  <2>4. Total(amount, U \cup {y}) = Total(amount, U) + amount[y]
    BY <2>2, <2>3, TotalOfOneMore
  <2>5. Total(amount, T \cup {y}) = Total(amount, T) + amount[y]
    BY <2>2, <2>3, TotalOfOneMore
  <2>6. Total(amount, A) \in Int /\ Total(amount, T) \in Int /\ amount[y] \in Int
    BY <2>2, <2>3, TotalIsInt
  <2>7. Total(amount, U) = Total(amount, A) + Total(amount, T)
    BY <1>2, <2>1
  <2>8. A \cup (T \cup {y}) = U \cup {y}
    BY <2>1
  <2>9. PICK V, W : V = T \cup {y} /\ W = U \cup {y}
    OBVIOUS
  <2>10. Total(amount, W) = Total(amount, A) + Total(amount, V)
    <3>1. Total(amount, W) = Total(amount, A) + Total(amount, T) + amount[y]
      BY <2>4, <2>7, <2>9
    <3>2. Total(amount, V) = Total(amount, T) + amount[y]
      BY <2>5, <2>9
    <3> QED BY <2>6, <3>1, <3>2
  <2>11. A \cup V = W /\ V \in SUBSET B
    BY <1>2, <2>8, <2>9
  <2>12. V \in P
    BY <2>10, <2>11
  <2> QED BY <2>9, <2>12
<1>3. B \in P
  <2> HIDE DEF P
  <2> QED BY <1>1, <1>2, PartByPart
<1> QED BY <1>3

(* A finite set of integers has a greatest. *)
LEMMA GreatestOf ==
  ASSUME NEW S \in SUBSET Int, IsFiniteSet(S), S # {}
  PROVE  \E m \in S : \A x \in S : x <= m
<1> DEFINE P == {T \in SUBSET S : T = {} \/ \E m \in T : \A x \in T : x <= m}
<1>1. {} \in P
  OBVIOUS
<1>2. ASSUME NEW T \in SUBSET S, NEW y \in S \ T, T \in P PROVE T \cup {y} \in P
  <2>1. CASE T = {}
    BY <2>1
  <2>2. CASE T # {}
    <3>1. PICK m \in T : \A x \in T : x <= m
      BY <1>2, <2>2
    <3>2. CASE y <= m
      BY <3>1, <3>2
    <3>3. CASE ~(y <= m)
      <4>1. \A x \in T \cup {y} : x <= y
        BY <3>1, <3>3
      <4> QED BY <4>1
    <3> QED BY <3>2, <3>3
  <2> QED BY <2>1, <2>2
<1>3. S \in P
  <2> HIDE DEF P
  <2> QED BY <1>1, <1>2, PartByPart
<1> QED BY <1>3

(* The first place with the greatest weight. *)
LEMMA FirstGreatest ==
  ASSUME NEW n \in Nat \ {0}, NEW w \in [1..n -> Int]
  PROVE  \E i \in 1..n : \A j \in 1..n : w[i] >= w[j] /\ (j < i => w[i] > w[j])
<1> DEFINE S == {w[i] : i \in 1..n}
<1>1. S \in SUBSET Int /\ S # {} /\ w \in Surjection(1..n, S)
  BY DEF Surjection
<1>2. IsFiniteSet(S)
  <2> HIDE DEF S
  <2> QED BY <1>1, FS_Interval, FS_Surjection
<1>3. PICK m \in S : \A x \in S : x <= m
  <2> HIDE DEF S
  <2> QED BY <1>1, <1>2, GreatestOf
<1>4. PICK i \in {j \in 1..n : w[j] = m} : \A j \in {j \in 1..n : w[j] = m} : i <= j
  <2> DEFINE I == {j \in 1..n : w[j] = m}
  <2>1. I \in SUBSET Nat /\ I # {}
    OBVIOUS
  <2> HIDE DEF I
  <2>2. \E i \in I : \A j \in I : i <= j
    BY <2>1, LeastOf
  <2> QED BY <2>2 DEF I
<1>5. ASSUME NEW j \in 1..n PROVE w[i] >= w[j] /\ (j < i => w[i] > w[j])
  <2>1. w[j] \in Int /\ w[i] \in Int /\ w[j] <= w[i] /\ w[i] = m
    BY <1>3, <1>4
  <2>2. j < i => w[j] # m
    BY <1>4
  <2> QED BY <2>1, <2>2
<1> QED BY <1>4, <1>5

LEMMA GreaterOf ==
  ASSUME NEW a \in Int, NEW b \in Int PROVE Max({a, b}) = IF a >= b THEN a ELSE b
<1>1. CASE a >= b
  <2>1. a \in {a, b} /\ \A x \in {a, b} : a >= x
    BY <1>1
  <2>2. \A y \in {a, b} : (\A x \in {a, b} : y >= x) => y = a
    BY <1>1
  <2> QED BY <1>1, <2>1, <2>2 DEF Max
<1>2. CASE ~(a >= b)
  <2>1. b \in {a, b} /\ \A x \in {a, b} : b >= x
    BY <1>2
  <2>2. \A y \in {a, b} : (\A x \in {a, b} : y >= x) => y = b
    BY <1>2
  <2> QED BY <1>2, <2>1, <2>2 DEF Max
<1> QED BY <1>1, <1>2

(* A finite set of integers put in order has each of them in one place. *)
LEMMA AscendingHasAll ==
  ASSUME NEW S \in SUBSET Int, IsFiniteSet(S)
  PROVE  /\ Ascending(S) \in Seq(S) /\ Len(Ascending(S)) = Cardinality(S)
         /\ ToSet(Ascending(S)) = S
<1> DEFINE Below(s) == {t \in S : t < s}
           rank == [s \in S |-> Cardinality(Below(s)) + 1]
<1>1. PICK n \in Nat : n = Cardinality(S)
  BY FS_CardinalityType
<1>2. ASSUME NEW s \in S
      PROVE  IsFiniteSet(Below(s)) /\ Cardinality(Below(s)) \in Nat /\ Cardinality(Below(s)) < n
  <2>1. Below(s) \in SUBSET S /\ Below(s) # S
    OBVIOUS
  <2> HIDE DEF Below
  <2>2. IsFiniteSet(Below(s)) /\ Cardinality(Below(s)) <= n /\ Cardinality(Below(s)) # n
    BY <1>1, <2>1, FS_Subset
  <2>3. Cardinality(Below(s)) \in Nat
    BY <2>2, FS_CardinalityType
  <2> QED BY <2>2, <2>3
<1>3. ASSUME NEW s \in S, NEW t \in S, s < t PROVE Cardinality(Below(s)) < Cardinality(Below(t))
  <2>1. Below(s) \in SUBSET Below(t) /\ Below(s) # Below(t)
    <3>1. s \in Below(t) /\ s \notin Below(s)
      BY <1>3
    <3>2. \A x \in Below(s) : x \in Below(t)
      BY <1>3
    <3> QED BY <3>1, <3>2
  <2> HIDE DEF Below
  <2>2. Cardinality(Below(s)) <= Cardinality(Below(t)) /\ Cardinality(Below(s)) # Cardinality(Below(t))
    BY <1>2, <2>1, FS_Subset
  <2> QED BY <1>2, <2>2
<1>4. rank \in Injection(S, 1..n)
  <2>1. \A s \in S : rank[s] \in 1..n
    <3> HIDE DEF Below
    <3> QED BY <1>2
  <2>2. \A s, t \in S : rank[s] = rank[t] => s = t
    <3> HIDE DEF Below
    <3> SUFFICES ASSUME NEW s \in S, NEW t \in S, rank[s] = rank[t], s # t PROVE FALSE
      OBVIOUS
    <3>1. s < t \/ t < s
      OBVIOUS
    <3>2. Cardinality(Below(s)) = Cardinality(Below(t))
      BY <1>2
    <3> QED BY <1>2, <1>3, <3>1, <3>2
  <2> HIDE DEF rank
  <2>3. rank \in [S -> 1..n]
    BY <2>1 DEF rank
  <2> QED BY <2>2, <2>3 DEF Injection, IsInjective
<1>5. rank \in Surjection(S, 1..n)
  <2> HIDE DEF rank
  <2>1. IsFiniteSet(1..n) /\ Cardinality(1..n) = n
    BY FS_Interval
  <2> QED BY <1>1, <1>4, <2>1, FS_Injection
<1>6. \A i \in 1..n : \E s \in S : Cardinality(Below(s)) = i - 1
  <2> SUFFICES ASSUME NEW i \in 1..n PROVE \E s \in S : Cardinality(Below(s)) = i - 1
    OBVIOUS
  <2>1. PICK s \in S : rank[s] = i
    <3> HIDE DEF rank
    <3> QED BY <1>5 DEF Surjection
  <2>2. Cardinality(Below(s)) + 1 = i
    <3> HIDE DEF Below
    <3> QED BY <2>1
  <2> HIDE DEF Below
  <2> QED BY <1>2, <2>2
<1>7. PICK a : a = Ascending(S)
  OBVIOUS
<1>8. DOMAIN a = 1..n /\ (a = [i \in 1..n |-> a[i]]) /\ \A i \in 1..n : a[i] \in S /\ Cardinality(Below(a[i])) = i - 1
  <2>1. a = [i \in 1..n |-> CHOOSE s \in S : Cardinality(Below(s)) = i - 1]
    BY <1>1, <1>7 DEF Ascending
  <2> HIDE DEF Below
  <2> QED BY <1>6, <2>1
<1>9. a \in Seq(S) /\ Len(a) = n
  <2> HIDE DEF Below
  <2> QED BY <1>8
<1>10. ASSUME NEW s \in S PROVE \E i \in 1..n : a[i] = s
  <2>1. PICK i : i = rank[s]
    OBVIOUS
  <2>2. i \in 1..n /\ i = Cardinality(Below(s)) + 1
    <3> HIDE DEF Below
    <3> QED BY <1>2, <2>1
  <2>3. a[i] \in S /\ Cardinality(Below(a[i])) = Cardinality(Below(s))
    <3> HIDE DEF Below
    <3> QED BY <1>2, <1>8, <2>2
  <2>4. a[i] = s
    <3> HIDE DEF Below
    <3>1. PICK r \in S : r = a[i]
      BY <2>3
    <3>2. Cardinality(Below(r)) = Cardinality(Below(s)) /\ Cardinality(Below(s)) \in Nat
      BY <1>2, <2>3, <3>1
    <3>3. ~(r < s) /\ ~(s < r)
      BY <1>3, <3>2
    <3> QED BY <3>1, <3>3
  <2> QED BY <2>2, <2>4
<1>11. ToSet(a) = S
  <2> HIDE DEF Below
  <2> QED BY <1>8, <1>10 DEF ToSet
<1> QED BY <1>1, <1>7, <1>9, <1>11

-----------------------------------------------------------------------------
(* Options: what is shown of a chain. *)

(* The contracts that count have a strike, a gamma and an open interest. *)
Countable(C) ==
  /\ IsFiniteSet(C)
  /\ \A c \in C : c.strike \in Int /\ c.greeks["gamma"] \in Int /\ c.openInterest \in Int

StrikesOf(C) == {c.strike : c \in C}
SideOf(C, type, T) == {c \in C : c.strike \in T /\ c.type = type}

LEMMA StrikesAreFinite ==
  ASSUME NEW C, Countable(C)
  PROVE  StrikesOf(C) \in SUBSET Int /\ IsFiniteSet(StrikesOf(C))
<1> DEFINE f == [c \in C |-> c.strike]
<1>1. f \in Surjection(C, StrikesOf(C))
  <2>1. f \in [C -> StrikesOf(C)]
    BY DEF StrikesOf
  <2>2. \A s \in StrikesOf(C) : \E c \in C : f[c] = s
    BY DEF StrikesOf
  <2> HIDE DEF f
  <2> QED BY <2>1, <2>2 DEF Surjection
<1>2. IsFiniteSet(StrikesOf(C))
  <2> HIDE DEF f
  <2> QED BY <1>1, FS_Surjection DEF Countable
<1> QED BY <1>2 DEF StrikesOf, Countable

LEMMA WeightsAreInt ==
  ASSUME NEW C, Countable(C)
  PROVE  \A c \in C : Weighted(C, "gamma")[c] \in Int
<1> SUFFICES ASSUME NEW c \in C PROVE Weighted(C, "gamma")[c] \in Int
  OBVIOUS
<1>1. PICK g, o : g = c.greeks["gamma"] /\ o = c.openInterest
  OBVIOUS
<1>2. g \in Int /\ o \in Int
  BY <1>1 DEF Countable
<1>3. Weighted(C, "gamma")[c] = g * o
  BY <1>1 DEF Weighted
<1> QED BY <1>2, <1>3

LEMMA SidesAreInt ==
  ASSUME NEW C, Countable(C), NEW type, NEW T
  PROVE  /\ IsFiniteSet(SideOf(C, type, T))
         /\ \A c \in SideOf(C, type, T) : Weighted(C, "gamma")[c] \in Int
         /\ Total(Weighted(C, "gamma"), SideOf(C, type, T)) \in Int
<1>1. PICK D, g : D = SideOf(C, type, T) /\ g = Weighted(C, "gamma")
  OBVIOUS
<1>2. D \in SUBSET C
  BY <1>1 DEF SideOf
<1>3. IsFiniteSet(D)
  BY <1>2, FS_Subset DEF Countable
<1>4. \A c \in D : g[c] \in Int
  BY <1>1, <1>2, WeightsAreInt
<1>5. Total(g, D) \in Int
  BY <1>3, <1>4, TotalIsInt
<1> QED BY <1>1, <1>3, <1>4, <1>5

(* The gamma of a strike is that of its calls less that of its puts. *)
LEMMA GexOfAStrike ==
  ASSUME NEW C, Countable(C), NEW s
  PROVE  /\ CallGex(C, s) = Total(Weighted(C, "gamma"), SideOf(C, "call", {s}))
         /\ PutGex(C, s) = -Total(Weighted(C, "gamma"), SideOf(C, "put", {s}))
         /\ CallGex(C, s) \in Int /\ PutGex(C, s) \in Int /\ NetGex(C, s) \in Int
         /\ NetGex(C, s) = CallGex(C, s) + PutGex(C, s)
<1>1. PICK g : g = Weighted(C, "gamma")
  OBVIOUS
<1>2. SideOf(C, "call", {s}) = {c \in C : c.strike = s /\ c.type = "call"}
  BY DEF SideOf
<1>3. SideOf(C, "put", {s}) = {c \in C : c.strike = s /\ c.type = "put"}
  BY DEF SideOf
<1>4. CallGex(C, s) = Total(g, SideOf(C, "call", {s}))
  BY <1>1, <1>2, SumIsTotal, Zenon DEF CallGex
<1>5. PICK p : p = Total(g, SideOf(C, "put", {s}))
  OBVIOUS
<1>6. Sum({c \in C : c.strike = s /\ c.type = "put"}, Weighted(C, "gamma")) = p
  BY <1>1, <1>3, <1>5, SumIsTotal, Zenon
<1>7. PutGex(C, s) = -p
  BY <1>6 DEF PutGex
<1>8. CallGex(C, s) \in Int /\ p \in Int
  BY <1>1, <1>4, <1>5, SidesAreInt
<1> QED BY <1>1, <1>4, <1>5, <1>7, <1>8 DEF NetGex

(* The total over the strikes is that of the calls less that of the puts. *)
LEMMA TotalOfTheStrikes ==
  ASSUME NEW C, Countable(C), NEW net, \A s \in StrikesOf(C) : net[s] = NetGex(C, s)
  PROVE  Total(net, StrikesOf(C)) = Total(Weighted(C, "gamma"), {c \in C : c.type = "call"})
                                    - Total(Weighted(C, "gamma"), {c \in C : c.type = "put"})
<1>1. PICK g, S : g = Weighted(C, "gamma") /\ S = StrikesOf(C)
  OBVIOUS
<1> DEFINE Of(type, T) == Total(g, SideOf(C, type, T))
           P == {T \in SUBSET S : Total(net, T) = Of("call", T) - Of("put", T)}
<1>2. ASSUME NEW type, NEW T, NEW y, y \notin T PROVE Of(type, T \cup {y}) = Of(type, T) + Of(type, {y})
  <2>1. PICK A, B : A = SideOf(C, type, T) /\ B = SideOf(C, type, {y})
    OBVIOUS
  <2>2. SideOf(C, type, T \cup {y}) = A \cup B /\ A \cap B = {}
    BY <1>2, <2>1 DEF SideOf
  <2>3. IsFiniteSet(A) /\ IsFiniteSet(B) /\ \A c \in A \cup B : g[c] \in Int
    BY <1>1, <2>1, SidesAreInt
  <2>4. Total(g, A \cup B) = Total(g, A) + Total(g, B)
    BY <2>2, <2>3, TotalOfTwo
  <2> QED BY <2>1, <2>2, <2>4
<1>3. \A type, T : Of(type, T) \in Int
  BY <1>1, SidesAreInt
<1>4. {} \in P
  <2>1. \A type : SideOf(C, type, {}) = {}
    BY DEF SideOf
  <2>2. \A type : Of(type, {}) = 0
    BY <2>1, TotalOfNothing
  <2>3. Total(net, {}) = 0
    BY TotalOfNothing
  <2> QED BY <2>2, <2>3
<1>5. IsFiniteSet(S) /\ \A s \in S : net[s] = NetGex(C, s) /\ net[s] \in Int
  BY <1>1, StrikesAreFinite, GexOfAStrike
<1>6. ASSUME NEW T \in SUBSET S, NEW y \in S \ T, T \in P PROVE T \cup {y} \in P
  <2>1. PICK U : U = T \cup {y}
    OBVIOUS
  <2>2. IsFiniteSet(T) /\ y \notin T /\ U \in SUBSET S /\ \A x \in U : net[x] \in Int
    BY <1>5, <1>6, <2>1, FS_Subset
  <2>3. Total(net, U) = Total(net, T) + net[y]
    BY <2>1, <2>2, TotalOfOneMore
  <2>4. net[y] = Of("call", {y}) - Of("put", {y})
    <3>1. PICK q, p : q = Of("call", {y}) /\ p = Of("put", {y})
      OBVIOUS
    <3>2. q \in Int /\ p \in Int
      BY <1>3, <3>1
    <3>3. CallGex(C, y) = q /\ PutGex(C, y) = -p /\ NetGex(C, y) = CallGex(C, y) + PutGex(C, y)
      BY <1>1, <3>1, GexOfAStrike
    <3> QED BY <1>5, <3>1, <3>2, <3>3
  <2>5. Total(net, T) = Of("call", T) - Of("put", T)
    BY <1>6
  <2>6. \A type : Of(type, U) = Of(type, T) + Of(type, {y})
    BY <1>2, <2>1, <2>2
  <2> HIDE DEF Of
  <2>7. PICK a, b, d, e : a = Of("call", T) /\ b = Of("call", {y}) /\ d = Of("put", T) /\ e = Of("put", {y})
    OBVIOUS
  <2>8. a \in Int /\ b \in Int /\ d \in Int /\ e \in Int
    BY <1>3, <2>7
  <2>9. Of("call", U) = a + b /\ Of("put", U) = d + e
    BY <2>6, <2>7
  <2>10. Total(net, U) = (a - d) + (b - e)
    BY <2>3, <2>4, <2>5, <2>7
  <2>11. Total(net, U) = Of("call", U) - Of("put", U)
    BY <2>8, <2>9, <2>10
  <2> QED BY <2>1, <2>2, <2>11
<1>7. S \in P
  <2> HIDE DEF P
  <2> QED BY <1>4, <1>5, <1>6, PartByPart
<1>8. \A type : SideOf(C, type, S) = {c \in C : c.type = type}
  BY <1>1 DEF SideOf, StrikesOf
<1>9. Total(net, S) = Of("call", S) - Of("put", S)
  BY <1>7
<1>10. Of("call", S) = Total(g, {c \in C : c.type = "call"}) /\ Of("put", S) = Total(g, {c \in C : c.type = "put"})
  BY <1>8
<1> HIDE DEF Of
<1> QED BY <1>1, <1>9, <1>10

LEMMA PlacesOf ==
  ASSUME NEW S, NEW q \in Seq(S)
  PROVE  Len(q) \in Nat /\ DOMAIN q = 1..Len(q) /\ \A i \in 1..Len(q) : q[i] \in S
OBVIOUS

LEMMA SequenceOfMore ==
  ASSUME NEW S, NEW T, T \subseteq S, NEW q \in Seq(T) PROVE q \in Seq(S)
<1>1. PICK n \in Nat : n = Len(q)
  OBVIOUS
<1>2. q = [i \in 1..n |-> q[i]] /\ \A i \in 1..n : q[i] \in S
  BY <1>1, PlacesOf
<1> QED BY <1>2

(* A wall is a strike that none beats. *)
LEMMA WallIsHighest ==
  ASSUME NEW S, NEW strikes \in Seq(S), Len(strikes) # 0, ToSet(strikes) = S,
         NEW weight, \A s \in S : weight[s] \in Int
  PROVE  /\ Wall(strikes, weight) \in S
         /\ \A s \in S : weight[s] <= weight[Wall(strikes, weight)]
<1>1. PICK n \in Nat \ {0} : n = Len(strikes) /\ DOMAIN strikes = 1..n /\ \A i \in 1..n : strikes[i] \in S
  BY PlacesOf
<1>2. PICK w : w = [i \in 1..n |-> weight[strikes[i]]]
  OBVIOUS
<1>3. w \in [1..n -> Int] /\ \A i \in 1..n : w[i] = weight[strikes[i]]
  BY <1>1, <1>2
<1>4. \E i \in 1..n : \A j \in 1..n : w[i] >= w[j] /\ (j < i => w[i] > w[j])
  BY <1>3, FirstGreatest
<1>5. \E i \in DOMAIN strikes :
         \A j \in DOMAIN strikes : /\ weight[strikes[i]] >= weight[strikes[j]]
                                   /\ j < i => weight[strikes[i]] > weight[strikes[j]]
  <2>1. PICK i \in 1..n : \A j \in 1..n : w[i] >= w[j] /\ (j < i => w[i] > w[j])
    BY <1>4
  <2>2. \A j \in 1..n : /\ weight[strikes[i]] >= weight[strikes[j]]
                        /\ j < i => weight[strikes[i]] > weight[strikes[j]]
    BY <1>3, <2>1
  <2> QED BY <1>1, <2>2
<1>6. PICK i \in DOMAIN strikes :
        /\ Wall(strikes, weight) = strikes[i]
        /\ \A j \in DOMAIN strikes : weight[strikes[i]] >= weight[strikes[j]]
  BY <1>5 DEF Wall
<1>7. ASSUME NEW s \in S PROVE weight[s] <= weight[strikes[i]]
  <2>1. PICK j \in DOMAIN strikes : s = strikes[j]
    BY DEF ToSet
  <2>2. strikes[i] \in S
    OBVIOUS
  <2>3. weight[s] \in Int /\ weight[strikes[i]] \in Int
    BY <2>2
  <2> QED BY <1>6, <2>1, <2>3
<1>8. strikes[i] \in S
  OBVIOUS
<1> QED BY <1>6, <1>7, <1>8

(* The closest strike of a chain has a place, the first of those that are as close. *)
LEMMA ClosestHasAPlace ==
  ASSUME NEW S \in SUBSET Int, NEW strikes \in Seq(S), Len(strikes) # 0, NEW spot \in Int
  PROVE  /\ closestIdx(strikes, spot) \in 1..Len(strikes)
         /\ \A j \in 1..Len(strikes) :
              Abs(strikes[closestIdx(strikes, spot)] - spot) <= Abs(strikes[j] - spot)
<1>1. PICK n \in Nat \ {0} : n = Len(strikes) /\ DOMAIN strikes = 1..n /\ \A i \in 1..n : strikes[i] \in S
  BY PlacesOf
<1>2. PICK w : w = [i \in 1..n |-> -Abs(strikes[i] - spot)]
  OBVIOUS
<1>3. \A i \in 1..n : Abs(strikes[i] - spot) \in Int
  <2> SUFFICES ASSUME NEW i \in 1..n PROVE Abs(strikes[i] - spot) \in Int
    OBVIOUS
  <2>1. PICK e \in S : e = strikes[i]
    BY <1>1
  <2>2. e \in Int
    OBVIOUS
  <2>3. Abs(e - spot) \in Int
    BY <2>2 DEF Abs
  <2> QED BY <2>1, <2>3
<1>4. w \in [1..n -> Int] /\ \A i \in 1..n : w[i] = -Abs(strikes[i] - spot)
  BY <1>2, <1>3
<1>5. PICK i \in 1..n : \A j \in 1..n : w[i] >= w[j] /\ (j < i => w[i] > w[j])
  BY <1>4, FirstGreatest
<1>6. \A j \in 1..n : /\ Abs(strikes[i] - spot) <= Abs(strikes[j] - spot)
                      /\ j < i => Abs(strikes[i] - spot) < Abs(strikes[j] - spot)
  <2> SUFFICES ASSUME NEW j \in 1..n
               PROVE  /\ Abs(strikes[i] - spot) <= Abs(strikes[j] - spot)
                      /\ j < i => Abs(strikes[i] - spot) < Abs(strikes[j] - spot)
    OBVIOUS
  <2>1. PICK a, b : a = Abs(strikes[i] - spot) /\ b = Abs(strikes[j] - spot)
    OBVIOUS
  <2>2. a \in Int /\ b \in Int /\ w[i] = -a /\ w[j] = -b
    BY <1>3, <1>4, <2>1
  <2>3. w[i] >= w[j] /\ (j < i => w[i] > w[j])
    BY <1>5
  <2>4. a <= b /\ (j < i => a < b)
    BY <2>2, <2>3
  <2> QED BY <2>1, <2>4
<1>7. \E i1 \in DOMAIN strikes :
         \A j \in DOMAIN strikes : /\ Abs(strikes[i1] - spot) <= Abs(strikes[j] - spot)
                                   /\ j < i1 => Abs(strikes[i1] - spot) < Abs(strikes[j] - spot)
  BY <1>1, <1>6
<1>8. PICK c \in DOMAIN strikes :
         /\ c = closestIdx(strikes, spot)
         /\ \A j \in DOMAIN strikes : Abs(strikes[c] - spot) <= Abs(strikes[j] - spot)
  BY <1>7, Zenon DEF closestIdx
<1> QED BY <1>1, <1>8

(* The strikes shown are strikes of the chain, among them the closest; without enough near the      *)
(* spot they are no more than the window.                                                           *)
LEMMA ShownAreOfTheChain ==
  ASSUME NEW S \in SUBSET Int, IsFiniteSet(S), S # {}, NEW spot \in Int,
         NEW levels, levels = usedStrikes(Ascending(S), spot)
  PROVE  /\ levels \in Seq(S)
         /\ \E s \in ToSet(levels) : \A t \in S : Abs(s - spot) <= Abs(t - spot)
         /\ Len(Near(Ascending(S), spot)) < NearCount => Len(levels) <= 2 * HalfWindow
<1>1. PICK strikes : strikes = Ascending(S)
  OBVIOUS
<1>2. strikes \in Seq(S) /\ Len(strikes) # 0 /\ ToSet(strikes) = S
  BY <1>1, AscendingHasAll, FS_EmptySet
<1>3. PICK n \in Nat \ {0} : n = Len(strikes) /\ DOMAIN strikes = 1..n /\ \A i \in 1..n : strikes[i] \in S
  BY <1>2, PlacesOf
<1>4. PICK c \in 1..n : /\ c = closestIdx(strikes, spot)
                        /\ \A j \in 1..n : Abs(strikes[c] - spot) <= Abs(strikes[j] - spot)
  <2>1. PICK c : c = closestIdx(strikes, spot)
    OBVIOUS
  <2>2. c \in 1..n /\ \A j \in 1..n : Abs(strikes[c] - spot) <= Abs(strikes[j] - spot)
    BY <1>2, <1>3, <2>1, ClosestHasAPlace
  <2> QED BY <2>1, <2>2
<1>5. PICK k \in S : k = strikes[c]
  BY <1>2, <1>3
<1>6. \A t \in S : Abs(k - spot) <= Abs(t - spot)
  <2> SUFFICES ASSUME NEW t \in S PROVE Abs(k - spot) <= Abs(t - spot)
    OBVIOUS
  <2>1. PICK j \in 1..n : t = strikes[j]
    BY <1>2, <1>3 DEF ToSet
  <2> QED BY <1>4, <1>5, <2>1
<1>7. PICK near : near = Near(strikes, spot)
  OBVIOUS
<1>8. CASE Len(near) >= NearCount
  <2> DEFINE N == {s \in S : 20 * Abs(s - spot) <= spot}
  <2>1. levels = near
    BY <1>1, <1>7, <1>8 DEF usedStrikes
  <2>2. near = Ascending(N)
    BY <1>2, <1>7 DEF Near
  <2>3. N \in SUBSET S /\ N \in SUBSET Int
    OBVIOUS
  <2> HIDE DEF N
  <2>4. IsFiniteSet(N)
    BY <2>3, FS_Subset
  <2>5. near \in Seq(N) /\ Len(near) = Cardinality(N) /\ ToSet(near) = N
    BY <2>2, <2>3, <2>4, AscendingHasAll
  <2>6. PICK s \in N : TRUE
    <3>1. Cardinality(N) # 0
      BY <1>8, <2>5, OptionsAssumption
    <3>2. N # {}
      BY <3>1, FS_EmptySet
    <3> QED BY <3>2
  <2>7. k \in N
    <3>1. PICK a, b : a = Abs(k - spot) /\ b = Abs(s - spot)
      OBVIOUS
    <3>2. s \in S /\ 20 * b <= spot
      BY <3>1 DEF N
    <3>3. a <= b
      BY <1>6, <3>1, <3>2
    <3>4. k \in Int /\ s \in Int
      BY <3>2
    <3>5. a \in Int /\ b \in Int
      BY <3>1, <3>4 DEF Abs
    <3>6. 20 * a <= spot
      BY <3>2, <3>3, <3>5
    <3> QED BY <3>1, <3>6 DEF N
  <2>8. levels \in Seq(S) /\ k \in ToSet(levels)
    <3>1. near \in Seq(S)
      BY <2>3, <2>5, SequenceOfMore
    <3> QED BY <2>1, <2>5, <2>7, <3>1
  <2>9. ~(Len(Near(Ascending(S), spot)) < NearCount)
    <3>1. Len(near) \in Nat
      BY <2>5
    <3> QED BY <1>1, <1>7, <1>8, <3>1, OptionsAssumption
  <2> QED BY <1>6, <2>8, <2>9
<1>9. CASE ~(Len(near) >= NearCount)
  <2>1. PICK start, end, first : /\ start = Max({0, c - 1 - HalfWindow})
                                 /\ end = Min({n, start + 2 * HalfWindow})
                                 /\ first = Max({0, end - 2 * HalfWindow})
    OBVIOUS
  <2>2. levels = SubSeq(strikes, first + 1, end)
    BY <1>1, <1>3, <1>4, <1>7, <1>9, <2>1 DEF usedStrikes
  <2>a. \A x, y \in Int : /\ Max({x, y}) = IF x >= y THEN x ELSE y
                          /\ Min({x, y}) = IF x <= y THEN x ELSE y
    BY GreaterOf, LesserOf
  <2>3. start = IF 0 >= c - 1 - HalfWindow THEN 0 ELSE c - 1 - HalfWindow
    <3>1. PICK x \in Int : x = c - 1 - HalfWindow
      BY OptionsAssumption
    <3>2. start = Max({0, x})
      BY <2>1, <3>1
    <3>3. start = IF 0 >= x THEN 0 ELSE x
      BY <2>a, <3>2
    <3> QED BY <3>1, <3>3
  <2>4. end = IF n <= start + 2 * HalfWindow THEN n ELSE start + 2 * HalfWindow
    <3>1. PICK x \in Int : x = start + 2 * HalfWindow
      BY <2>3, OptionsAssumption
    <3>2. end = Min({n, x})
      BY <2>1, <3>1
    <3>3. end = IF n <= x THEN n ELSE x
      BY <2>a, <3>2
    <3> QED BY <3>1, <3>3
  <2>5. first = IF 0 >= end - 2 * HalfWindow THEN 0 ELSE end - 2 * HalfWindow
    <3>1. PICK x \in Int : x = end - 2 * HalfWindow
      BY <2>3, <2>4, OptionsAssumption
    <3>2. first = Max({0, x})
      BY <2>1, <3>1
    <3>3. first = IF 0 >= x THEN 0 ELSE x
      BY <2>a, <3>2
    <3> QED BY <3>1, <3>3
  <2>6. PICK m : m = first + 1
    OBVIOUS
  <2>7. m \in Int /\ end \in Int /\ 1 <= m /\ m <= c /\ c <= end /\ end <= n /\ end - m + 1 <= 2 * HalfWindow
    BY <2>3, <2>4, <2>5, <2>6, OptionsAssumption
  <2>8. \A i \in m..end : strikes[i] \in S
    BY <1>2, <1>3, <2>7
  <2>9. /\ levels \in Seq(S) /\ Len(levels) = end - m + 1
        /\ \A i \in 1..(end - m + 1) : levels[i] = strikes[m + i - 1]
    BY <2>2, <2>6, <2>7, <2>8, SubSeqProperties
  <2>10. k \in ToSet(levels)
    <3>1. PICK i : i = c - m + 1
      OBVIOUS
    <3>2. i \in 1..(end - m + 1) /\ m + i - 1 = c
      BY <2>7, <3>1
    <3>3. levels[i] = k /\ i \in DOMAIN levels
      BY <1>5, <2>9, <3>2
    <3> QED BY <3>3 DEF ToSet
  <2> QED BY <1>6, <2>7, <2>9, <2>10
<1> QED BY <1>8, <1>9

(* A flip is one of the strikes shown, with gamma above its puts. *)
LEMMA FlipIsShown ==
  ASSUME NEW S, NEW levels \in Seq(S), NEW net, \A s \in S : net[s] \in Int, FlipOf(levels, net) # None
  PROVE  \E i \in DOMAIN levels : FlipOf(levels, net) = levels[i] /\ net[levels[i]] > 0
<1>1. PICK n \in Nat : n = Len(levels) /\ DOMAIN levels = 1..n
  OBVIOUS
<1>2. PICK w : w = [j \in DOMAIN levels |-> net[levels[j]]]
  OBVIOUS
<1>3. \A j \in 1..n : w[j] = net[levels[j]] /\ w[j] \in Int
  BY <1>1, <1>2
<1> DEFINE turns == {i \in 1..n : Sum(1..(i - 1), w) < 0 /\ Sum(1..i, w) >= 0}
           rises == {i \in 1..n : i > 1 /\ net[levels[i - 1]] <= 0 /\ net[levels[i]] > 0}
<1>4. FlipOf(levels, net) =
        IF turns # {} THEN levels[Min(turns)] ELSE IF rises # {} THEN levels[Min(rises)] ELSE None
  BY <1>1, <1>2 DEF FlipOf
<1>5. \A i \in turns : net[levels[i]] > 0
  <2> SUFFICES ASSUME NEW i \in 1..n, Sum(1..(i - 1), w) < 0, Sum(1..i, w) >= 0 PROVE net[levels[i]] > 0
    OBVIOUS
  <2>1. PICK I, J : I = 1..(i - 1) /\ J = 1..i
    OBVIOUS
  <2>2. J = I \cup {i} /\ i \notin I /\ \A x \in J : w[x] \in Int
    BY <1>3, <2>1
  <2>3. IsFiniteSet(I)
    BY <2>1, FS_Interval
  <2>4. Total(w, J) = Total(w, I) + w[i]
    BY <2>2, <2>3, TotalOfOneMore
  <2>5. PICK a, b : a = Total(w, I) /\ b = Total(w, J)
    OBVIOUS
  <2>6. a < 0 /\ b >= 0
    BY <2>1, <2>5, SumIsTotal
  <2>7. a \in Int /\ w[i] \in Int
    BY <2>2, <2>3, <2>5, TotalIsInt
  <2>8. w[i] > 0
    BY <2>4, <2>5, <2>6, <2>7
  <2> QED BY <1>3, <2>8
<1>6. \A i \in rises : net[levels[i]] > 0
  OBVIOUS
<1>7. turns \in SUBSET Nat /\ rises \in SUBSET Nat /\ turns \in SUBSET (1..n) /\ rises \in SUBSET (1..n)
  OBVIOUS
<1> HIDE DEF turns, rises
<1>8. CASE turns # {}
  <2>1. Min(turns) \in turns
    BY <1>7, <1>8, LeastOf DEF Min
  <2> QED BY <1>1, <1>4, <1>5, <1>7, <1>8, <2>1
<1>9. CASE turns = {} /\ rises # {}
  <2>1. Min(rises) \in rises
    BY <1>7, <1>9, LeastOf DEF Min
  <2> QED BY <1>1, <1>4, <1>6, <1>7, <1>9, <2>1
<1> QED BY <1>4, <1>8, <1>9

(* Options (options/exposure.ts): of whatever chain and spot the map of the gamma is built from,    *)
(* the ladder holds the strike closest to the spot, the totals are those of the whole chain, no     *)
(* strike beats a wall on its side, and the flip is a strike shown that has gamma of its own.       *)
THEOREM ExposureIsOfTheChainTheorem ==
  ASSUME NEW spot \in Int \cup {None}, NEW contracts, IsFiniteSet(contracts),
         \A c \in Counted(contracts) : c.strike \in Int /\ c.greeks["gamma"] \in Int /\ c.openInterest \in Int
  PROVE  ExposureIsOfTheChain(spot, contracts)
<1>1. PICK C, S, strikes, levels :
        /\ C = Counted(contracts) /\ S = {c.strike : c \in C}
        /\ strikes = Ascending(S) /\ levels = usedStrikes(strikes, spot)
  OBVIOUS
<1>2. PICK net, callSide, putSide :
        /\ net = [s \in S |-> NetGex(C, s)]
        /\ callSide = [s \in S |-> CallGex(C, s)]
        /\ putSide = [s \in S |-> -PutGex(C, s)]
  OBVIOUS
<1>3. PICK x : x = buildExposure(spot, contracts)
  OBVIOUS
<1> DEFINE Built == /\ x.levels = levels /\ x.gex = Sum(S, net)
                    /\ x.callWall = Wall(strikes, callSide) /\ x.putWall = Wall(strikes, putSide)
                    /\ x.gammaFlip = FlipOf(levels, net)
           Relied == /\ \E s \in ToSet(x.levels) : \A t \in S : Abs(s - spot) <= Abs(t - spot)
                     /\ Len(Near(strikes, spot)) < NearCount => Len(x.levels) <= 2 * HalfWindow
                     /\ x.gex = Sum({c \in C : c.type = "call"}, Weighted(C, "gamma"))
                                - Sum({c \in C : c.type = "put"}, Weighted(C, "gamma"))
                     /\ \A s \in S : CallGex(C, s) <= CallGex(C, x.callWall) /\ PutGex(C, s) >= PutGex(C, x.putWall)
                     /\ x.gammaFlip # None => x.gammaFlip \in ToSet(x.levels) /\ NetGex(C, x.gammaFlip) > 0
<1>4. x # None => spot # None /\ spot > 0 /\ C # {} /\ Built
  <2>1. DOMAIN net = S
    BY <1>2
  <2>2. x # None => ~(spot = None \/ spot <= 0 \/ C = {})
    BY <1>1, <1>3 DEF buildExposure
  <2>3. x # None => Built
    BY <1>1, <1>2, <1>3, <2>1, <2>2 DEF buildExposure
  <2> QED BY <2>2, <2>3
<1>5. ExposureIsOfTheChain(spot, contracts) <=> (x # None => Relied)
  BY <1>1, <1>3 DEF ExposureIsOfTheChain
<1> HIDE DEF Relied, Built
<1>6. SUFFICES ASSUME spot \in Int, C # {}, Built PROVE Relied
  BY <1>4, <1>5
<1>7. Countable(C)
  <2>1. C \in SUBSET contracts
    BY <1>1 DEF Counted
  <2>2. IsFiniteSet(C)
    BY <2>1, FS_Subset
  <2> QED BY <1>1, <2>2 DEF Countable
<1>8. S = StrikesOf(C) /\ S \in SUBSET Int /\ IsFiniteSet(S) /\ S # {}
  <2>1. S = StrikesOf(C)
    BY <1>1 DEF StrikesOf
  <2>2. S # {}
    BY <1>1, <1>6
  <2> QED BY <1>7, <2>1, <2>2, StrikesAreFinite
<1>9. \A s \in S : net[s] = NetGex(C, s) /\ net[s] \in Int
  BY <1>2, <1>7, GexOfAStrike
<1>10. /\ levels \in Seq(S)
       /\ \E s \in ToSet(levels) : \A t \in S : Abs(s - spot) <= Abs(t - spot)
       /\ Len(Near(strikes, spot)) < NearCount => Len(levels) <= 2 * HalfWindow
  BY <1>1, <1>6, <1>8, ShownAreOfTheChain
<1>11. x.gex = Sum({c \in C : c.type = "call"}, Weighted(C, "gamma"))
               - Sum({c \in C : c.type = "put"}, Weighted(C, "gamma"))
  <2>1. x.gex = Total(net, S)
    BY <1>6, SumIsTotal DEF Built
  <2>2. PICK g, D, E : g = Weighted(C, "gamma") /\ D = {c \in C : c.type = "call"} /\ E = {c \in C : c.type = "put"}
    OBVIOUS
  <2>3. Total(net, S) = Total(g, D) - Total(g, E)
    BY <1>7, <1>8, <1>9, <2>2, TotalOfTheStrikes
  <2>4. Sum(D, g) = Total(g, D) /\ Sum(E, g) = Total(g, E)
    BY SumIsTotal
  <2> QED BY <2>1, <2>2, <2>3, <2>4
<1>12. strikes \in Seq(S) /\ Len(strikes) # 0 /\ ToSet(strikes) = S
  BY <1>1, <1>8, AscendingHasAll, FS_EmptySet
<1>13. ASSUME NEW s \in S
       PROVE  CallGex(C, s) <= CallGex(C, x.callWall) /\ PutGex(C, s) >= PutGex(C, x.putWall)
  <2>1. PICK a, b : a = x.callWall /\ b = x.putWall
    OBVIOUS
  <2>2. a = Wall(strikes, callSide) /\ b = Wall(strikes, putSide)
    BY <1>6, <2>1 DEF Built
  <2>3. \A t \in S : callSide[t] = CallGex(C, t) /\ callSide[t] \in Int /\ PutGex(C, t) \in Int
    BY <1>2, <1>7, GexOfAStrike
  <2>4. \A t \in S : putSide[t] = -PutGex(C, t) /\ putSide[t] \in Int
    BY <1>2, <2>3
  <2>5. a \in S /\ b \in S /\ callSide[s] <= callSide[a] /\ putSide[s] <= putSide[b]
    BY <1>12, <2>2, <2>3, <2>4, WallIsHighest
  <2>6. CallGex(C, s) <= CallGex(C, a)
    BY <2>3, <2>5
  <2>7. PICK p, q : p = PutGex(C, s) /\ q = PutGex(C, b)
    OBVIOUS
  <2>8. p \in Int /\ q \in Int /\ -p <= -q
    BY <2>3, <2>4, <2>5, <2>7
  <2>9. p >= q
    BY <2>8
  <2> QED BY <2>1, <2>6, <2>7, <2>9
<1>14. ASSUME x.gammaFlip # None
       PROVE  x.gammaFlip \in ToSet(x.levels) /\ NetGex(C, x.gammaFlip) > 0
  <2>1. PICK f : f = FlipOf(levels, net)
    OBVIOUS
  <2>2. f = x.gammaFlip /\ levels = x.levels
    BY <1>6, <2>1 DEF Built
  <2>3. PICK i \in DOMAIN levels : f = levels[i] /\ net[levels[i]] > 0
    BY <1>9, <1>10, <1>14, <2>1, <2>2, FlipIsShown
  <2>4. f \in ToSet(levels) /\ f \in S
    BY <1>10, <2>3 DEF ToSet
  <2>5. NetGex(C, f) > 0
    BY <1>9, <2>3, <2>4
  <2> QED BY <2>2, <2>4, <2>5
<1>15. x.levels = levels
  BY <1>6 DEF Built
<1> QED BY <1>10, <1>11, <1>13, <1>14, <1>15 DEF Relied
=============================================================================
