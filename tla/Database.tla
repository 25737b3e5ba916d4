------------------------------ MODULE Database ------------------------------
(***************************************************************************)
(* The database files of a dashboard (db.rs, db/pool.rs, db_migrations,    *)
(* commands/database.rs) and what fills them (commands/settings.rs): the   *)
(* primary and the demo database, the switch between them, the pool of     *)
(* connections, backups, and the restore of a backup, which takes the      *)
(* triggers away and puts them back outside its transaction.  A database   *)
(* is the set of days it has sessions of, tracked or made up.              *)
(***************************************************************************)
EXTENDS Integers, FiniteSets

CONSTANTS
  Task,        \* threads of commands
  NoTask, NoRestore,
  Today,       \* days are 1..Today
  MaxDbOps,    \* bound: of commands and ends
  MaxBackups   \* bound: of backup files

VARIABLES
  dbFile,      \* the files: [items, mark, armed, old]; mark is daily_backfill_min_date
  mode,        \* timeflow_dashboard_mode.json
  dash,        \* the dashboard: [up, path, flag, seen, pool], see Down
  task,        \* a command on its way, see NewTask
  backups,     \* backup files: [items, mark, old]
  restored,    \* what the last restore of each file put there
  cutOff,      \* files whose restore was cut off
  lateIn,      \* files that a refresh wrote which had looked at them before a restore
  mixed,       \* files that a refresh wrote which a switch of modes overtook
  strays,      \* files that a refresh wrote data of the other mode to
  spentDb

dbVars == <<dbFile, mode, dash, task, backups, restored, cutOff, lateIn, mixed,
            strays, spentDb>>

Files == {"primary", "demo"}

\* The triggers that schema.sql creates at every start, and those that only a
\* migration does (deletions of sessions and applications, names of projects).
Triggers == {"schema", "migration"}

Items == (1..Today) \X {"tracked", "made up"}
Proper(f) == IF f = "demo" THEN "made up" ELSE "tracked"

Down == [up |-> FALSE, path |-> "primary", flag |-> "primary", seen |-> {},
         pool |-> [path |-> "primary", idle |-> {}]]

NoCopy == [items |-> {}, mark |-> 0, old |-> FALSE]

NewTask(pc) ==
  [pc |-> pc, conn |-> "primary", path |-> "primary", to |-> "primary", todo |-> {},
   only |-> FALSE, list |-> {}, left |-> {}, from |-> NoCopy, ok |-> FALSE,
   stale |-> FALSE, crossed |-> FALSE]

SwitchPcs == {"switching", "flagging", "resetting"}

Busy(pcs) == {t \in Task : task[t] # NoTask /\ task[t].pc \in pcs}
Switching == Busy(SwitchPcs) # {}
Restoring(f) == {t \in Busy({"dropping", "creating"}) : task[t].conn = f}

\* A file, and what a backup keeps of it.
FileSet == [items : SUBSET Items, mark : 0..(Today + 1), armed : SUBSET Triggers, old : BOOLEAN]
DbCopy == [items : SUBSET Items, mark : 0..(Today + 1), old : BOOLEAN]

Pcs == SwitchPcs \cup {"loaded", "writing", "dropping", "creating"}

Commands ==
  [pc : Pcs, conn : Files, path : Files, to : Files, todo : SUBSET Items, only : BOOLEAN,
   list : SUBSET Triggers, left : SUBSET Triggers, from : DbCopy,
   ok : BOOLEAN, stale : BOOLEAN, crossed : BOOLEAN]

ASSUME DbAssumption == Today \in Nat \ {0} /\ NoTask \notin Commands

DbTypeOK ==
  /\ dbFile \in [Files -> FileSet]
  /\ mode \in Files
  /\ dash \in [up : BOOLEAN, path : Files, flag : Files, seen : SUBSET Files,
               pool : [path : Files, idle : SUBSET Files]]
  /\ task \in [Task -> Commands \cup {NoTask}]
  /\ backups \subseteq DbCopy
  /\ restored \in [Files -> (SUBSET Items) \cup {NoRestore}]
  /\ cutOff \subseteq Files /\ lateIn \subseteq Files
  /\ mixed \subseteq Files /\ strays \subseteq Files

\* New files, and no backup or one that an older version made.
DbInit ==
  /\ dbFile = [f \in Files |-> [items |-> {}, mark |-> 0, armed |-> Triggers, old |-> FALSE]]
  /\ mode = "primary" /\ dash = Down /\ task = [t \in Task |-> NoTask]
  /\ backups \in {{}, {[items |-> {}, mark |-> 0, old |-> TRUE]}}
  /\ restored = [f \in Files |-> NoRestore]
  /\ cutOff = {} /\ lateIn = {} /\ mixed = {} /\ strays = {} /\ spentDb = 0

Spend == spentDb < MaxDbOps /\ spentDb' = spentDb + 1

-----------------------------------------------------------------------------
(* The pool: idle connections, each to the file it was opened for.          *)

\* The connections acquire may hand out: an idle one, or a new one.
Offered == IF dash.pool.path = dash.path /\ dash.pool.idle # {} THEN dash.pool.idle ELSE {dash.path}

PoolAfterAcquire(conn) ==
  [path |-> dash.path,
   idle |-> IF dash.pool.path = dash.path THEN dash.pool.idle \ {conn} ELSE {}]

\* Mutant: the path of the connection is not compared.
PoolAfterAnyRelease(path, conn) == [dash.pool EXCEPT !.idle = @ \cup {conn}]

\* release
PoolAfterRelease(path, conn) ==
  IF dash.pool.path = path THEN [dash.pool EXCEPT !.idle = @ \cup {conn}] ELSE dash.pool

\* get_connection for the command r of thread t.
Acquire(t, r, conn) ==
  /\ dash' = [dash EXCEPT !.pool = PoolAfterAcquire(conn)]
  /\ task' = [task EXCEPT ![t] = [r EXCEPT !.conn = conn, !.path = dash.path]]

-----------------------------------------------------------------------------
(* Starting, ending, and the switch of modes.                               *)

\* run_migrations: a version older than the newest runs all that came after it.
Migrated(b) == [b EXCEPT !.armed = IF b.old THEN Triggers ELSE @, !.old = FALSE]

\* initialize_database_file: the schema, then the migrations.
Initialised(b) == Migrated([b EXCEPT !.armed = @ \cup {"schema"}])

\* VACUUM INTO of the file b.
WithCopyOf(b) == backups \cup {[items |-> b.items, mark |-> b.mark, old |-> b.old]}

\* maybe_auto_backup: one may be due.
AutoBackup(b) == {s \in {backups, WithCopyOf(b)} : Cardinality(s) <= MaxBackups}

\* initialize opens the file of the persisted mode.
Open ==
  /\ ~dash.up
  /\ dbFile' = [dbFile EXCEPT ![mode] = Initialised(@)]
  /\ dash' = [Down EXCEPT !.up = TRUE, !.path = mode, !.flag = mode, !.seen = {mode},
                          !.pool.path = mode]
  /\ backups' \in AutoBackup(dbFile'[mode])
  /\ UNCHANGED <<mode, task, restored, cutOff, lateIn, mixed, strays, spentDb>>

\* The dashboard ends, its threads with it, and SQLite rolls back their transactions.
Close ==
  /\ dash.up /\ Spend
  /\ dash' = Down /\ task' = [t \in Task |-> NoTask]
  /\ cutOff' = cutOff \cup {f \in Files : Restoring(f) # {}}
  /\ UNCHANGED <<dbFile, mode, backups, restored, lateIn, mixed, strays>>

\* set_demo_mode: the file is initialised (once for each process) and the mode written;
\* then the path, the flag and the pool change one after the other.
BeginSwitch(t, m) ==
  /\ dash.up /\ task[t] = NoTask /\ Spend
  /\ dbFile' = IF m \in dash.seen THEN dbFile ELSE [dbFile EXCEPT ![m] = Initialised(@)]
  /\ dash' = [dash EXCEPT !.seen = @ \cup {m}]
  /\ mode' = m
  /\ task' = [u \in Task |->
               IF u = t THEN [NewTask("switching") EXCEPT !.to = m, !.crossed = Switching]
               ELSE IF task[u] = NoTask THEN NoTask ELSE [task[u] EXCEPT !.crossed = TRUE]]
  /\ UNCHANGED <<backups, restored, cutOff, lateIn, mixed, strays>>

SwitchPath(t) ==
  /\ t \in Busy({"switching"})
  /\ dash' = [dash EXCEPT !.path = task[t].to]
  /\ task' = [task EXCEPT ![t].pc = "flagging"]
  /\ UNCHANGED <<dbFile, mode, backups, restored, cutOff, lateIn, mixed, strays, spentDb>>

SwitchFlag(t) ==
  /\ t \in Busy({"flagging"})
  /\ dash' = [dash EXCEPT !.flag = task[t].to]
  /\ task' = [task EXCEPT ![t].pc = "resetting"]
  /\ UNCHANGED <<dbFile, mode, backups, restored, cutOff, lateIn, mixed, strays, spentDb>>

\* Of two switches that meet, one may have the last word on the path and the other on
\* the flag: all that is written from then on is excused.
SwitchPool(t) ==
  /\ t \in Busy({"resetting"})
  /\ dash' = [dash EXCEPT !.pool = [path |-> task[t].to, idle |-> {}]]
  /\ task' = [task EXCEPT ![t] = NoTask]
  /\ mixed' = IF task[t].crossed THEN Files ELSE mixed
  /\ UNCHANGED <<dbFile, mode, backups, restored, cutOff, lateIn, strays, spentDb>>

\* cleanup_data_folder deletes every .json in the folder, that of the mode included.
CleanUp ==
  /\ dash.up /\ mode = "demo" /\ Spend /\ mode' = "primary"
  /\ UNCHANGED <<dbFile, dash, task, backups, restored, cutOff, lateIn, mixed, strays>>

-----------------------------------------------------------------------------
(* What fills the databases.                                                *)

\* refresh_today and refresh_missing_days (only) read the flag of the mode and load
\* what is to be written, before they look for a connection.
Load(t, only) ==
  /\ dash.up /\ task[t] = NoTask /\ Spend
  /\ only => dash.flag = "primary"
  /\ task' = [task EXCEPT ![t] = [NewTask("loaded") EXCEPT
               !.only = only, !.crossed = Switching,
               !.todo = IF only THEN (1..Today) \X {"tracked"} ELSE {<<Today, Proper(dash.flag)>>}]]
  /\ UNCHANGED <<dbFile, mode, dash, backups, restored, cutOff, lateIn, mixed, strays>>

\* Mutant: the watermark is not looked at.
MissingDaysAll(b, items) == {i \in items : \A j \in b.items : j[1] # i[1]}

\* Days without sessions, and not before the watermark of a restore.
MissingDays(b, items) == {i \in items : i[1] >= b.mark /\ \A j \in b.items : j[1] # i[1]}

Look(t) ==
  /\ t \in Busy({"loaded"})
  /\ \E f \in Offered :
       Acquire(t, [task[t] EXCEPT !.pc = "writing",
                     !.stale = \E u \in Restoring(f) : task[u].pc = "creating",
                     !.todo = IF task[t].only THEN MissingDays(dbFile[f], @) ELSE @], f)
  /\ UNCHANGED <<dbFile, mode, backups, restored, cutOff, lateIn, mixed, strays, spentDb>>

\* upsert_daily_data, a transaction for each day in their order; the connection goes
\* back at the end.
Upsert(t) ==
  /\ t \in Busy({"writing"}) /\ task[t].todo # {}
  /\ LET f == task[t].conn
     IN \E i \in {x \in task[t].todo : \A y \in task[t].todo : x[1] <= y[1]} :
          /\ dbFile' = [dbFile EXCEPT ![f].items = @ \cup {i}]
          /\ task' = [task EXCEPT ![t].todo = @ \ {i}]
          /\ lateIn' = IF task[t].stale THEN lateIn \cup {f} ELSE lateIn
          /\ mixed' = IF task[t].crossed THEN mixed \cup {f} ELSE mixed
          /\ strays' = IF i[2] # Proper(f) THEN strays \cup {f} ELSE strays
  /\ UNCHANGED <<mode, dash, backups, restored, cutOff, spentDb>>

Release(t) ==
  /\ t \in Busy({"writing"}) /\ task[t].todo = {}
  /\ dash' = [dash EXCEPT !.pool = PoolAfterRelease(task[t].path, task[t].conn)]
  /\ task' = [task EXCEPT ![t] = NoTask]
  /\ UNCHANGED <<dbFile, mode, backups, restored, cutOff, lateIn, mixed, strays, spentDb>>

\* clear_all_data empties the tables, and sets no watermark.
ClearAllData ==
  /\ dash.up /\ Spend
  /\ dbFile' = [dbFile EXCEPT ![dash.path].items = {}]
  /\ UNCHANGED <<mode, dash, task, backups, restored, cutOff, lateIn, mixed, strays>>

\* perform_manual_backup
Backup ==
  /\ dash.up /\ Spend
  /\ backups' = WithCopyOf(dbFile[dash.path]) /\ Cardinality(backups') <= MaxBackups
  /\ UNCHANGED <<dbFile, mode, dash, task, restored, cutOff, lateIn, mixed, strays>>

-----------------------------------------------------------------------------
(* restore_database_into_conn                                               *)

\* The list of the triggers there are; each is then dropped in a statement of its own.
BeginRestore(t) ==
  /\ dash.up /\ task[t] = NoTask /\ Spend
  /\ \E f \in Offered, b \in backups :
       Acquire(t, [NewTask("dropping") EXCEPT !.from = b, !.list = dbFile[f].armed,
                                             !.left = dbFile[f].armed], f)
  /\ UNCHANGED <<dbFile, mode, backups, restored, cutOff, lateIn, mixed, strays>>

DropTrigger(t) ==
  /\ t \in Busy({"dropping"})
  /\ \E k \in task[t].left :
       /\ dbFile' = [dbFile EXCEPT ![task[t].conn].armed = @ \ {k}]
       /\ task' = [task EXCEPT ![t].left = @ \ {k}]
  /\ UNCHANGED <<mode, dash, backups, restored, cutOff, lateIn, mixed, strays, spentDb>>

\* The transaction that replaces the tables, those of the settings and the version of
\* the schema with them; a refresh on its way has looked at the old ones.
CopyTables(t) ==
  /\ t \in Busy({"dropping"}) /\ task[t].left = {}
  /\ LET f == task[t].conn  b == task[t].from
     IN /\ dbFile' = [dbFile EXCEPT ![f] = [items |-> b.items, mark |-> b.mark,
                                        armed |-> @.armed, old |-> b.old]]
        /\ restored' = [restored EXCEPT ![f] = b.items]
        /\ task' = [u \in Task |->
             IF u = t THEN [task[t] EXCEPT !.pc = "creating", !.left = task[t].list, !.ok = TRUE]
             ELSE IF u \in Busy({"writing"}) /\ task[u].conn = f
                  THEN [task[u] EXCEPT !.stale = TRUE]
             ELSE task[u]]
  /\ UNCHANGED <<mode, dash, backups, cutOff, lateIn, mixed, strays, spentDb>>

\* The copy fails and is rolled back.
CopyFails(t) ==
  /\ t \in Busy({"dropping"}) /\ task[t].left = {}
  /\ task' = [task EXCEPT ![t] = [@ EXCEPT !.pc = "creating", !.left = task[t].list]]
  /\ UNCHANGED <<dbFile, mode, dash, backups, restored, cutOff, lateIn, mixed, strays,
                 spentDb>>

\* A trigger that another restore has created is only logged.
RecreateTrigger(t) ==
  /\ t \in Busy({"creating"})
  /\ \E k \in task[t].left :
       /\ dbFile' = [dbFile EXCEPT ![task[t].conn].armed = @ \cup {k}]
       /\ task' = [task EXCEPT ![t].left = @ \ {k}]
  /\ UNCHANGED <<mode, dash, backups, restored, cutOff, lateIn, mixed, strays, spentDb>>

\* The triggers a restore listed, as they are when it ends.
\* Mutant: they are put back only after a copy that succeeded.
OwedIfCopied(r) == IF r.ok THEN r.left ELSE {}
Owed(r) == r.left

\* The watermark is the date in UTC, whatever the local one is; the pool is reset only
\* after a restore that succeeded, else the connection returns to it.
EndRestore(t) ==
  /\ t \in Busy({"creating"}) /\ Owed(task[t]) = {}
  /\ IF task[t].ok
     THEN /\ \E utc \in (Today - 1)..(Today + 1) :
               dbFile' = [dbFile EXCEPT ![task[t].conn].mark = utc]
          /\ dash' = [dash EXCEPT !.pool = [path |-> dash.path, idle |-> {}]]
     ELSE /\ dash' = [dash EXCEPT !.pool = PoolAfterRelease(task[t].path, task[t].conn)]
          /\ UNCHANGED dbFile
  /\ task' = [task EXCEPT ![t] = NoTask]
  /\ UNCHANGED <<mode, backups, restored, cutOff, lateIn, mixed, strays, spentDb>>

DbNext ==
  \/ Open \/ Close \/ CleanUp \/ ClearAllData \/ Backup
  \/ \E t \in Task :
       \/ \E m \in Files : BeginSwitch(t, m)
       \/ SwitchPath(t) \/ SwitchFlag(t) \/ SwitchPool(t)
       \/ \E only \in BOOLEAN : Load(t, only)
       \/ Look(t) \/ Upsert(t) \/ Release(t)
       \/ BeginRestore(t) \/ DropTrigger(t) \/ CopyTables(t) \/ CopyFails(t)
       \/ RecreateTrigger(t) \/ EndRestore(t)

DbSpec == DbInit /\ [][DbNext]_dbVars

-----------------------------------------------------------------------------
(* Properties                                                               *)

\* A trigger that is missing is one that a restore on its way will create.
TriggersComeBack ==
  \A f \in Files \ cutOff :
    Triggers = dbFile[f].armed \cup UNION {task[t].list : t \in Restoring(f)}

\* The watermark may be a day behind.
RestoredIsTheFile ==
  \A f \in Files \ (cutOff \cup lateIn) : restored[f] # NoRestore =>
    \A i \in dbFile[f].items : i[1] < Today - 1 => i \in restored[f]

\* "Restore = stan PLIKU" (database.rs:465): after a restore that was not cut off, every
\* trigger is there again, also when two restores meet or one fails, and no tracking of
\* days before it gets back in, unless a refresh had looked before the restore ended.
RestoreIsWhole == TriggersComeBack /\ RestoredIsTheFile

\* get_connection (db.rs:436) and release (pool.rs:67): a command works on the file that
\* was active when it asked; made-up days reach the primary database, and tracked ones
\* the demo database, only through a refresh that a switch overtook.
ModesStayApart ==
  /\ \A t \in Busy({"writing", "dropping", "creating"}) : task[t].conn = task[t].path
  /\ strays \subseteq mixed
=============================================================================
