--------------------------- MODULE DatabaseProofs ---------------------------
(***************************************************************************)
(* DbSpec => []RestoreIsWhole and DbSpec => []ModesStayApart, for any      *)
(* threads, days and bounds; and, of the archives that are exported from   *)
(* databases and imported into them, ArcSpec => []DeletionsAreReal and     *)
(* ArcSpec => ImportKeepsWork, for any machines, days and bounds; and, of  *)
(* the loop over tombstones that merges other databases' deletions,        *)
(* Spec => []LoopIsApplyTombstones, for any rows and tombstones.           *)
(***************************************************************************)
EXTENDS Database, Archive, TombstoneReplay, FiniteSetTheorems, WellFoundedInduction, TLAPS

\* Initialising a file changes neither its days nor its watermark, and takes no
\* trigger away.
LEMMA InitialisedKeeps ==
  ASSUME NEW b \in FileSet
  PROVE  /\ Initialised(b) \in FileSet
         /\ Initialised(b).items = b.items /\ Initialised(b).mark = b.mark
         /\ b.armed \subseteq Initialised(b).armed
<1> DEFINE c == [b EXCEPT !.armed = @ \cup {"schema"}]
<1>1. c \in FileSet /\ c.items = b.items /\ c.mark = b.mark /\ c.armed = b.armed \cup {"schema"}
  BY DEF FileSet, Triggers
<1>2. /\ Migrated(c) \in FileSet
      /\ Migrated(c).items = c.items /\ Migrated(c).mark = c.mark
      /\ c.armed \subseteq Migrated(c).armed
  BY <1>1 DEF Migrated, FileSet
<1> QED BY <1>1, <1>2 DEF Initialised

\* Connections are to files.
LEMMA OfferedTyped ==
  ASSUME DbTypeOK
  PROVE  Offered \subseteq Files
BY DEF DbTypeOK, Offered

\* Commands are commands.
LEMMA NewTaskTyped ==
  ASSUME NEW pc \in Pcs
  PROVE  NewTask(pc) \in Commands
<1>1. 0 \in 0..(Today + 1)
  BY DbAssumption
<1>2. NoCopy \in DbCopy
  BY <1>1 DEF NoCopy, DbCopy
<1> QED BY <1>2 DEF NewTask, Commands, Files

\* Backups are copies.
LEMMA CopyTyped ==
  ASSUME NEW b \in FileSet, backups \subseteq DbCopy
  PROVE  WithCopyOf(b) \subseteq DbCopy
BY DEF WithCopyOf, DbCopy, FileSet

\* Changes of one field.
LEMMA PcTyped ==
  ASSUME NEW r \in Commands, NEW pc \in Pcs
  PROVE  [r EXCEPT !.pc = pc] \in Commands
BY DEF Commands

LEMMA LeftTyped ==
  ASSUME NEW r \in Commands, NEW s \in SUBSET Triggers
  PROVE  [r EXCEPT !.left = s] \in Commands
BY DEF Commands

LEMMA TodoTyped ==
  ASSUME NEW r \in Commands, NEW items \in SUBSET Items
  PROVE  /\ [r EXCEPT !.todo = items] \in Commands
         /\ [r EXCEPT !.todo = items].todo = items
         /\ [r EXCEPT !.todo = items].pc = r.pc
         /\ [r EXCEPT !.todo = items].conn = r.conn
         /\ [r EXCEPT !.todo = items].path = r.path
         /\ [r EXCEPT !.todo = items].stale = r.stale
         /\ [r EXCEPT !.todo = items].crossed = r.crossed
BY DEF Commands

LEMMA CrossedTyped ==
  ASSUME NEW r \in Commands
  PROVE  /\ [r EXCEPT !.crossed = TRUE] \in Commands
         /\ [r EXCEPT !.crossed = TRUE].crossed = TRUE
         /\ [r EXCEPT !.crossed = TRUE].pc = r.pc
         /\ [r EXCEPT !.crossed = TRUE].conn = r.conn
         /\ [r EXCEPT !.crossed = TRUE].path = r.path
         /\ [r EXCEPT !.crossed = TRUE].to = r.to
         /\ [r EXCEPT !.crossed = TRUE].list = r.list
         /\ [r EXCEPT !.crossed = TRUE].left = r.left
         /\ [r EXCEPT !.crossed = TRUE].stale = r.stale
         /\ [r EXCEPT !.crossed = TRUE].todo = r.todo
         /\ [r EXCEPT !.crossed = TRUE].ok = r.ok
BY DEF Commands

LEMMA StaleTyped ==
  ASSUME NEW r \in Commands
  PROVE  /\ [r EXCEPT !.stale = TRUE] \in Commands
         /\ [r EXCEPT !.stale = TRUE].stale = TRUE
         /\ [r EXCEPT !.stale = TRUE].pc = r.pc
         /\ [r EXCEPT !.stale = TRUE].conn = r.conn
         /\ [r EXCEPT !.stale = TRUE].path = r.path
         /\ [r EXCEPT !.stale = TRUE].to = r.to
         /\ [r EXCEPT !.stale = TRUE].list = r.list
         /\ [r EXCEPT !.stale = TRUE].left = r.left
         /\ [r EXCEPT !.stale = TRUE].crossed = r.crossed
         /\ [r EXCEPT !.stale = TRUE].todo = r.todo
         /\ [r EXCEPT !.stale = TRUE].ok = r.ok
BY DEF Commands

LEMMA ConnTyped ==
  ASSUME NEW r \in Commands, NEW conn \in Files, NEW path \in Files
  PROVE  /\ [r EXCEPT !.conn = conn, !.path = path] \in Commands
         /\ [r EXCEPT !.conn = conn, !.path = path].conn = conn
         /\ [r EXCEPT !.conn = conn, !.path = path].path = path
         /\ [r EXCEPT !.conn = conn, !.path = path].pc = r.pc
         /\ [r EXCEPT !.conn = conn, !.path = path].list = r.list
         /\ [r EXCEPT !.conn = conn, !.path = path].left = r.left
         /\ [r EXCEPT !.conn = conn, !.path = path].stale = r.stale
         /\ [r EXCEPT !.conn = conn, !.path = path].todo = r.todo
         /\ [r EXCEPT !.conn = conn, !.path = path].crossed = r.crossed
         /\ [r EXCEPT !.conn = conn, !.path = path].ok = r.ok
BY DEF Commands

\* The commands that begin, or go on, with new fields.
LEMMA SwitchTyped ==
  ASSUME NEW r \in Commands, NEW m \in Files, NEW sw \in BOOLEAN
  PROVE  /\ [r EXCEPT !.to = m, !.crossed = sw] \in Commands
         /\ [r EXCEPT !.to = m, !.crossed = sw].pc = r.pc
         /\ [r EXCEPT !.to = m, !.crossed = sw].to = m
         /\ [r EXCEPT !.to = m, !.crossed = sw].crossed = sw
BY DEF Commands

LEMMA LoadTyped ==
  ASSUME NEW r \in Commands, NEW items \in SUBSET Items, NEW sw \in BOOLEAN, NEW only \in BOOLEAN
  PROVE  /\ [r EXCEPT !.only = only, !.crossed = sw, !.todo = items] \in Commands
         /\ [r EXCEPT !.only = only, !.crossed = sw, !.todo = items].pc = r.pc
         /\ [r EXCEPT !.only = only, !.crossed = sw, !.todo = items].crossed = sw
         /\ [r EXCEPT !.only = only, !.crossed = sw, !.todo = items].todo = items
BY DEF Commands

LEMMA WriteTyped ==
  ASSUME NEW r \in Commands, NEW items \in SUBSET Items, NEW st \in BOOLEAN
  PROVE  /\ [r EXCEPT !.pc = "writing", !.stale = st, !.todo = items] \in Commands
         /\ [r EXCEPT !.pc = "writing", !.stale = st, !.todo = items].pc = "writing"
         /\ [r EXCEPT !.pc = "writing", !.stale = st, !.todo = items].stale = st
         /\ [r EXCEPT !.pc = "writing", !.stale = st, !.todo = items].todo = items
         /\ [r EXCEPT !.pc = "writing", !.stale = st, !.todo = items].crossed = r.crossed
BY DEF Commands, Pcs

LEMMA RestoreTyped ==
  ASSUME NEW r \in Commands, NEW b \in DbCopy, NEW s \in SUBSET Triggers
  PROVE  /\ [r EXCEPT !.from = b, !.list = s, !.left = s] \in Commands
         /\ [r EXCEPT !.from = b, !.list = s, !.left = s].pc = r.pc
         /\ [r EXCEPT !.from = b, !.list = s, !.left = s].list = s
         /\ [r EXCEPT !.from = b, !.list = s, !.left = s].left = s
BY DEF Commands

LEMMA CopiedTyped ==
  ASSUME NEW r \in Commands, NEW s \in SUBSET Triggers
  PROVE  /\ [r EXCEPT !.pc = "creating", !.left = s, !.ok = TRUE] \in Commands
         /\ [r EXCEPT !.pc = "creating", !.left = s, !.ok = TRUE].pc = "creating"
         /\ [r EXCEPT !.pc = "creating", !.left = s, !.ok = TRUE].left = s
         /\ [r EXCEPT !.pc = "creating", !.left = s, !.ok = TRUE].ok = TRUE
         /\ [r EXCEPT !.pc = "creating", !.left = s, !.ok = TRUE].conn = r.conn
         /\ [r EXCEPT !.pc = "creating", !.left = s, !.ok = TRUE].path = r.path
         /\ [r EXCEPT !.pc = "creating", !.left = s, !.ok = TRUE].list = r.list
BY DEF Commands, Pcs

\* What a refresh loads, and its days.
LEMMA ItemsTyped ==
  ASSUME NEW f \in Files
  PROVE  (1..Today) \X {"tracked"} \subseteq Items /\ {<<Today, Proper(f)>>} \subseteq Items
<1>1. Today \in 1..Today
  BY DbAssumption
<1>2. Proper(f) \in {"tracked", "made up"}
  BY DEF Proper
<1>3. <<Today, Proper(f)>> \in Items
  BY <1>1, <1>2 DEF Items
<1>4. ASSUME NEW x \in (1..Today) \X {"tracked"}
      PROVE  x \in (1..Today) \X {"tracked", "made up"}
  OBVIOUS
<1> QED BY <1>3, <1>4 DEF Items

LEMMA ItemDay ==
  ASSUME NEW i \in Items
  PROVE  i[1] \in Int
<1>1. i[1] \in 1..Today
  BY DEF Items
<1> QED BY <1>1

\* A thread gets another command.
LEMMA TaskTyped ==
  ASSUME DbTypeOK, NEW t \in Task, NEW r \in Commands \cup {NoTask},
         task' = [task EXCEPT ![t] = r]
  PROVE  task' \in [Task -> Commands \cup {NoTask}]
BY DEF DbTypeOK

\* A thread with a command.
LEMMA BusyTyped ==
  ASSUME DbTypeOK, NEW pcs, NEW t \in Busy(pcs)
  PROVE  t \in Task /\ task[t] \in Commands /\ task[t].pc \in pcs
BY DEF DbTypeOK, Busy

-----------------------------------------------------------------------------

\* The fields keep their types: new files.
THEOREM TypeInit == DbInit => DbTypeOK
<1> SUFFICES ASSUME DbInit PROVE DbTypeOK
  OBVIOUS
<1>1. dbFile \in [Files -> FileSet]
  BY DbAssumption DEF DbInit, FileSet
<1>2. backups \subseteq DbCopy
  <2>1. 0 \in 0..(Today + 1)
    BY DbAssumption
  <2>2. [items |-> {}, mark |-> 0, old |-> TRUE] \in DbCopy
    BY <2>1 DEF DbCopy
  <2> QED BY <2>2 DEF DbInit
<1>3. dash \in [up : BOOLEAN, path : Files, flag : Files, seen : SUBSET Files,
               pool : [path : Files, idle : SUBSET Files]]
  BY DEF DbInit, Down, Files
<1> QED BY <1>1, <1>2, <1>3, DbAssumption DEF DbTypeOK, DbInit, Files

\* The fields keep their types: each operation of the dashboard.
THEOREM TypeStep ==
  ASSUME DbTypeOK, DbNext
  PROVE  DbTypeOK'
<1>1. CASE Open
  <2>1. dbFile' \in [Files -> FileSet]
    BY <1>1, InitialisedKeeps DEF Open, DbTypeOK
  <2>2. dbFile'[mode] \in FileSet
    BY <2>1 DEF DbTypeOK
  <2>3. backups' \subseteq DbCopy
    BY <1>1, <2>2, CopyTyped DEF Open, AutoBackup, DbTypeOK
  <2>4. dash' \in [up : BOOLEAN, path : Files, flag : Files, seen : SUBSET Files,
                   pool : [path : Files, idle : SUBSET Files]]
    BY <1>1 DEF Open, Down, DbTypeOK
  <2> QED BY <1>1, <2>1, <2>3, <2>4 DEF Open, DbTypeOK
<1>2. CASE Close
  BY <1>2 DEF Close, DbTypeOK, Down, Files
<1>3. CASE CleanUp
  BY <1>3 DEF CleanUp, DbTypeOK, Files
<1>4. CASE ClearAllData
  <2>1. dbFile' \in [Files -> FileSet]
    BY <1>4 DEF ClearAllData, DbTypeOK, FileSet
  <2> QED BY <1>4, <2>1 DEF ClearAllData, DbTypeOK
<1>5. CASE Backup
  <2>1. dbFile[dash.path] \in FileSet
    BY DEF DbTypeOK
  <2> QED BY <1>5, <2>1, CopyTyped DEF Backup, DbTypeOK
<1>6. ASSUME NEW t \in Task, NEW m \in Files, BeginSwitch(t, m)
      PROVE  DbTypeOK'
  <2>1. dbFile' \in [Files -> FileSet]
    BY <1>6, InitialisedKeeps DEF BeginSwitch, DbTypeOK
  <2>2. [NewTask("switching") EXCEPT !.to = m, !.crossed = Switching] \in Commands
    BY NewTaskTyped, SwitchTyped DEF Pcs, SwitchPcs, Switching
  <2>3. \A u \in Task : task[u] # NoTask => [task[u] EXCEPT !.crossed = TRUE] \in Commands
    BY CrossedTyped DEF DbTypeOK
  <2>4. task' \in [Task -> Commands \cup {NoTask}]
    BY <1>6, <2>2, <2>3 DEF BeginSwitch
  <2> QED BY <1>6, <2>1, <2>4 DEF BeginSwitch, DbTypeOK
<1>7. ASSUME NEW t \in Task, SwitchPath(t)
      PROVE  DbTypeOK'
  <2>1. task' \in [Task -> Commands \cup {NoTask}]
    BY <1>7, BusyTyped, PcTyped, TaskTyped DEF SwitchPath, Pcs, SwitchPcs
  <2>2. task[t].to \in Files
    BY <1>7, BusyTyped DEF SwitchPath, Commands
  <2> QED BY <1>7, <2>1, <2>2 DEF SwitchPath, DbTypeOK
<1>8. ASSUME NEW t \in Task, SwitchFlag(t)
      PROVE  DbTypeOK'
  <2>1. task' \in [Task -> Commands \cup {NoTask}]
    BY <1>8, BusyTyped, PcTyped, TaskTyped DEF SwitchFlag, Pcs, SwitchPcs
  <2>2. task[t].to \in Files
    BY <1>8, BusyTyped DEF SwitchFlag, Commands
  <2> QED BY <1>8, <2>1, <2>2 DEF SwitchFlag, DbTypeOK
<1>9. ASSUME NEW t \in Task, SwitchPool(t)
      PROVE  DbTypeOK'
  <2>1. task' \in [Task -> Commands \cup {NoTask}]
    BY <1>9, TaskTyped DEF SwitchPool
  <2>2. task[t].to \in Files
    BY <1>9, BusyTyped DEF SwitchPool, Commands
  <2> QED BY <1>9, <2>1, <2>2 DEF SwitchPool, DbTypeOK
<1>10. ASSUME NEW t \in Task, NEW only \in BOOLEAN, Load(t, only)
       PROVE  DbTypeOK'
  <2> DEFINE items == IF only THEN (1..Today) \X {"tracked"} ELSE {<<Today, Proper(dash.flag)>>}
  <2>1. items \subseteq Items
    BY ItemsTyped DEF DbTypeOK
  <2> HIDE DEF items
  <2>2. [NewTask("loaded") EXCEPT !.only = only, !.crossed = Switching, !.todo = items] \in Commands
    BY <2>1, NewTaskTyped, LoadTyped DEF Pcs, Switching
  <2>3. task' \in [Task -> Commands \cup {NoTask}]
    BY <1>10, <2>2, TaskTyped DEF Load, items
  <2> QED BY <1>10, <2>3 DEF Load, DbTypeOK
<1>11. ASSUME NEW t \in Task, NEW r \in Commands, NEW conn \in Files, Acquire(t, r, conn)
       PROVE  /\ task' \in [Task -> Commands \cup {NoTask}]
              /\ dash' \in [up : BOOLEAN, path : Files, flag : Files, seen : SUBSET Files,
                            pool : [path : Files, idle : SUBSET Files]]
  <2>1. [r EXCEPT !.conn = conn, !.path = dash.path] \in Commands
    BY DEF Commands, DbTypeOK
  <2>2. PoolAfterAcquire(conn) \in [path : Files, idle : SUBSET Files]
    BY DEF PoolAfterAcquire, DbTypeOK
  <2> QED BY <1>11, <2>1, <2>2 DEF Acquire, DbTypeOK
<1>12. ASSUME NEW t \in Task, Look(t)
       PROVE  DbTypeOK'
  <2>1. PICK f \in Files :
          Acquire(t, [task[t] EXCEPT !.pc = "writing",
                        !.stale = \E u \in Restoring(f) : task[u].pc = "creating",
                        !.todo = IF task[t].only THEN MissingDays(dbFile[f], @) ELSE @], f)
    BY <1>12, OfferedTyped DEF Look
  <2> DEFINE items == IF task[t].only THEN MissingDays(dbFile[f], task[t].todo) ELSE task[t].todo
             st == \E u \in Restoring(f) : task[u].pc = "creating"
  <2>2. task[t] \in Commands
    BY <1>12, BusyTyped DEF Look
  <2>3. items \subseteq Items
    BY <2>2 DEF Commands, MissingDays
  <2>4. [task[t] EXCEPT !.pc = "writing", !.stale = st, !.todo = items] \in Commands
    BY <2>2, <2>3, WriteTyped
  <2> QED BY <1>11, <1>12, <2>1, <2>4 DEF Look, DbTypeOK
<1>13. ASSUME NEW t \in Task, Upsert(t)
       PROVE  DbTypeOK'
  <2>1. task[t] \in Commands
    BY <1>13, BusyTyped DEF Upsert
  <2>2. PICK i \in task[t].todo :
          /\ dbFile' = [dbFile EXCEPT ![task[t].conn].items = @ \cup {i}]
          /\ task' = [task EXCEPT ![t].todo = @ \ {i}]
    BY <1>13 DEF Upsert
  <2>3. i \in Items /\ task[t].conn \in Files
    BY <2>1 DEF Commands
  <2>4. dbFile' \in [Files -> FileSet]
    <3>1. [dbFile[task[t].conn] EXCEPT !.items = @ \cup {i}] \in FileSet
      BY <2>3 DEF DbTypeOK, FileSet
    <3> QED BY <2>2, <3>1 DEF DbTypeOK
  <2>5. [task[t] EXCEPT !.todo = @ \ {i}] \in Commands
    <3>1. task[t].todo \ {i} \in SUBSET Items
      BY <2>1 DEF Commands
    <3> QED BY <2>1, <3>1, TodoTyped
  <2>6. task' \in [Task -> Commands \cup {NoTask}]
    BY <2>2, <2>5, TaskTyped
  <2>7. lateIn' \subseteq Files /\ mixed' \subseteq Files /\ strays' \subseteq Files
    BY <1>13, <2>3 DEF Upsert, DbTypeOK
  <2> QED BY <1>13, <2>4, <2>6, <2>7 DEF Upsert, DbTypeOK
<1>14. ASSUME NEW path \in Files, NEW conn \in Files
       PROVE  PoolAfterRelease(path, conn) \in [path : Files, idle : SUBSET Files]
  BY DEF PoolAfterRelease, DbTypeOK
<1>15. ASSUME NEW t \in Task, Release(t)
       PROVE  DbTypeOK'
  <2>1. task[t].path \in Files /\ task[t].conn \in Files
    BY <1>15, BusyTyped DEF Release, Commands
  <2>2. PoolAfterRelease(task[t].path, task[t].conn) \in [path : Files, idle : SUBSET Files]
    BY <1>14, <2>1
  <2> QED BY <1>15, <2>2 DEF Release, DbTypeOK
<1>16. ASSUME NEW t \in Task, BeginRestore(t)
       PROVE  DbTypeOK'
  <2>1. PICK f \in Files, b \in backups :
          Acquire(t, [NewTask("dropping") EXCEPT !.from = b, !.list = dbFile[f].armed,
                                                !.left = dbFile[f].armed], f)
    BY <1>16, OfferedTyped DEF BeginRestore
  <2>2. dbFile[f].armed \subseteq Triggers /\ b \in DbCopy
    BY DEF DbTypeOK, FileSet
  <2>3. [NewTask("dropping") EXCEPT !.from = b, !.list = dbFile[f].armed,
                                    !.left = dbFile[f].armed] \in Commands
    BY <2>2, NewTaskTyped, RestoreTyped DEF Pcs
  <2> QED BY <1>11, <1>16, <2>1, <2>3 DEF BeginRestore, DbTypeOK
<1>17. ASSUME NEW t \in Task, DropTrigger(t) \/ RecreateTrigger(t)
       PROVE  DbTypeOK'
  <2>1. task[t] \in Commands
    BY <1>17, BusyTyped DEF DropTrigger, RecreateTrigger
  <2>2. PICK k \in task[t].left :
          /\ \/ dbFile' = [dbFile EXCEPT ![task[t].conn].armed = @ \ {k}]
             \/ dbFile' = [dbFile EXCEPT ![task[t].conn].armed = @ \cup {k}]
          /\ task' = [task EXCEPT ![t].left = @ \ {k}]
    BY <1>17 DEF DropTrigger, RecreateTrigger
  <2>3. k \in Triggers /\ task[t].conn \in Files /\ task[t].left \ {k} \in SUBSET Triggers
    BY <2>1 DEF Commands
  <2>4. dbFile' \in [Files -> FileSet]
    BY <2>2, <2>3, SMTT(30) DEF DbTypeOK, FileSet
  <2>5. [task[t] EXCEPT !.left = @ \ {k}] \in Commands
    BY <2>1 DEF Commands
  <2> QED BY <1>17, <2>2, <2>4, <2>5 DEF DropTrigger, RecreateTrigger, DbTypeOK
<1>18. ASSUME NEW t \in Task, CopyTables(t)
       PROVE  DbTypeOK'
  <2> DEFINE f == task[t].conn
             b == task[t].from
  <2>1. task[t] \in Commands /\ f \in Files
    BY <1>18, BusyTyped DEF CopyTables, Commands
  <2>2. b \in DbCopy
    BY <2>1 DEF Commands
  <2>3. b.items \subseteq Items /\ b.mark \in 0..(Today + 1) /\ b.old \in BOOLEAN
    BY <2>2 DEF DbCopy
  <2>4. dbFile' \in [Files -> FileSet]
    <3>1. [items |-> b.items, mark |-> b.mark, armed |-> dbFile[f].armed, old |-> b.old] \in FileSet
      BY <2>1, <2>3 DEF DbTypeOK, FileSet
    <3> QED BY <1>18, <2>1, <3>1 DEF CopyTables, DbTypeOK
  <2>5. [task[t] EXCEPT !.pc = "creating", !.left = task[t].list, !.ok = TRUE] \in Commands
    <3>1. task[t].list \in SUBSET Triggers
      BY <2>1 DEF Commands
    <3> QED BY <2>1, <3>1, CopiedTyped
  <2>6. \A u \in Task : task[u] # NoTask => [task[u] EXCEPT !.stale = TRUE] \in Commands
    BY StaleTyped DEF DbTypeOK
  <2>7. task' \in [Task -> Commands \cup {NoTask}]
    BY <1>18, <2>5, <2>6 DEF CopyTables, DbTypeOK, Busy
  <2> QED BY <1>18, <2>1, <2>3, <2>4, <2>7 DEF CopyTables, DbTypeOK
<1>19. ASSUME NEW t \in Task, CopyFails(t)
       PROVE  DbTypeOK'
  <2>1. task[t] \in Commands
    BY <1>19, BusyTyped DEF CopyFails
  <2>2. [task[t] EXCEPT !.pc = "creating", !.left = task[t].list] \in Commands
    BY <2>1 DEF Commands, Pcs
  <2>3. task' = [task EXCEPT ![t] = [task[t] EXCEPT !.pc = "creating", !.left = task[t].list]]
    BY <1>19 DEF CopyFails, DbTypeOK
  <2>4. task' \in [Task -> Commands \cup {NoTask}]
    BY <2>2, <2>3, TaskTyped
  <2> QED BY <1>19, <2>4 DEF CopyFails, DbTypeOK
<1>20. ASSUME NEW t \in Task, EndRestore(t)
       PROVE  DbTypeOK'
  <2>1. task[t].path \in Files /\ task[t].conn \in Files
    BY <1>20, BusyTyped DEF EndRestore, Commands
  <2>2. PoolAfterRelease(task[t].path, task[t].conn) \in [path : Files, idle : SUBSET Files]
    BY <1>14, <2>1
  <2>3. dash' \in [up : BOOLEAN, path : Files, flag : Files, seen : SUBSET Files,
                   pool : [path : Files, idle : SUBSET Files]]
    BY <1>20, <2>2 DEF EndRestore, DbTypeOK
  <2>4. dbFile' \in [Files -> FileSet]
    <3>1. ASSUME NEW utc \in (Today - 1)..(Today + 1)
          PROVE  [dbFile[task[t].conn] EXCEPT !.mark = utc] \in FileSet
      <4>1. utc \in 0..(Today + 1)
        BY DbAssumption
      <4> QED BY <2>1, <4>1 DEF DbTypeOK, FileSet
    <3>2. CASE task[t].ok
      <4>1. PICK utc \in (Today - 1)..(Today + 1) :
              dbFile' = [dbFile EXCEPT ![task[t].conn].mark = utc]
        BY <1>20, <3>2 DEF EndRestore
      <4> QED BY <3>1, <4>1 DEF DbTypeOK
    <3>3. CASE ~task[t].ok
      BY <1>20, <3>3 DEF EndRestore, DbTypeOK
    <3> QED BY <3>2, <3>3
  <2>5. task' \in [Task -> Commands \cup {NoTask}]
    BY <1>20, TaskTyped DEF EndRestore
  <2> QED BY <1>20, <2>3, <2>4, <2>5 DEF EndRestore, DbTypeOK
<1> QED BY <1>1, <1>2, <1>3, <1>4, <1>5, <1>6, <1>7, <1>8, <1>9, <1>10, <1>12, <1>13,
           <1>15, <1>16, <1>17, <1>18, <1>19, <1>20 DEF DbNext

-----------------------------------------------------------------------------
(* The triggers. *)

\* The triggers that t will still create: until it copies it may have dropped any
\* of its list, and then those that it has not come to.
Owing(t) == IF task[t].pc = "dropping" THEN task[t].list ELSE task[t].left

\* Each trigger is there or some restore owes it.
Covered ==
  /\ \A f \in Files \ cutOff : \A k \in Triggers :
       k \in dbFile[f].armed \/ \E t \in Restoring(f) : k \in Owing(t)
  /\ \A t \in Busy({"dropping", "creating"}) : task[t].left \subseteq task[t].list

\* What is owed is listed.
LEMMA CoveredGives == DbTypeOK /\ Covered => TriggersComeBack
<1> SUFFICES ASSUME DbTypeOK, Covered, NEW f \in Files \ cutOff
             PROVE  Triggers = dbFile[f].armed \cup UNION {task[t].list : t \in Restoring(f)}
  BY DEF TriggersComeBack
<1>1. dbFile[f].armed \subseteq Triggers
  BY DEF DbTypeOK, FileSet
<1>2. \A t \in Restoring(f) : task[t].list \subseteq Triggers /\ Owing(t) \subseteq task[t].list
  BY BusyTyped DEF Restoring, Commands, Covered, Owing
<1> QED BY <1>1, <1>2 DEF Covered

\* A step that leaves the restores alone and takes no trigger away.
LEMMA CoveredStays ==
  ASSUME Covered, cutOff \subseteq cutOff', Files' = Files,
         \A f \in Files : dbFile[f].armed \subseteq dbFile'[f].armed,
         \A t \in Busy({"dropping", "creating"}) :
           /\ t \in Busy({"dropping", "creating"})'
           /\ task'[t].pc = task[t].pc /\ task'[t].conn = task[t].conn
           /\ task'[t].list = task[t].list /\ task'[t].left = task[t].left,
         \A t \in Busy({"dropping", "creating"})' :
           t \in Busy({"dropping", "creating"}) \/ task'[t].left \subseteq task'[t].list
  PROVE  Covered'
<1>1. ASSUME NEW f \in Files \ cutOff', NEW k \in Triggers
      PROVE  k \in dbFile'[f].armed \/ \E t \in Restoring(f)' : k \in Owing(t)'
  <2>1. CASE k \in dbFile[f].armed
    BY <2>1
  <2>2. ASSUME NEW t \in Restoring(f), k \in Owing(t)
        PROVE  t \in Restoring(f)' /\ k \in Owing(t)'
    BY <2>2 DEF Restoring, Owing
  <2> QED BY <2>1, <2>2 DEF Covered
<1>2. ASSUME NEW t \in Busy({"dropping", "creating"})'
      PROVE  task'[t].left \subseteq task'[t].list
  BY DEF Covered
<1> QED BY <1>1, <1>2 DEF Covered, Triggers

Restores == {"dropping", "creating"}

\* No step loses a trigger: the drops of a restore are owed by it until it recreates them.
LEMMA CoveredStep ==
  ASSUME DbTypeOK, Covered, DbNext
  PROVE  Covered'
<1>1. CASE Open
  <2>1. \A f \in Files : dbFile[f].armed \subseteq dbFile'[f].armed
    BY <1>1, InitialisedKeeps DEF Open, DbTypeOK
  <2> QED BY <1>1, <2>1, CoveredStays DEF Open, Busy
<1>2. CASE Close
  <2>1. \A f \in Files \ cutOff' : f \notin cutOff /\ Restoring(f) = {}
    BY <1>2 DEF Close
  <2>2. Busy(Restores)' = {}
    BY <1>2 DEF Close, Busy
  <2> QED BY <1>2, <2>1, <2>2 DEF Close, Covered, Restores
<1>3. CASE CleanUp
  BY <1>3, CoveredStays DEF CleanUp, Busy
<1>4. CASE ClearAllData
  <2>1. \A f \in Files : dbFile'[f].armed = dbFile[f].armed
    BY <1>4 DEF ClearAllData, DbTypeOK, FileSet
  <2> QED BY <1>4, <2>1, CoveredStays DEF ClearAllData, Busy
<1>5. CASE Backup
  BY <1>5, CoveredStays DEF Backup, Busy
<1>6. ASSUME NEW t \in Task, NEW m \in Files, BeginSwitch(t, m)
      PROVE  Covered'
  <2>1. \A f \in Files : dbFile[f].armed \subseteq dbFile'[f].armed
    BY <1>6, InitialisedKeeps DEF BeginSwitch, DbTypeOK
  <2>2. \A u \in Task \ {t} : task[u] # NoTask =>
          task'[u] = [task[u] EXCEPT !.crossed = TRUE] /\ task[u] \in Commands
    BY <1>6 DEF BeginSwitch, DbTypeOK
  <2>3. \A u \in Task \ {t} : task[u] = NoTask => task'[u] = NoTask
    BY <1>6 DEF BeginSwitch
  <2>4. \A u \in Task \ {t} : task[u] # NoTask =>
          /\ task'[u].pc = task[u].pc /\ task'[u].conn = task[u].conn
          /\ task'[u].list = task[u].list /\ task'[u].left = task[u].left
          /\ task'[u] # NoTask
    <3> SUFFICES ASSUME NEW u \in Task \ {t}, task[u] # NoTask
                 PROVE  /\ task'[u].pc = task[u].pc /\ task'[u].conn = task[u].conn
                        /\ task'[u].list = task[u].list /\ task'[u].left = task[u].left
                        /\ task'[u] # NoTask
      OBVIOUS
    <3>1. task[u] \in Commands /\ task'[u] = [task[u] EXCEPT !.crossed = TRUE]
      BY <2>2
    <3>2. task'[u] \in Commands
      BY <3>1, CrossedTyped
    <3> QED BY <3>1, <3>2, CrossedTyped, DbAssumption
  <2>5. t \notin Busy(Restores) /\ t \notin Busy(Restores)'
    <3>1. task'[t].pc = "switching"
      BY <1>6 DEF BeginSwitch, NewTask
    <3> QED BY <1>6, <3>1 DEF BeginSwitch, Busy, Restores
  <2>6. \A u \in Busy(Restores) : u # t /\ u \in Busy(Restores)'
    BY <2>4, <2>5 DEF Busy
  <2>7. \A u \in Busy(Restores)' : u \in Busy(Restores)
    BY <2>3, <2>4, <2>5 DEF Busy
  <2> QED BY <1>6, <2>1, <2>4, <2>6, <2>7, CoveredStays DEF BeginSwitch, Restores, Busy
\* A thread goes from no restore to none.
<1>7. ASSUME NEW t \in Task, NEW r, task' = [task EXCEPT ![t] = r], UNCHANGED cutOff,
             r = NoTask \/ r.pc \notin Restores, t \notin Busy(Restores),
             \A f \in Files : dbFile[f].armed \subseteq dbFile'[f].armed
      PROVE  Covered'
  <2>1. \A u \in Task \ {t} : task'[u] = task[u]
    BY <1>7 DEF DbTypeOK
  <2>2. t \notin Busy(Restores)'
    BY <1>7 DEF Busy, DbTypeOK
  <2>3. Busy(Restores)' = Busy(Restores) /\ \A u \in Busy(Restores) : task'[u] = task[u]
    BY <1>7, <2>1, <2>2 DEF Busy
  <2> QED BY <1>7, <2>3, CoveredStays DEF Restores
<1>8. ASSUME NEW t \in Task, SwitchPath(t) \/ SwitchFlag(t) \/ SwitchPool(t)
      PROVE  Covered'
  <2>1. task[t] \in Commands /\ task[t].pc \in SwitchPcs
    BY <1>8, BusyTyped DEF SwitchPath, SwitchFlag, SwitchPool, SwitchPcs
  <2>2. t \notin Busy(Restores) /\ UNCHANGED <<dbFile, cutOff>>
    BY <1>8, <2>1 DEF SwitchPath, SwitchFlag, SwitchPool, SwitchPcs, Restores, Busy
  <2>3. PICK r : task' = [task EXCEPT ![t] = r] /\ (r = NoTask \/ r.pc \in SwitchPcs)
    <3>1. \A pc : [task[t] EXCEPT !.pc = pc].pc = pc
      BY <2>1 DEF Commands
    <3>2. \/ task' = [task EXCEPT ![t] = [task[t] EXCEPT !.pc = "flagging"]]
          \/ task' = [task EXCEPT ![t] = [task[t] EXCEPT !.pc = "resetting"]]
          \/ task' = [task EXCEPT ![t] = NoTask]
      BY <1>8 DEF SwitchPath, SwitchFlag, SwitchPool, DbTypeOK
    <3> QED BY <3>1, <3>2 DEF SwitchPcs
  <2>4. r = NoTask \/ r.pc \notin Restores
    BY <2>3 DEF SwitchPcs, Restores
  <2> QED BY <1>7, <2>2, <2>3, <2>4
<1>9. ASSUME NEW t \in Task, NEW only \in BOOLEAN, Load(t, only)
      PROVE  Covered'
  <2> DEFINE items == IF only THEN (1..Today) \X {"tracked"} ELSE {<<Today, Proper(dash.flag)>>}
             q == [NewTask("loaded") EXCEPT !.only = only, !.crossed = Switching, !.todo = items]
  <2>1. task' = [task EXCEPT ![t] = q] /\ q.pc = "loaded"
    BY <1>9 DEF Load, NewTask
  <2>2. t \notin Busy(Restores) /\ UNCHANGED <<dbFile, cutOff>>
    BY <1>9 DEF Load, Busy
  <2> HIDE DEF q
  <2> QED BY <1>7, <2>1, <2>2 DEF Restores
<1>10. ASSUME NEW t \in Task, Look(t)
       PROVE  Covered'
  <2>1. task[t] \in Commands /\ task[t].pc = "loaded"
    BY <1>10, BusyTyped DEF Look
  <2>2. PICK r : task' = [task EXCEPT ![t] = r] /\ r.pc = "writing"
    <3>1. PICK f \in Files :
            Acquire(t, [task[t] EXCEPT !.pc = "writing",
                          !.stale = \E u \in Restoring(f) : task[u].pc = "creating",
                          !.todo = IF task[t].only THEN MissingDays(dbFile[f], @) ELSE @], f)
      BY <1>10, OfferedTyped DEF Look
    <3> DEFINE items == IF task[t].only THEN MissingDays(dbFile[f], task[t].todo) ELSE task[t].todo
               st == \E u \in Restoring(f) : task[u].pc = "creating"
               q == [task[t] EXCEPT !.pc = "writing", !.stale = st, !.todo = items]
    <3>2. items \in SUBSET Items /\ st \in BOOLEAN
      BY <2>1 DEF Commands, MissingDays
    <3>3. q \in Commands /\ q.pc = "writing"
      <4>1. q \in Commands
        BY <2>1, <3>2, WriteTyped
      <4>2. q.pc = "writing"
        <5> HIDE DEF items, st
        <5> QED BY <2>1 DEF Commands
      <4> QED BY <4>1, <4>2
    <3>4. dash.path \in Files
      BY DEF DbTypeOK
    <3>5. task' = [task EXCEPT ![t] = [q EXCEPT !.conn = f, !.path = dash.path]]
      BY <3>1 DEF Acquire
    <3> HIDE DEF q
    <3>6. [q EXCEPT !.conn = f, !.path = dash.path].pc = "writing"
      BY <3>3 DEF Commands
    <3> QED BY <3>5, <3>6
  <2>3. t \notin Busy(Restores) /\ UNCHANGED <<dbFile, cutOff>>
    BY <1>10, <2>1 DEF Look, Busy, Restores
  <2> QED BY <1>7, <2>2, <2>3 DEF Restores
<1>11. ASSUME NEW t \in Task, Upsert(t)
       PROVE  Covered'
  <2>1. task[t] \in Commands /\ task[t].pc = "writing"
    BY <1>11, BusyTyped DEF Upsert
  <2>2. PICK r : task' = [task EXCEPT ![t] = r] /\ r.pc = "writing"
    <3>1. PICK i \in task[t].todo : task' = [task EXCEPT ![t].todo = @ \ {i}]
      BY <1>11 DEF Upsert
    <3>2. task' = [task EXCEPT ![t] = [task[t] EXCEPT !.todo = task[t].todo \ {i}]]
      BY <3>1, <2>1 DEF DbTypeOK
    <3>3. task[t].todo \ {i} \in SUBSET Items
      BY <2>1 DEF Commands
    <3>4. [task[t] EXCEPT !.todo = task[t].todo \ {i}].pc = "writing"
      BY <2>1, <3>3, TodoTyped
    <3> QED BY <3>2, <3>4
  <2>3. t \notin Busy(Restores) /\ UNCHANGED cutOff
    BY <1>11, <2>1 DEF Upsert, Busy, Restores
  <2>4. \A f \in Files : dbFile'[f].armed = dbFile[f].armed
    BY <1>11 DEF Upsert, DbTypeOK, FileSet
  <2> QED BY <1>7, <2>2, <2>3, <2>4 DEF Restores
<1>12. ASSUME NEW t \in Task, Release(t)
       PROVE  Covered'
  <2>1. task[t] \in Commands /\ task[t].pc = "writing"
    BY <1>12, BusyTyped DEF Release
  <2>2. t \notin Busy(Restores) /\ UNCHANGED <<dbFile, cutOff>>
    BY <1>12, <2>1 DEF Release, Busy, Restores
  <2> QED BY <1>7, <1>12, <2>2 DEF Release
<1>13. ASSUME NEW t \in Task, BeginRestore(t)
       PROVE  Covered'
  <2>1. PICK f \in Files, b \in backups :
          Acquire(t, [NewTask("dropping") EXCEPT !.from = b, !.list = dbFile[f].armed,
                                                !.left = dbFile[f].armed], f)
    BY <1>13, OfferedTyped DEF BeginRestore
  <2>2. \A u \in Task \ {t} : task'[u] = task[u]
    BY <2>1 DEF Acquire, DbTypeOK
  <2>3. task'[t].left = task'[t].list
    BY <2>1 DEF Acquire, DbTypeOK, NewTask
  <2>4. t \notin Busy(Restores)
    BY <1>13 DEF BeginRestore, Busy
  <2>5. \A u \in Busy(Restores) : task'[u] = task[u] /\ u \in Busy(Restores)'
    BY <2>2, <2>4 DEF Busy
  <2>6. \A u \in Busy(Restores)' : u \in Busy(Restores) \/ u = t
    BY <2>2 DEF Busy
  <2>7. UNCHANGED <<dbFile, cutOff>>
    BY <1>13 DEF BeginRestore
  <2> QED BY <2>3, <2>5, <2>6, <2>7, CoveredStays DEF Restores
<1>14. ASSUME NEW t \in Task, DropTrigger(t)
       PROVE  Covered'
  <2>1. task[t] \in Commands /\ task[t].pc = "dropping" /\ t \in Busy(Restores)
    BY <1>14, BusyTyped DEF DropTrigger, Busy, Restores
  <2>2. PICK k \in task[t].left :
          /\ dbFile' = [dbFile EXCEPT ![task[t].conn].armed = @ \ {k}]
          /\ task' = [task EXCEPT ![t].left = @ \ {k}]
    BY <1>14 DEF DropTrigger
  <2>3. /\ task[t].conn \in Files /\ task[t].left \subseteq task[t].list
        /\ task[t].left \ {k} \in SUBSET Triggers
    BY <2>1 DEF Commands, Covered, Restores
  <2>4. task'[t] = [task[t] EXCEPT !.left = task[t].left \ {k}]
    BY <2>2 DEF DbTypeOK
  <2>5. /\ task'[t] \in Commands /\ task'[t].pc = "dropping" /\ task'[t].conn = task[t].conn
        /\ task'[t].list = task[t].list /\ task'[t].left \subseteq task[t].left
    BY <2>1, <2>3, <2>4, LeftTyped
  <2>6. \A u \in Task \ {t} : task'[u] = task[u]
    BY <2>2 DEF DbTypeOK
  <2>7. Busy(Restores)' = Busy(Restores)
    BY <2>1, <2>5, <2>6, DbAssumption DEF Busy, Restores
  <2>8. ASSUME NEW f \in Files \ cutOff, NEW j \in Triggers
        PROVE  j \in dbFile'[f].armed \/ \E u \in Restoring(f)' : j \in Owing(u)'
    <3>1. CASE f = task[t].conn /\ j = k
      <4>1. t \in Restoring(f)' /\ j \in Owing(t)'
        BY <2>1, <2>3, <2>5, <2>7, <3>1 DEF Restoring, Owing, Restores
      <4> QED BY <4>1
    <3>2. CASE ~(f = task[t].conn /\ j = k)
      <4>1. j \in dbFile[f].armed => j \in dbFile'[f].armed
        BY <2>2, <2>3, <3>2 DEF DbTypeOK, FileSet
      <4>2. ASSUME NEW u \in Restoring(f), j \in Owing(u)
            PROVE  u \in Restoring(f)' /\ j \in Owing(u)'
        BY <2>1, <2>5, <2>6, <2>7, <4>2 DEF Restoring, Owing, Restores, Busy
      <4> QED BY <4>1, <4>2 DEF Covered
    <3> QED BY <3>1, <3>2
  <2>9. \A u \in Busy(Restores)' : task'[u].left \subseteq task'[u].list
    BY <2>3, <2>5, <2>6, <2>7 DEF Covered, Restores, Busy
  <2> QED BY <1>14, <2>8, <2>9 DEF DropTrigger, Covered, Restores, Files, Triggers
\* The restore t has done with its drops, and owes what it listed.
<1>15. ASSUME NEW t \in Task, CopyTables(t) \/ CopyFails(t)
       PROVE  Covered'
  <2>1. task[t] \in Commands /\ task[t].pc = "dropping" /\ t \in Busy(Restores)
    BY <1>15, BusyTyped DEF CopyTables, CopyFails, Busy, Restores
  <2>2. task[t].list \in SUBSET Triggers /\ task[t].conn \in Files
    BY <2>1 DEF Commands
  <2>3. /\ task'[t] \in Commands /\ task'[t].pc = "creating" /\ task'[t].conn = task[t].conn
        /\ task'[t].list = task[t].list /\ task'[t].left = task[t].list
    <3>1. CASE CopyTables(t)
      <4>1. task'[t] = [task[t] EXCEPT !.pc = "creating", !.left = task[t].list, !.ok = TRUE]
        BY <3>1 DEF CopyTables
      <4>2. DEFINE q == [task[t] EXCEPT !.pc = "creating", !.left = task[t].list, !.ok = TRUE]
      <4>3. /\ q \in Commands /\ q.pc = "creating" /\ q.conn = task[t].conn
            /\ q.list = task[t].list /\ q.left = task[t].list
        BY <2>1, <2>2, CopiedTyped, ZenonT(40)
      <4> QED BY <4>1, <4>3
    <3>2. CASE CopyFails(t)
      <4>1. task'[t] = [task[t] EXCEPT !.pc = "creating", !.left = task[t].list]
        BY <3>2 DEF CopyFails, DbTypeOK
      <4> QED BY <2>1, <2>2, <4>1 DEF Commands, Pcs
    <3> QED BY <1>15, <3>1, <3>2
  <2>4. \A u \in Task \ {t} :
          task'[u] = task[u] \/ (u \in Busy({"writing"}) /\ task'[u] = [task[u] EXCEPT !.stale = TRUE])
    BY <1>15 DEF CopyTables, CopyFails, DbTypeOK
  <2>5. \A u \in Busy({"writing"}) : u \notin Busy(Restores)
    BY DEF Busy, Restores
  <2>6. \A u \in Busy({"writing"}) : [task[u] EXCEPT !.stale = TRUE].pc = "writing"
    BY BusyTyped, StaleTyped
  <2>7. Busy(Restores)' = Busy(Restores) /\ \A u \in Busy(Restores) \ {t} : task'[u] = task[u]
    <3>1. \A u \in Busy(Restores) \ {t} : task'[u] = task[u]
      BY <2>4, <2>5 DEF Busy
    <3>2. t \in Busy(Restores)'
      BY <2>3, DbAssumption DEF Busy, Restores
    <3>3. ASSUME NEW u \in Busy(Restores), u # t
          PROVE  u \in Busy(Restores)'
      BY <3>1, <3>3 DEF Busy
    <3>4. ASSUME NEW u \in Busy(Restores)'
          PROVE  u \in Busy(Restores)
      <4>1. CASE u = t
        BY <2>1, <4>1
      <4>2. CASE u # t /\ task'[u] = task[u]
        BY <3>4, <4>2 DEF Busy
      <4>3. CASE u \in Busy({"writing"}) /\ task'[u] = [task[u] EXCEPT !.stale = TRUE]
        BY <2>6, <3>4, <4>3 DEF Busy, Restores
      <4> QED BY <2>4, <3>4, <4>1, <4>2, <4>3 DEF Busy
    <3> QED BY <2>1, <3>1, <3>2, <3>3, <3>4
  <2>8. \A f \in Files : dbFile'[f].armed = dbFile[f].armed
    BY <1>15 DEF CopyTables, CopyFails, DbTypeOK
  <2>9. ASSUME NEW f \in Files \ cutOff, NEW j \in Triggers
        PROVE  j \in dbFile'[f].armed \/ \E u \in Restoring(f)' : j \in Owing(u)'
    <3>1. ASSUME NEW u \in Restoring(f), j \in Owing(u)
          PROVE  u \in Restoring(f)' /\ j \in Owing(u)'
      BY <2>1, <2>3, <2>7, <3>1 DEF Restoring, Owing, Restores
    <3> QED BY <2>8, <3>1 DEF Covered
  <2>10. \A u \in Busy(Restores)' : task'[u].left \subseteq task'[u].list
    BY <2>3, <2>7 DEF Covered, Restores
  <2> QED BY <1>15, <2>9, <2>10 DEF CopyTables, CopyFails, Covered, Restores, Files, Triggers
<1>16. ASSUME NEW t \in Task, RecreateTrigger(t)
       PROVE  Covered'
  <2>1. task[t] \in Commands /\ task[t].pc = "creating" /\ t \in Busy(Restores)
    BY <1>16, BusyTyped DEF RecreateTrigger, Busy, Restores
  <2>2. PICK k \in task[t].left :
          /\ dbFile' = [dbFile EXCEPT ![task[t].conn].armed = @ \cup {k}]
          /\ task' = [task EXCEPT ![t].left = @ \ {k}]
    BY <1>16 DEF RecreateTrigger
  <2>3. /\ task[t].conn \in Files /\ task[t].left \subseteq task[t].list
        /\ task[t].left \ {k} \in SUBSET Triggers
    BY <2>1 DEF Commands, Covered, Restores
  <2>4. task'[t] = [task[t] EXCEPT !.left = task[t].left \ {k}]
    BY <2>2 DEF DbTypeOK
  <2>5. /\ task'[t] \in Commands /\ task'[t].pc = "creating" /\ task'[t].conn = task[t].conn
        /\ task'[t].list = task[t].list /\ task'[t].left = task[t].left \ {k}
    BY <2>1, <2>3, <2>4, LeftTyped
  <2>6. \A u \in Task \ {t} : task'[u] = task[u]
    BY <2>2 DEF DbTypeOK
  <2>7. Busy(Restores)' = Busy(Restores)
    BY <2>1, <2>5, <2>6, DbAssumption DEF Busy, Restores
  <2>8. ASSUME NEW f \in Files \ cutOff, NEW j \in Triggers
        PROVE  j \in dbFile'[f].armed \/ \E u \in Restoring(f)' : j \in Owing(u)'
    <3>1. dbFile[f].armed \subseteq dbFile'[f].armed /\ (f = task[t].conn => k \in dbFile'[f].armed)
      BY <2>2, <2>3 DEF DbTypeOK, FileSet
    <3>2. ASSUME NEW u \in Restoring(f), j \in Owing(u), ~(u = t /\ j = k)
          PROVE  u \in Restoring(f)' /\ j \in Owing(u)'
      BY <2>1, <2>5, <2>6, <2>7, <3>2 DEF Restoring, Owing, Restores, Busy
    <3>3. ASSUME t \in Restoring(f)
          PROVE  f = task[t].conn
      BY <3>3 DEF Restoring
    <3> QED BY <3>1, <3>2, <3>3 DEF Covered
  <2>9. \A u \in Busy(Restores)' : task'[u].left \subseteq task'[u].list
    BY <2>3, <2>5, <2>6, <2>7 DEF Covered, Restores, Busy
  <2> QED BY <1>16, <2>8, <2>9 DEF RecreateTrigger, Covered, Restores, Files, Triggers
<1>17. ASSUME NEW t \in Task, EndRestore(t)
       PROVE  Covered'
  <2>1. task[t].pc = "creating" /\ task[t].left = {}
    BY <1>17, BusyTyped DEF EndRestore, Owed
  <2>2. task'[t] = NoTask /\ \A u \in Task \ {t} : task'[u] = task[u]
    BY <1>17 DEF EndRestore, DbTypeOK
  <2>3. Busy(Restores)' = Busy(Restores) \ {t}
    BY <2>2 DEF Busy
  <2>4. \A f \in Files : dbFile'[f].armed = dbFile[f].armed
    <3>1. task[t].conn \in Files
      BY <1>17, BusyTyped DEF EndRestore, Commands
    <3>2. CASE task[t].ok
      <4>1. PICK utc \in (Today - 1)..(Today + 1) :
              dbFile' = [dbFile EXCEPT ![task[t].conn].mark = utc]
        BY <1>17, <3>2 DEF EndRestore
      <4> QED BY <3>1, <4>1 DEF DbTypeOK, FileSet
    <3>3. CASE ~task[t].ok
      BY <1>17, <3>3 DEF EndRestore
    <3> QED BY <3>2, <3>3
  <2>5. ASSUME NEW f \in Files, NEW u \in Restoring(f), u # t
        PROVE  u \in Restoring(f)' /\ Owing(u)' = Owing(u)
    BY <2>2, <2>3, <2>5 DEF Restoring, Owing, Restores, Busy
  <2>6. Owing(t) = {}
    BY <2>1 DEF Owing
  <2>7. \A u \in Busy(Restores)' : task'[u].left \subseteq task'[u].list
    BY <2>2, <2>3 DEF Covered, Restores, Busy
  <2>8. ASSUME NEW f \in Files \ cutOff, NEW j \in Triggers
        PROVE  j \in dbFile'[f].armed \/ \E u \in Restoring(f)' : j \in Owing(u)'
    BY <2>4, <2>5, <2>6 DEF Covered
  <2> QED BY <1>17, <2>7, <2>8 DEF EndRestore, Covered, Restores, Files, Triggers
<1> QED BY <1>1, <1>2, <1>3, <1>4, <1>5, <1>6, <1>8, <1>9, <1>10, <1>11, <1>12, <1>13,
           <1>14, <1>15, <1>16, <1>17 DEF DbNext

\* New files have their triggers.
THEOREM CoveredInit == DbInit => Covered
BY DEF DbInit, Covered, Busy, FileSet

\* A trigger that a restore takes away is back, or a restore on its way owes it: for any
\* number of commands and of days, also when restores meet, fail or follow a switch of
\* modes, in every file whose restore was not cut off.
THEOREM TriggersTheorem == DbSpec => []TriggersComeBack
<1>1. DbInit => DbTypeOK /\ Covered
  BY TypeInit, CoveredInit
<1>2. DbTypeOK /\ Covered /\ [DbNext]_dbVars => DbTypeOK' /\ Covered'
  <2> SUFFICES ASSUME DbTypeOK, Covered, [DbNext]_dbVars
               PROVE  DbTypeOK' /\ Covered'
    OBVIOUS
  <2>1. CASE DbNext
    BY <2>1, TypeStep, CoveredStep
  <2>2. CASE UNCHANGED dbVars
    BY <2>2 DEF dbVars, DbTypeOK, Covered, Restoring, Busy, Owing, Files
  <2> QED BY <2>1, <2>2
<1>3. DbTypeOK /\ Covered => TriggersComeBack
  BY CoveredGives
<1> QED BY <1>1, <1>2, <1>3, PTL DEF DbSpec
-----------------------------------------------------------------------------
(* The days that a restore brought. *)

\* What t will write is not before the watermark of a restore.
Recent(t) == \A i \in task[t].todo : i[1] >= Today - 1

Watched(f) == f \in Files \ (cutOff \cup lateIn) /\ restored[f] # NoRestore

\* The restore of f has set the watermark, or is about to.
Marked(f) ==
  \/ dbFile[f].mark >= Today - 1
  \/ \E t \in Busy({"creating"}) : task[t].conn = f /\ task[t].ok

Kept ==
  /\ \A f \in Files : Watched(f) => Marked(f)
  /\ \A f \in Files : Watched(f) =>
       \A i \in dbFile[f].items : i[1] < Today - 1 => i \in restored[f]
  /\ \A t \in Busy({"loaded"}) : ~task[t].only => Recent(t)
  /\ \A t \in Busy({"writing"}) : Watched(task[t].conn) /\ ~task[t].stale => Recent(t)

\* What a command that goes on keeps.
SameWork(t) ==
  /\ task'[t].pc = task[t].pc /\ task'[t].conn = task[t].conn /\ task'[t].only = task[t].only
  /\ task'[t].todo \subseteq task[t].todo /\ task'[t].stale = task[t].stale
  /\ task'[t].ok = task[t].ok

\* A step that neither writes nor restores.
LEMMA KeptStays ==
  ASSUME DbTypeOK, Kept, Files' = Files, cutOff \subseteq cutOff', lateIn \subseteq lateIn',
         restored' = restored,
         \A f \in Files : dbFile'[f].mark = dbFile[f].mark,
         \A f \in Files : dbFile'[f].items \subseteq dbFile[f].items,
         \A t \in Busy({"creating"}) :
           /\ t \in Busy({"creating"})'
           /\ task'[t].conn = task[t].conn /\ task'[t].ok = task[t].ok,
         \A t \in Busy({"loaded"})' : (t \in Busy({"loaded"}) /\ SameWork(t)) \/ task'[t].only \/ Recent(t)',
         \A t \in Busy({"writing"})' :
           \/ t \in Busy({"writing"}) /\ SameWork(t)
           \/ Watched(task'[t].conn) /\ ~task'[t].stale => Recent(t)'
  PROVE  Kept'
<1>1. \A f \in Files : Watched(f)' => Watched(f)
  BY DEF Watched
<1>2. \A f : f \notin Files => ~Watched(f) /\ ~Watched(f)'
  BY DEF Watched
<1>3. ASSUME NEW f \in Files, Watched(f)'
      PROVE  Marked(f)'
  <2>1. CASE dbFile[f].mark >= Today - 1
    BY <2>1 DEF Marked
  <2>2. CASE \E t \in Busy({"creating"}) : task[t].conn = f /\ task[t].ok
    <3>1. PICK t \in Busy({"creating"}) : task[t].conn = f /\ task[t].ok
      BY <2>2
    <3>2. t \in Busy({"creating"})' /\ task'[t].conn = f /\ task'[t].ok
      BY <3>1 DEF SameWork
    <3> QED BY <3>2 DEF Marked
  <2> QED BY <1>1, <1>3, <2>1, <2>2 DEF Kept, Marked
<1>4. ASSUME NEW f \in Files, Watched(f)', NEW i \in dbFile'[f].items, i[1] < Today - 1
      PROVE  i \in restored'[f]
  BY <1>1, <1>4 DEF Kept
<1>5. ASSUME NEW t, SameWork(t), Recent(t)
      PROVE  Recent(t)'
  BY <1>5 DEF SameWork, Recent
<1>6. ASSUME NEW t \in Busy({"loaded"})', ~task'[t].only
      PROVE  Recent(t)'
  BY <1>5, <1>6 DEF Kept, SameWork
<1>7. ASSUME NEW t \in Busy({"writing"})', Watched(task[t].conn)', ~task'[t].stale
      PROVE  Recent(t)'
  <2>1. Watched(task'[t].conn)
    BY <1>7 DEF Watched
  <2> QED BY <1>5, <1>7, <2>1 DEF Kept, SameWork
<1>8. Today' = Today
  OBVIOUS
<1> QED BY <1>3, <1>4, <1>6, <1>7, <1>8 DEF Kept

\* Nothing has been restored in new files.
THEOREM KeptInit == DbInit => Kept
BY DEF DbInit, Kept, Watched, Busy

\* The days of RestoredIsTheFile.
LEMMA KeptGives == Kept => RestoredIsTheFile
BY DEF Kept, RestoredIsTheFile, Watched

\* When one thread goes on, the others stay as they are.
LEMMA OthersStay ==
  ASSUME DbTypeOK, NEW t \in Task, NEW r, task' = [task EXCEPT ![t] = r]
  PROVE  /\ task'[t] = r
         /\ \A u \in Task \ {t} : task'[u] = task[u] /\ SameWork(u)
         /\ \A u, pcs : u # t => (u \in Busy(pcs)' <=> u \in Busy(pcs))
<1>1. task'[t] = r /\ \A u \in Task \ {t} : task'[u] = task[u]
  BY DEF DbTypeOK
<1>2. \A u \in Task \ {t} : SameWork(u)
  BY <1>1 DEF SameWork
<1>3. ASSUME NEW u, NEW pcs, u # t
      PROVE  u \in Busy(pcs)' <=> u \in Busy(pcs)
  BY <1>1, <1>3 DEF Busy
<1> QED BY <1>1, <1>2, <1>3

\* One thread goes on, and neither writes nor restores.
LEMMA KeptOne ==
  ASSUME DbTypeOK, Kept, UNCHANGED <<cutOff, lateIn, restored>>,
         NEW t \in Task, NEW r, task' = [task EXCEPT ![t] = r],
         \A f \in Files : dbFile'[f].mark = dbFile[f].mark,
         \A f \in Files : dbFile'[f].items = dbFile[f].items,
         t \in Busy({"creating"}) =>
           r # NoTask /\ r.pc = "creating" /\ r.conn = task[t].conn /\ r.ok = task[t].ok,
         r # NoTask /\ r.pc = "loaded" => r.only \/ \A i \in r.todo : i[1] >= Today - 1,
         r # NoTask /\ r.pc = "writing" =>
           (Watched(r.conn) /\ ~r.stale => \A i \in r.todo : i[1] >= Today - 1)
  PROVE  Kept'
<1>1. task'[t] = r
  BY OthersStay
<1>2. ASSUME NEW u \in Busy({"creating"})
      PROVE  /\ u \in Busy({"creating"})'
             /\ task'[u].conn = task[u].conn /\ task'[u].ok = task[u].ok
  <2>1. CASE u = t
    BY <1>1, <1>2, <2>1 DEF Busy
  <2>2. CASE u # t
    BY <1>2, <2>2, OthersStay DEF Busy, SameWork
  <2> QED BY <2>1, <2>2
<1>3. ASSUME NEW u \in Busy({"loaded"})'
      PROVE  (u \in Busy({"loaded"}) /\ SameWork(u)) \/ task'[u].only \/ Recent(u)'
  <2>1. CASE u = t
    BY <1>1, <1>3, <2>1 DEF Busy, Recent
  <2>2. CASE u # t
    BY <1>3, <2>2, OthersStay DEF Busy
  <2> QED BY <2>1, <2>2
<1>4. ASSUME NEW u \in Busy({"writing"})'
      PROVE  \/ u \in Busy({"writing"}) /\ SameWork(u)
             \/ Watched(task'[u].conn) /\ ~task'[u].stale => Recent(u)'
  <2>1. CASE u = t
    BY <1>1, <1>4, <2>1 DEF Busy, Recent
  <2>2. CASE u # t
    BY <1>4, <2>2, OthersStay DEF Busy
  <2> QED BY <2>1, <2>2
<1> QED BY <1>2, <1>3, <1>4, KeptStays DEF Files

\* No step brings an old day back: a refresh either looks at the watermark, or at a
\* restore on its way, or is marked as late by it.
LEMMA KeptStep ==
  ASSUME DbTypeOK, Kept, DbNext
  PROVE  Kept'
<1>1. CASE Open
  <2>1. \A f \in Files : dbFile'[f].mark = dbFile[f].mark /\ dbFile'[f].items = dbFile[f].items
    BY <1>1, InitialisedKeeps DEF Open, DbTypeOK
  <2>2. UNCHANGED <<task, restored, cutOff, lateIn>>
    BY <1>1 DEF Open
  <2> QED BY <2>1, <2>2 DEF Kept, Watched, Marked, Busy, Recent, Files
<1>2. CASE Close
  <2>1. ASSUME NEW f \in Files, Watched(f)'
        PROVE  Watched(f) /\ dbFile[f].mark >= Today - 1
    <3>1. f \notin cutOff /\ Restoring(f) = {} /\ Watched(f)
      BY <1>2, <2>1 DEF Close, Watched
    <3>2. ~\E t \in Busy({"creating"}) : task[t].conn = f
      BY <3>1 DEF Restoring, Busy
    <3> QED BY <3>1, <3>2 DEF Kept, Marked
  <2>2. \A pcs : Busy(pcs)' = {}
    BY <1>2 DEF Close, Busy
  <2>3. UNCHANGED <<dbFile, restored>>
    BY <1>2 DEF Close
  <2> QED BY <2>1, <2>2, <2>3 DEF Kept, Marked
<1>3. CASE CleanUp \/ Backup
  <2>1. UNCHANGED <<dbFile, task, restored, cutOff, lateIn>>
    BY <1>3 DEF CleanUp, Backup
  <2> QED BY <2>1 DEF Kept, Watched, Marked, Busy, Recent, Files
<1>4. CASE ClearAllData
  <2>1. \A f \in Files : dbFile'[f].mark = dbFile[f].mark /\ dbFile'[f].items \subseteq dbFile[f].items
    BY <1>4 DEF ClearAllData, DbTypeOK, FileSet
  <2>2. UNCHANGED <<task, restored, cutOff, lateIn>>
    BY <1>4 DEF ClearAllData
  <2> QED BY <2>1, <2>2 DEF Kept, Watched, Marked, Busy, Recent, Files
<1>5. ASSUME NEW t \in Task, NEW m \in Files, BeginSwitch(t, m)
      PROVE  Kept'
  <2>1. \A f \in Files : dbFile'[f].mark = dbFile[f].mark /\ dbFile'[f].items = dbFile[f].items
    BY <1>5, InitialisedKeeps DEF BeginSwitch, DbTypeOK
  <2>2. UNCHANGED <<restored, cutOff, lateIn>>
    BY <1>5 DEF BeginSwitch
  <2>3. \A u \in Task \ {t} :
          IF task[u] = NoTask THEN task'[u] = NoTask
          ELSE task'[u] = [task[u] EXCEPT !.crossed = TRUE] /\ task[u] \in Commands
    BY <1>5 DEF BeginSwitch, DbTypeOK
  <2>4. task[t] = NoTask /\ task'[t].pc = "switching"
    BY <1>5 DEF BeginSwitch, NewTask
  <2>5. ASSUME NEW u \in Task \ {t}, task[u] # NoTask
        PROVE  SameWork(u) /\ task'[u] # NoTask
    <3>1. task[u] \in Commands /\ task'[u] = [task[u] EXCEPT !.crossed = TRUE]
      BY <2>3, <2>5
    <3>2. task'[u] \in Commands
      BY <3>1, CrossedTyped
    <3>3. SameWork(u)
      BY <3>1 DEF SameWork, Commands
    <3> QED BY <3>2, <3>3, DbAssumption
  <2>6. ASSUME NEW pcs, "switching" \notin pcs, NEW u
        PROVE  /\ u \in Busy(pcs)' => u \in Busy(pcs)
               /\ u \in Busy(pcs) => u \in Busy(pcs)' /\ SameWork(u)
    <3>1. u \in Busy(pcs)' => u \in Task \ {t} /\ task[u] # NoTask
      BY <2>3, <2>4, <2>6 DEF Busy
    <3>2. u \in Busy(pcs) => u \in Task \ {t} /\ task[u] # NoTask
      BY <2>4 DEF Busy
    <3> QED BY <2>5, <3>1, <3>2 DEF Busy, SameWork
  <2>7. \A u : /\ u \in Busy({"creating"}) => u \in Busy({"creating"})' /\ SameWork(u)
               /\ u \in Busy({"loaded"})' => u \in Busy({"loaded"}) /\ SameWork(u)
               /\ u \in Busy({"writing"})' => u \in Busy({"writing"}) /\ SameWork(u)
    BY <2>6
  <2> QED BY <2>1, <2>2, <2>7, KeptStays DEF Files, SameWork
<1>6. ASSUME NEW t \in Task, SwitchPath(t) \/ SwitchFlag(t) \/ SwitchPool(t)
      PROVE  Kept'
  <2>1. task[t] \in Commands /\ task[t].pc \in SwitchPcs
    BY <1>6, BusyTyped DEF SwitchPath, SwitchFlag, SwitchPool, SwitchPcs
  <2>2. t \notin Busy({"creating"}) /\ UNCHANGED <<dbFile, restored, cutOff, lateIn>>
    BY <1>6, <2>1 DEF SwitchPath, SwitchFlag, SwitchPool, SwitchPcs, Busy
  <2>3. PICK r : task' = [task EXCEPT ![t] = r] /\ (r = NoTask \/ r.pc \in SwitchPcs)
    <3>1. \A pc : [task[t] EXCEPT !.pc = pc].pc = pc
      BY <2>1 DEF Commands
    <3>2. \/ task' = [task EXCEPT ![t] = [task[t] EXCEPT !.pc = "flagging"]]
          \/ task' = [task EXCEPT ![t] = [task[t] EXCEPT !.pc = "resetting"]]
          \/ task' = [task EXCEPT ![t] = NoTask]
      BY <1>6 DEF SwitchPath, SwitchFlag, SwitchPool, DbTypeOK
    <3> QED BY <3>1, <3>2 DEF SwitchPcs
  <2> QED BY <2>2, <2>3, KeptOne DEF SwitchPcs
<1>7. ASSUME NEW t \in Task, NEW only \in BOOLEAN, Load(t, only)
      PROVE  Kept'
  <2> DEFINE items == IF only THEN (1..Today) \X {"tracked"} ELSE {<<Today, Proper(dash.flag)>>}
             q == [NewTask("loaded") EXCEPT !.only = only, !.crossed = Switching, !.todo = items]
  <2>1. task' = [task EXCEPT ![t] = q] /\ UNCHANGED <<dbFile, restored, cutOff, lateIn>>
    BY <1>7 DEF Load
  <2>2. q.pc = "loaded" /\ q.only = only /\ q.todo = items
    BY DEF NewTask
  <2>3. ~only => \A i \in items : i[1] >= Today - 1
    BY DbAssumption
  <2>4. t \notin Busy({"creating"})
    BY <1>7 DEF Load, Busy
  <2> HIDE DEF q, items
  <2> QED BY <2>1, <2>2, <2>3, <2>4, KeptOne
<1>8. ASSUME NEW t \in Task, Release(t)
      PROVE  Kept'
  <2>1. task[t] \in Commands /\ task[t].pc = "writing"
    BY <1>8, BusyTyped DEF Release
  <2>2. t \notin Busy({"creating"})
    BY <2>1 DEF Busy
  <2> QED BY <1>8, <2>2, KeptOne DEF Release
<1>9. ASSUME NEW t \in Task, Look(t)
      PROVE  Kept'
  <2>1. task[t] \in Commands /\ task[t].pc = "loaded" /\ t \in Busy({"loaded"})
    BY <1>9, BusyTyped DEF Look
  <2>2. PICK f \in Files :
          Acquire(t, [task[t] EXCEPT !.pc = "writing",
                        !.stale = \E u \in Restoring(f) : task[u].pc = "creating",
                        !.todo = IF task[t].only THEN MissingDays(dbFile[f], @) ELSE @], f)
    BY <1>9, OfferedTyped DEF Look
  <2> DEFINE items == IF task[t].only THEN MissingDays(dbFile[f], task[t].todo) ELSE task[t].todo
             st == \E u \in Restoring(f) : task[u].pc = "creating"
             q == [task[t] EXCEPT !.pc = "writing", !.stale = st, !.todo = items,
                                  !.conn = f, !.path = dash.path]
  <2>3. task' = [task EXCEPT ![t] = q]
    BY <2>1, <2>2 DEF Acquire, Commands
  <2>4. q.pc = "writing" /\ q.conn = f /\ q.todo = items /\ (q.stale <=> st)
    BY <2>1 DEF Commands
  <2>5. ASSUME Watched(f), ~st
        PROVE  \A i \in items : i[1] >= Today - 1
    <3>1. dbFile[f].mark >= Today - 1
      BY <2>5 DEF Kept, Marked, Restoring, Busy
    <3>2. CASE task[t].only
      <4>1. dbFile[f].mark \in Int
        BY DEF DbTypeOK, FileSet
      <4>2. ASSUME NEW i \in items
            PROVE  i[1] \in Int /\ i[1] >= dbFile[f].mark
        <5>1. i \in task[t].todo /\ i[1] >= dbFile[f].mark
          BY <3>2 DEF MissingDays
        <5>2. i \in Items
          BY <2>1, <5>1 DEF Commands
        <5> QED BY <5>1, <5>2, ItemDay
      <4>3. Today \in Int
        BY DbAssumption
      <4> HIDE DEF items
      <4> QED BY <3>1, <4>1, <4>2, <4>3
    <3>3. CASE ~task[t].only
      BY <2>1, <3>3 DEF Kept, Recent
    <3> QED BY <3>2, <3>3
  <2>6. t \notin Busy({"creating"}) /\ UNCHANGED <<dbFile, restored, cutOff, lateIn>>
    BY <1>9, <2>1 DEF Look, Busy
  <2> HIDE DEF items, st, q
  <2> QED BY <2>3, <2>4, <2>5, <2>6, KeptOne
<1>10. ASSUME NEW t \in Task, Upsert(t)
       PROVE  Kept'
  <2> DEFINE f == task[t].conn
  <2>1. /\ task[t] \in Commands /\ task[t].pc = "writing" /\ t \in Busy({"writing"})
        /\ f \in Files
    BY <1>10, BusyTyped DEF Upsert, Commands
  <2>2. PICK i \in task[t].todo :
          /\ dbFile' = [dbFile EXCEPT ![f].items = @ \cup {i}]
          /\ task' = [task EXCEPT ![t].todo = @ \ {i}]
    BY <1>10 DEF Upsert
  <2>3. /\ UNCHANGED <<restored, cutOff>> /\ lateIn \subseteq lateIn'
        /\ task[t].stale => f \in lateIn'
    BY <1>10 DEF Upsert
  <2> DEFINE q == [task[t] EXCEPT !.todo = task[t].todo \ {i}]
  <2>4. task' = [task EXCEPT ![t] = q]
    BY <2>1, <2>2
  <2>5. /\ q.pc = "writing" /\ q.conn = f /\ q.todo \subseteq task[t].todo
        /\ q.stale = task[t].stale
    BY <2>1 DEF Commands
  <2>6. /\ \A g \in Files : dbFile'[g].mark = dbFile[g].mark
        /\ \A g \in Files \ {f} : dbFile'[g].items = dbFile[g].items
        /\ dbFile'[f].items = dbFile[f].items \cup {i}
    BY <2>1, <2>2 DEF DbTypeOK, FileSet
  <2> HIDE DEF q
  <2>7. task'[t] = q
    BY <2>4, OthersStay
  <2>8. \A g : Watched(g)' => Watched(g) /\ (g = f => ~task[t].stale)
    BY <2>3 DEF Watched
  <2>9. ASSUME NEW g \in Files, Watched(g)'
        PROVE  Marked(g)'
    <3>1. CASE dbFile[g].mark >= Today - 1
      BY <2>6, <3>1 DEF Marked
    <3>2. CASE \E u \in Busy({"creating"}) : task[u].conn = g /\ task[u].ok
      <4>1. PICK u \in Busy({"creating"}) : task[u].conn = g /\ task[u].ok
        BY <3>2
      <4>2. u # t /\ u \in Task
        BY <2>1, <4>1 DEF Busy
      <4>3. u \in Busy({"creating"})' /\ task'[u] = task[u]
        BY <2>4, <4>1, <4>2, OthersStay
      <4> QED BY <4>1, <4>3 DEF Marked
    <3> QED BY <2>8, <2>9, <3>1, <3>2 DEF Kept, Marked
  <2>10. ASSUME NEW g \in Files, Watched(g)', NEW j \in dbFile'[g].items, j[1] < Today - 1
         PROVE  j \in restored'[g]
    <3>1. CASE g = f /\ j = i
      <4>1. Recent(t)
        BY <2>1, <2>8, <2>10, <3>1 DEF Kept
      <4>2. j[1] >= Today - 1 /\ j \in Items
        BY <2>1, <3>1, <4>1 DEF Recent, Commands
      <4>3. j[1] \in Int /\ Today \in Int
        BY <4>2, ItemDay, DbAssumption
      <4> QED BY <2>10, <4>2, <4>3
    <3>2. CASE j \in dbFile[g].items
      BY <2>3, <2>8, <2>10, <3>2 DEF Kept
    <3> QED BY <2>6, <3>1, <3>2
  <2>11. ASSUME NEW u \in Busy({"loaded"})', ~task'[u].only
         PROVE  Recent(u)'
    <3>1. u # t
      BY <2>5, <2>7, <2>11 DEF Busy
    <3>2. u \in Busy({"loaded"}) /\ task'[u] = task[u]
      BY <2>4, <2>11, <3>1, OthersStay DEF Busy
    <3> QED BY <2>11, <3>2 DEF Kept, Recent
  <2>12. ASSUME NEW u \in Busy({"writing"})', Watched(task[u].conn)', ~task'[u].stale
         PROVE  Recent(u)'
    <3>1. CASE u = t
      <4>1. Watched(f) /\ ~task[t].stale
        BY <2>5, <2>7, <2>8, <2>12, <3>1
      <4>2. Recent(t)
        BY <2>1, <4>1 DEF Kept
      <4> QED BY <2>5, <2>7, <3>1, <4>2 DEF Recent
    <3>2. CASE u # t
      <4>1. u \in Busy({"writing"}) /\ task'[u] = task[u]
        BY <2>4, <2>12, <3>2, OthersStay DEF Busy
      <4>2. Watched(task[u].conn)
        BY <2>3, <2>12, <4>1 DEF Watched
      <4> QED BY <2>12, <4>1, <4>2 DEF Kept, Recent
    <3> QED BY <3>1, <3>2
  <2> QED BY <2>9, <2>10, <2>11, <2>12 DEF Kept, Files
<1>11. ASSUME NEW t \in Task, BeginRestore(t)
       PROVE  Kept'
  <2>1. PICK f \in Files, b \in backups :
          Acquire(t, [NewTask("dropping") EXCEPT !.from = b, !.list = dbFile[f].armed,
                                                !.left = dbFile[f].armed], f)
    BY <1>11, OfferedTyped DEF BeginRestore
  <2>2. PICK r : task' = [task EXCEPT ![t] = r] /\ r.pc = "dropping"
    <3> DEFINE q == [NewTask("dropping") EXCEPT !.from = b, !.list = dbFile[f].armed,
                       !.left = dbFile[f].armed, !.conn = f, !.path = dash.path]
    <3>1. task' = [task EXCEPT ![t] = q]
      BY <2>1 DEF Acquire, NewTask
    <3>2. q.pc = "dropping"
      BY DEF NewTask
    <3> QED BY <3>1, <3>2
  <2>3. t \notin Busy({"creating"}) /\ UNCHANGED <<dbFile, restored, cutOff, lateIn>>
    BY <1>11 DEF BeginRestore, Busy
  <2> QED BY <2>2, <2>3, KeptOne
<1>12. ASSUME NEW t \in Task, DropTrigger(t) \/ RecreateTrigger(t)
       PROVE  Kept'
  <2>1. task[t] \in Commands /\ task[t].pc \in {"dropping", "creating"}
    BY <1>12, BusyTyped DEF DropTrigger, RecreateTrigger
  <2>2. PICK k \in task[t].left :
          /\ \/ dbFile' = [dbFile EXCEPT ![task[t].conn].armed = @ \ {k}]
             \/ dbFile' = [dbFile EXCEPT ![task[t].conn].armed = @ \cup {k}]
          /\ task' = [task EXCEPT ![t].left = @ \ {k}]
    BY <1>12 DEF DropTrigger, RecreateTrigger
  <2> DEFINE q == [task[t] EXCEPT !.left = task[t].left \ {k}]
  <2>3. task' = [task EXCEPT ![t] = q]
    BY <2>2
  <2>4. q.pc = task[t].pc /\ q.conn = task[t].conn /\ q.ok = task[t].ok /\ q \in Commands
    BY <2>1 DEF Commands
  <2> HIDE DEF q
  <2>5. \A f \in Files : dbFile'[f].mark = dbFile[f].mark /\ dbFile'[f].items = dbFile[f].items
    <3>1. CASE dbFile' = [dbFile EXCEPT ![task[t].conn].armed = @ \ {k}]
      BY <3>1 DEF DbTypeOK, FileSet
    <3>2. CASE dbFile' = [dbFile EXCEPT ![task[t].conn].armed = @ \cup {k}]
      BY <3>2 DEF DbTypeOK, FileSet
    <3> QED BY <2>2, <3>1, <3>2
  <2>6. UNCHANGED <<restored, cutOff, lateIn>>
    BY <1>12 DEF DropTrigger, RecreateTrigger
  <2> QED BY <2>1, <2>3, <2>4, <2>5, <2>6, DbAssumption, KeptOne DEF Busy
<1>13. ASSUME NEW t \in Task, CopyFails(t)
       PROVE  Kept'
  <2>1. task[t] \in Commands /\ task[t].pc = "dropping"
    BY <1>13, BusyTyped DEF CopyFails
  <2> DEFINE q == [task[t] EXCEPT !.pc = "creating", !.left = task[t].list]
  <2>2. task' = [task EXCEPT ![t] = q] /\ UNCHANGED <<dbFile, restored, cutOff, lateIn>>
    BY <1>13 DEF CopyFails
  <2>3. q.pc = "creating"
    BY <2>1 DEF Commands
  <2>4. t \notin Busy({"creating"})
    BY <2>1 DEF Busy
  <2> HIDE DEF q
  <2> QED BY <2>2, <2>3, <2>4, KeptOne
<1>14. ASSUME NEW t \in Task, CopyTables(t)
       PROVE  Kept'
  <2> DEFINE f == task[t].conn
             b == task[t].from
             q == [task[t] EXCEPT !.pc = "creating", !.left = task[t].list, !.ok = TRUE]
  <2>1. /\ task[t] \in Commands /\ task[t].pc = "dropping" /\ f \in Files
    BY <1>14, BusyTyped DEF CopyTables, Commands
  <2>2. /\ restored' = [restored EXCEPT ![f] = b.items]
        /\ dbFile' = [dbFile EXCEPT ![f] = [items |-> b.items, mark |-> b.mark,
                                        armed |-> @.armed, old |-> b.old]]
        /\ UNCHANGED <<cutOff, lateIn>> /\ task'[t] = q
    BY <1>14 DEF CopyTables
  <2>3. ASSUME NEW u \in Task \ {t}
        PROVE  IF u \in Busy({"writing"}) /\ task[u].conn = f
               THEN task'[u] = [task[u] EXCEPT !.stale = TRUE] /\ task[u] \in Commands
               ELSE task'[u] = task[u]
    BY <1>14, BusyTyped DEF CopyTables
  <2>4. q \in Commands /\ q.pc = "creating" /\ q.conn = f /\ q.ok = TRUE
    <3>1. task[t].list \in SUBSET Triggers
      BY <2>1 DEF Commands
    <3> QED BY <2>1, <3>1, CopiedTyped
  <2> HIDE DEF q
  <2>5. t \in Busy({"creating"})' /\ task'[t].conn = f /\ task'[t].ok
    BY <2>2, <2>4, DbAssumption DEF Busy
  <2>6. ASSUME NEW u \in Task \ {t}
        PROVE  IF u \in Busy({"writing"}) /\ task[u].conn = f
               THEN task'[u].pc = "writing" /\ task'[u].stale
               ELSE task'[u] = task[u]
    <3>1. CASE u \in Busy({"writing"}) /\ task[u].conn = f
      <4>1. task'[u] = [task[u] EXCEPT !.stale = TRUE] /\ task[u] \in Commands
        BY <2>3, <3>1
      <4>2. task[u].pc = "writing"
        BY <3>1 DEF Busy
      <4>3. task'[u].pc = "writing" /\ task'[u].stale = TRUE
        BY <4>1, <4>2 DEF Commands
      <4> QED BY <3>1, <4>3
    <3>2. CASE ~(u \in Busy({"writing"}) /\ task[u].conn = f)
      BY <2>3, <3>2
    <3> QED BY <3>1, <3>2
  <2>7. \A g \in Files \ {f} : /\ Watched(g)' <=> Watched(g)
                              /\ dbFile'[g] = dbFile[g] /\ restored'[g] = restored[g]
    BY <2>1, <2>2 DEF Watched, DbTypeOK
  <2>8. ASSUME NEW g \in Files, Watched(g)'
        PROVE  Marked(g)'
    <3>1. CASE g = f
      BY <2>5, <3>1 DEF Marked
    <3>2. CASE g # f /\ dbFile[g].mark >= Today - 1
      BY <2>7, <3>2 DEF Marked
    <3>3. CASE \E u \in Busy({"creating"}) : task[u].conn = g /\ task[u].ok
      <4>1. PICK u \in Busy({"creating"}) : task[u].conn = g /\ task[u].ok
        BY <3>3
      <4>2. u # t /\ u \notin Busy({"writing"}) /\ u \in Task
        BY <2>1, <4>1 DEF Busy
      <4>3. task'[u] = task[u]
        BY <2>6, <4>2
      <4>4. u \in Busy({"creating"})'
        BY <4>1, <4>3 DEF Busy
      <4> QED BY <4>1, <4>3, <4>4 DEF Marked
    <3> QED BY <2>7, <2>8, <3>1, <3>2, <3>3 DEF Kept, Marked
  <2>9. ASSUME NEW g \in Files, Watched(g)', NEW j \in dbFile'[g].items, j[1] < Today - 1
        PROVE  j \in restored'[g]
    <3>1. CASE g = f
      BY <2>1, <2>2, <2>9, <3>1 DEF DbTypeOK
    <3>2. CASE g # f
      BY <2>7, <2>9, <3>2 DEF Kept
    <3> QED BY <3>1, <3>2
  <2>10. ASSUME NEW u \in Busy({"loaded"})', ~task'[u].only
         PROVE  Recent(u)'
    <3>1. u # t /\ u \in Task
      BY <2>2, <2>4, <2>10 DEF Busy
    <3>2. task'[u] = task[u] /\ u \in Busy({"loaded"})
      BY <2>6, <2>10, <3>1 DEF Busy
    <3> QED BY <2>10, <3>2 DEF Kept, Recent
  <2>11. ASSUME NEW u \in Busy({"writing"})', Watched(task[u].conn)', ~task'[u].stale
         PROVE  Recent(u)'
    <3>1. u # t /\ u \in Task
      BY <2>2, <2>4, <2>11 DEF Busy
    <3>2. task'[u] = task[u] /\ u \in Busy({"writing"}) /\ task[u].conn # f
      BY <2>6, <2>11, <3>1 DEF Busy
    <3>3. Watched(task[u].conn)'  <=> Watched(task[u].conn)
      BY <2>7, <3>2 DEF Watched
    <3> QED BY <2>11, <3>2, <3>3 DEF Kept, Recent
  <2> QED BY <2>8, <2>9, <2>10, <2>11 DEF Kept, Files
<1>15. ASSUME NEW t \in Task, EndRestore(t)
       PROVE  Kept'
  <2>1. task[t] \in Commands /\ task[t].pc = "creating" /\ task[t].conn \in Files
    BY <1>15, BusyTyped DEF EndRestore, Commands
  <2>2. task' = [task EXCEPT ![t] = NoTask] /\ UNCHANGED <<restored, cutOff, lateIn>>
    BY <1>15 DEF EndRestore
  <2>3. \A g \in Files : dbFile'[g].items = dbFile[g].items
    <3>1. CASE task[t].ok
      <4>1. PICK utc \in (Today - 1)..(Today + 1) :
              dbFile' = [dbFile EXCEPT ![task[t].conn].mark = utc]
        BY <1>15, <3>1 DEF EndRestore
      <4> QED BY <2>1, <4>1 DEF DbTypeOK, FileSet
    <3>2. CASE ~task[t].ok
      BY <1>15, <3>2 DEF EndRestore
    <3> QED BY <3>1, <3>2
  <2>4. ASSUME NEW g \in Files
        PROVE  dbFile'[g].mark = dbFile[g].mark \/ (dbFile'[g].mark >= Today - 1 /\ g = task[t].conn)
    <3>1. CASE task[t].ok
      <4>1. PICK utc \in (Today - 1)..(Today + 1) :
              dbFile' = [dbFile EXCEPT ![task[t].conn].mark = utc]
        BY <1>15, <3>1 DEF EndRestore
      <4>2. utc >= Today - 1
        BY DbAssumption
      <4> QED BY <2>1, <4>1, <4>2 DEF DbTypeOK, FileSet
    <3>2. CASE ~task[t].ok
      BY <1>15, <3>2 DEF EndRestore
    <3> QED BY <3>1, <3>2
  <2>5. ASSUME task[t].ok
        PROVE  dbFile'[task[t].conn].mark >= Today - 1
    <3>1. PICK utc \in (Today - 1)..(Today + 1) :
            dbFile' = [dbFile EXCEPT ![task[t].conn].mark = utc]
      BY <1>15, <2>5 DEF EndRestore
    <3>2. utc >= Today - 1
      BY DbAssumption
    <3> QED BY <2>1, <3>1, <3>2 DEF DbTypeOK, FileSet
  <2>6. \A u, pcs : u \in Busy(pcs)' => u \in Busy(pcs) /\ task'[u] = task[u]
    BY <2>2, OthersStay DEF Busy
  <2>7. \A g : Watched(g)' <=> Watched(g)
    BY <2>2 DEF Watched, Files
  <2>8. ASSUME NEW g \in Files, Watched(g)'
        PROVE  Marked(g)'
    <3>1. CASE dbFile[g].mark >= Today - 1
      BY <2>4, <3>1 DEF Marked
    <3>2. CASE \E u \in Busy({"creating"}) : task[u].conn = g /\ task[u].ok
      <4>1. PICK u \in Busy({"creating"}) : task[u].conn = g /\ task[u].ok
        BY <3>2
      <4>2. CASE u = t
        BY <2>5, <4>1, <4>2 DEF Marked
      <4>3. CASE u # t
        <5>1. u \in Busy({"creating"})' /\ task'[u] = task[u]
          BY <2>2, <4>1, <4>3, OthersStay DEF Busy
        <5> QED BY <4>1, <5>1 DEF Marked
      <4> QED BY <4>2, <4>3
    <3> QED BY <2>7, <2>8, <3>1, <3>2 DEF Kept, Marked
  <2>9. ASSUME NEW g \in Files, Watched(g)', NEW j \in dbFile'[g].items, j[1] < Today - 1
        PROVE  j \in restored'[g]
    BY <2>2, <2>3, <2>7, <2>9 DEF Kept
  <2>10. ASSUME NEW u \in Busy({"loaded"})', ~task'[u].only
         PROVE  Recent(u)'
    BY <2>6, <2>10 DEF Kept, Recent
  <2>11. ASSUME NEW u \in Busy({"writing"})', Watched(task[u].conn)', ~task'[u].stale
         PROVE  Recent(u)'
    <3>1. u \in Busy({"writing"}) /\ task'[u] = task[u]
      BY <2>6
    <3>2. Watched(task[u].conn)
      BY <2>2, <2>11, <3>1 DEF Watched, Files
    <3> QED BY <2>11, <3>1, <3>2 DEF Kept, Recent
  <2> QED BY <2>8, <2>9, <2>10, <2>11 DEF Kept, Files
<1> QED BY <1>1, <1>2, <1>3, <1>4, <1>5, <1>6, <1>7, <1>8, <1>9, <1>10, <1>11, <1>12,
           <1>13, <1>14, <1>15 DEF DbNext

\* RestoreIsWhole: whatever commands meet, a file whose restore was not cut off has, or
\* is owed, all its triggers, and has no day older than yesterday that the restored
\* backup did not have, unless a refresh wrote it that had looked before the restore.
THEOREM RestoreTheorem == DbSpec => []RestoreIsWhole
<1>1. DbInit => DbTypeOK /\ Kept
  BY TypeInit, KeptInit
<1>2. DbTypeOK /\ Kept /\ [DbNext]_dbVars => DbTypeOK' /\ Kept'
  <2> SUFFICES ASSUME DbTypeOK, Kept, [DbNext]_dbVars
               PROVE  DbTypeOK' /\ Kept'
    OBVIOUS
  <2>1. CASE DbNext
    BY <2>1, TypeStep, KeptStep
  <2>2. CASE UNCHANGED dbVars
    BY <2>2 DEF dbVars, DbTypeOK, Kept, Watched, Marked, Recent, Busy, Files
  <2> QED BY <2>1, <2>2
<1>3. TriggersComeBack /\ RestoredIsTheFile => RestoreIsWhole
  BY DEF RestoreIsWhole
<1> QED BY <1>1, <1>2, <1>3, KeptGives, TriggersTheorem, PTL DEF DbSpec

-----------------------------------------------------------------------------
(* The pool. *)

Opened == {"writing", "dropping", "creating"}

OnePath == dash.pool.idle \subseteq {dash.pool.path}
Held == \A t \in Busy(Opened) : task[t].conn = task[t].path

\* The idle connections are to the file the pool is for, and a command has a connection
\* to the file whose path it returns it with.
PoolInv == OnePath /\ Held

\* get_connection gives a connection to the active file.
LEMMA OfferedIsActive ==
  ASSUME PoolInv, NEW f \in Offered
  PROVE  f = dash.path
BY DEF PoolInv, OnePath, Offered

\* get_connection and release.
LEMMA AcquireKeeps ==
  ASSUME DbTypeOK, PoolInv, NEW t \in Task, NEW r \in Commands, NEW f \in Offered, Acquire(t, r, f)
  PROVE  /\ OnePath' /\ task'[t].conn = f /\ task'[t].path = f
         /\ task'[t].pc = r.pc /\ task'[t].todo = r.todo /\ task'[t].crossed = r.crossed
         /\ task'[t] \in Commands /\ \A u \in Task \ {t} : task'[u] = task[u]
         /\ dash'.path = dash.path /\ dash'.flag = dash.flag /\ dash'.up = dash.up
<1> DEFINE q == [r EXCEPT !.conn = f, !.path = dash.path]
<1>1. f \in Files /\ f = dash.path
  BY OfferedTyped, OfferedIsActive
<1>2. task'[t] = q /\ \A u \in Task \ {t} : task'[u] = task[u]
  BY DEF Acquire, DbTypeOK
<1>3. /\ q \in Commands /\ q.conn = f /\ q.path = f /\ q.pc = r.pc /\ q.todo = r.todo
      /\ q.crossed = r.crossed
  BY <1>1 DEF Commands
<1>4. dash' = [dash EXCEPT !.pool = PoolAfterAcquire(f)]
  BY DEF Acquire
<1>5. dash'.path = dash.path /\ dash'.flag = dash.flag /\ dash'.up = dash.up
  BY <1>4 DEF DbTypeOK
<1>6. dash'.pool = PoolAfterAcquire(f)
  BY <1>4 DEF DbTypeOK
<1>7. OnePath'
  BY <1>6 DEF PoolAfterAcquire, OnePath, PoolInv
<1> HIDE DEF q
<1> QED BY <1>2, <1>3, <1>5, <1>7

LEMMA ReleaseKeeps ==
  ASSUME DbTypeOK, PoolInv, NEW t \in Busy(Opened),
         dash' = [dash EXCEPT !.pool = PoolAfterRelease(task[t].path, task[t].conn)]
  PROVE  OnePath'
<1>1. dash'.pool = PoolAfterRelease(task[t].path, task[t].conn)
  BY DEF DbTypeOK
<1>2. task[t].conn = task[t].path
  BY DEF PoolInv, Held
<1>3. CASE dash.pool.path = task[t].path
  <2>1. dash'.pool = [dash.pool EXCEPT !.idle = @ \cup {task[t].conn}]
    BY <1>1, <1>3 DEF PoolAfterRelease
  <2>2. dash'.pool.path = dash.pool.path /\ dash'.pool.idle = dash.pool.idle \cup {task[t].conn}
    BY <2>1 DEF DbTypeOK
  <2> QED BY <1>2, <1>3, <2>2 DEF OnePath, PoolInv
<1>4. CASE dash.pool.path # task[t].path
  BY <1>1, <1>4 DEF PoolAfterRelease, OnePath, PoolInv
<1> QED BY <1>3, <1>4

\* There is no connection at first.
THEOREM PoolInit == DbInit => PoolInv
BY DEF DbInit, PoolInv, OnePath, Held, Down, Busy

\* The commands that have a connection keep theirs.
LEMMA HeldStays ==
  ASSUME Held, NEW t,
         \A u \in Busy(Opened)' : u # t =>
           u \in Busy(Opened) /\ task'[u].conn = task[u].conn /\ task'[u].path = task[u].path,
         t \in Busy(Opened)' => task'[t].conn = task'[t].path
  PROVE  Held'
BY DEF Held

\* acquire, release and the resets of the pool keep connections and paths together.
LEMMA PoolStep ==
  ASSUME DbTypeOK, PoolInv, DbNext
  PROVE  PoolInv'
<1>1. CASE Open
  <2>1. Held'
    BY <1>1 DEF Open, PoolInv, Held, Busy
  <2>2. dash'.pool.idle = {}
    BY <1>1 DEF Open, Down
  <2> QED BY <2>1, <2>2 DEF PoolInv, OnePath
<1>2. CASE Close
  BY <1>2 DEF Close, PoolInv, OnePath, Held, Busy, Down
<1>3. CASE CleanUp \/ ClearAllData \/ Backup
  BY <1>3 DEF CleanUp, ClearAllData, Backup, PoolInv, OnePath, Held, Busy
\* The other threads stay as they are.
<1>4. ASSUME OnePath', NEW t \in Task, \A u \in Task \ {t} : task'[u] = task[u],
             t \in Busy(Opened)' => task'[t].conn = task'[t].path
      PROVE  PoolInv'
  BY <1>4, HeldStays DEF PoolInv, Busy
<1>5. ASSUME NEW t \in Task, NEW m \in Files, BeginSwitch(t, m)
      PROVE  PoolInv'
  <2>1. dash'.pool = dash.pool
    BY <1>5 DEF BeginSwitch, DbTypeOK
  <2>2. task'[t].pc = "switching"
    BY <1>5 DEF BeginSwitch, NewTask
  <2>3. ASSUME NEW u \in Busy(Opened)', u # t
        PROVE  u \in Busy(Opened) /\ task'[u].conn = task[u].conn /\ task'[u].path = task[u].path
    <3>1. u \in Task /\ task[u] # NoTask
      BY <1>5, <2>3 DEF BeginSwitch, Busy
    <3>2. task[u] \in Commands /\ task'[u] = [task[u] EXCEPT !.crossed = TRUE]
      BY <1>5, <2>3, <3>1 DEF BeginSwitch, DbTypeOK
    <3>3. /\ task'[u].pc = task[u].pc /\ task'[u].conn = task[u].conn
          /\ task'[u].path = task[u].path
      BY <3>2 DEF Commands
    <3> QED BY <2>3, <3>1, <3>3 DEF Busy
  <2>4. t \notin Busy(Opened)'
    BY <2>2 DEF Busy, Opened
  <2> QED BY <2>1, <2>3, <2>4, HeldStays DEF PoolInv, OnePath
<1>6. ASSUME NEW t \in Task, SwitchPath(t) \/ SwitchFlag(t) \/ SwitchPool(t)
      PROVE  PoolInv'
  <2>1. task[t] \in Commands
    BY <1>6, BusyTyped DEF SwitchPath, SwitchFlag, SwitchPool
  <2>2. \A pc : [task[t] EXCEPT !.pc = pc].pc = pc
    BY <2>1 DEF Commands
  <2>3. /\ \A u \in Task \ {t} : task'[u] = task[u]
        /\ task'[t] = NoTask \/ task'[t].pc \in SwitchPcs
    BY <1>6, <2>2 DEF SwitchPath, SwitchFlag, SwitchPool, DbTypeOK, SwitchPcs
  <2>4. t \notin Busy(Opened)'
    BY <2>3 DEF Busy, Opened, SwitchPcs
  <2>5. dash'.pool = dash.pool \/ dash'.pool.idle = {}
    BY <1>6 DEF SwitchPath, SwitchFlag, SwitchPool, DbTypeOK
  <2> QED BY <1>4, <2>3, <2>4, <2>5 DEF OnePath, PoolInv
<1>7. ASSUME NEW t \in Task, NEW only \in BOOLEAN, Load(t, only)
      PROVE  PoolInv'
  <2>1. /\ \A u \in Task \ {t} : task'[u] = task[u]
        /\ task'[t].pc = "loaded"
    BY <1>7 DEF Load, NewTask, DbTypeOK
  <2>2. t \notin Busy(Opened)' /\ OnePath'
    BY <1>7, <2>1 DEF Load, Busy, Opened, PoolInv, OnePath
  <2> QED BY <1>4, <2>1, <2>2
<1>8. ASSUME NEW t \in Task, Look(t) \/ BeginRestore(t)
      PROVE  PoolInv'
  <2>1. PICK r \in Commands, f \in Offered : Acquire(t, r, f)
    <3>1. CASE Look(t)
      <4>1. PICK f \in Offered :
              Acquire(t, [task[t] EXCEPT !.pc = "writing",
                            !.stale = \E u \in Restoring(f) : task[u].pc = "creating",
                            !.todo = IF task[t].only THEN MissingDays(dbFile[f], @) ELSE @], f)
        BY <3>1 DEF Look
      <4> DEFINE items == IF task[t].only THEN MissingDays(dbFile[f], task[t].todo) ELSE task[t].todo
                 st == \E u \in Restoring(f) : task[u].pc = "creating"
      <4>2. task[t] \in Commands
        BY <3>1, BusyTyped DEF Look
      <4>3. items \subseteq Items
        BY <4>2 DEF Commands, MissingDays
      <4>4. [task[t] EXCEPT !.pc = "writing", !.stale = st, !.todo = items] \in Commands
        BY <4>2, <4>3, WriteTyped
      <4> QED BY <4>1, <4>4
    <3>2. CASE BeginRestore(t)
      <4>1. PICK f \in Offered, b \in backups :
              Acquire(t, [NewTask("dropping") EXCEPT !.from = b, !.list = dbFile[f].armed,
                                                    !.left = dbFile[f].armed], f)
        BY <3>2 DEF BeginRestore
      <4>2. dbFile[f].armed \subseteq Triggers /\ b \in DbCopy
        BY <4>1, OfferedTyped DEF DbTypeOK, FileSet
      <4>3. [NewTask("dropping") EXCEPT !.from = b, !.list = dbFile[f].armed,
                                        !.left = dbFile[f].armed] \in Commands
        BY <4>2, NewTaskTyped, RestoreTyped DEF Pcs
      <4> QED BY <4>1, <4>3
    <3> QED BY <1>8, <3>1, <3>2
  <2> QED BY <1>4, <2>1, AcquireKeeps
<1>9. ASSUME NEW t \in Task, Upsert(t)
      PROVE  PoolInv'
  <2>1. task[t] \in Commands /\ t \in Busy(Opened)
    BY <1>9, BusyTyped DEF Upsert, Busy, Opened
  <2>2. PICK i \in task[t].todo : task' = [task EXCEPT ![t].todo = @ \ {i}]
    BY <1>9 DEF Upsert
  <2> DEFINE q == [task[t] EXCEPT !.todo = task[t].todo \ {i}]
  <2>3. task'[t] = q /\ \A u \in Task \ {t} : task'[u] = task[u]
    BY <2>2 DEF DbTypeOK
  <2>4. q.conn = task[t].conn /\ q.path = task[t].path
    BY <2>1 DEF Commands
  <2>5. OnePath'
    BY <1>9 DEF Upsert, PoolInv, OnePath
  <2> HIDE DEF q
  <2> QED BY <1>4, <2>1, <2>3, <2>4, <2>5 DEF PoolInv, Held
<1>10. ASSUME NEW t \in Task, Release(t) \/ EndRestore(t)
       PROVE  PoolInv'
  <2>1. t \in Busy(Opened)
    BY <1>10 DEF Release, EndRestore, Busy, Opened
  <2>2. task'[t] = NoTask /\ \A u \in Task \ {t} : task'[u] = task[u]
    BY <1>10 DEF Release, EndRestore, DbTypeOK
  <2>3. \/ dash' = [dash EXCEPT !.pool = PoolAfterRelease(task[t].path, task[t].conn)]
        \/ dash' = [dash EXCEPT !.pool = [path |-> dash.path, idle |-> {}]]
    BY <1>10 DEF Release, EndRestore
  <2>4. OnePath'
    <3>1. CASE dash' = [dash EXCEPT !.pool = PoolAfterRelease(task[t].path, task[t].conn)]
      BY <2>1, <3>1, ReleaseKeeps
    <3>2. CASE dash' = [dash EXCEPT !.pool = [path |-> dash.path, idle |-> {}]]
      BY <3>2 DEF OnePath, DbTypeOK
    <3> QED BY <2>3, <3>1, <3>2
  <2>5. t \notin Busy(Opened)'
    BY <2>2 DEF Busy
  <2> QED BY <1>4, <2>2, <2>4, <2>5
<1>11. ASSUME NEW t \in Task, DropTrigger(t) \/ RecreateTrigger(t)
       PROVE  PoolInv'
  <2>1. task[t] \in Commands /\ t \in Busy(Opened)
    BY <1>11, BusyTyped DEF DropTrigger, RecreateTrigger, Busy, Opened
  <2>2. PICK k \in task[t].left : task' = [task EXCEPT ![t].left = @ \ {k}]
    BY <1>11 DEF DropTrigger, RecreateTrigger
  <2> DEFINE q == [task[t] EXCEPT !.left = task[t].left \ {k}]
  <2>3. task'[t] = q /\ \A u \in Task \ {t} : task'[u] = task[u]
    BY <2>2 DEF DbTypeOK
  <2>4. q.conn = task[t].conn /\ q.path = task[t].path
    BY <2>1 DEF Commands
  <2>5. OnePath'
    BY <1>11 DEF DropTrigger, RecreateTrigger, PoolInv, OnePath
  <2> HIDE DEF q
  <2> QED BY <1>4, <2>1, <2>3, <2>4, <2>5 DEF PoolInv, Held
<1>12. ASSUME NEW t \in Task, CopyTables(t) \/ CopyFails(t)
       PROVE  PoolInv'
  <2>1. task[t] \in Commands /\ t \in Busy(Opened)
    BY <1>12, BusyTyped DEF CopyTables, CopyFails, Busy, Opened
  <2>2. OnePath'
    BY <1>12 DEF CopyTables, CopyFails, PoolInv, OnePath
  <2>3. task'[t].conn = task[t].conn /\ task'[t].path = task[t].path
    <3>1. CASE CopyTables(t)
      <4>1. task'[t] = [task[t] EXCEPT !.pc = "creating", !.left = task[t].list, !.ok = TRUE]
        BY <3>1 DEF CopyTables
      <4> QED BY <2>1, <4>1 DEF Commands
    <3>2. CASE CopyFails(t)
      <4>1. task'[t] = [task[t] EXCEPT !.pc = "creating", !.left = task[t].list]
        BY <3>2 DEF CopyFails, DbTypeOK
      <4> QED BY <2>1, <4>1 DEF Commands
    <3> QED BY <1>12, <3>1, <3>2
  <2>4. ASSUME NEW u \in Busy(Opened)', u # t
        PROVE  u \in Busy(Opened) /\ task'[u].conn = task[u].conn /\ task'[u].path = task[u].path
    <3>1. u \in Task
      BY <2>4 DEF Busy
    <3>2. CASE task'[u] = task[u]
      BY <2>4, <3>2 DEF Busy
    <3>3. CASE u \in Busy({"writing"}) /\ task'[u] = [task[u] EXCEPT !.stale = TRUE]
      <4>1. u \in Busy(Opened) /\ task[u] \in Commands
        BY <3>3, BusyTyped DEF Busy, Opened
      <4>2. task'[u].conn = task[u].conn /\ task'[u].path = task[u].path
        BY <3>3, <4>1 DEF Commands
      <4> QED BY <4>1, <4>2
    <3> QED BY <1>12, <2>4, <3>1, <3>2, <3>3 DEF CopyTables, CopyFails, DbTypeOK
  <2> QED BY <2>1, <2>2, <2>3, <2>4, HeldStays DEF PoolInv, Held
<1> QED BY <1>1, <1>2, <1>3, <1>5, <1>6, <1>7, <1>8, <1>9, <1>10, <1>11, <1>12 DEF DbNext

-----------------------------------------------------------------------------
(* The days of the other mode. *)

\* A switch that no other has met is alone, and a refresh that no switch has met loads
\* for the mode whose file is active, and writes to it.
AloneInv(t) ==
  /\ Busy(SwitchPcs) = {t}
  /\ task[t].pc # "switching" => dash.path = task[t].to
  /\ task[t].pc = "resetting" => dash.flag = task[t].to

Sound ==
  /\ Switching \/ dash.path = dash.flag
  /\ \A t \in Busy(SwitchPcs) : task[t].crossed \/ AloneInv(t)
  /\ \A t \in Busy({"loaded"}) :
       task[t].crossed \/ (~Switching /\ \A i \in task[t].todo : i[2] = Proper(dash.flag))
  /\ \A t \in Busy({"writing"}) :
       task[t].crossed \/ \A i \in task[t].todo : i[2] = Proper(task[t].conn)

ApartInv ==
  /\ strays \subseteq mixed
  /\ ~dash.up => dash.path = dash.flag /\ \A t \in Task : task[t] = NoTask
  /\ mixed = Files \/ Sound

\* New files hold no day, of no mode.
THEOREM ApartInit == DbInit => ApartInv
<1> SUFFICES ASSUME DbInit PROVE ApartInv
  OBVIOUS
<1>1. \A pcs : Busy(pcs) = {}
  BY DEF DbInit, Busy
<1> QED BY <1>1 DEF DbInit, ApartInv, Sound, Down

\* A thread that is none of the switches and refreshes stays or becomes none of them.
LEMMA SoundStays ==
  ASSUME Sound, UNCHANGED <<dash.path, dash.flag>>,
         Busy(SwitchPcs)' = Busy(SwitchPcs),
         \A t \in Busy(SwitchPcs) :
           /\ task'[t].pc = task[t].pc /\ task'[t].to = task[t].to
           /\ task'[t].crossed = task[t].crossed,
         \A t \in Busy({"loaded"})' :
           t \in Busy({"loaded"}) /\ task'[t].todo = task[t].todo /\ task'[t].crossed = task[t].crossed,
         \A t \in Busy({"writing"})' :
           \/ /\ t \in Busy({"writing"}) /\ task'[t].todo \subseteq task[t].todo
              /\ task'[t].crossed = task[t].crossed /\ task'[t].conn = task[t].conn
           \/ task'[t].crossed \/ \A i \in task'[t].todo : i[2] = Proper(task'[t].conn)
  PROVE  Sound'
<1>1. Switching' = Switching
  BY DEF Switching
<1>2. \A t \in Busy(SwitchPcs) : AloneInv(t) => AloneInv(t)'
  BY DEF AloneInv
<1>3. \A f : Proper(f)' = Proper(f)
  BY DEF Proper
<1>4. \A t \in Busy(SwitchPcs)' : task'[t].crossed \/ AloneInv(t)'
  BY <1>2 DEF Sound
<1>5. \A t \in Busy({"loaded"})' :
        task'[t].crossed \/ (~Switching' /\ \A i \in task'[t].todo : i[2] = Proper(dash'.flag))
  BY <1>1 DEF Sound
<1>6. \A t \in Busy({"writing"})' :
        task'[t].crossed \/ \A i \in task'[t].todo : i[2] = Proper(task'[t].conn)
  BY DEF Sound
<1> QED BY <1>1, <1>3, <1>4, <1>5, <1>6 DEF Sound

\* The thread t goes on, and is no switch.
LEMMA SoundOne ==
  ASSUME Sound, UNCHANGED <<dash.path, dash.flag>>, NEW t \in Task,
         \A u \in Task \ {t} : task'[u] = task[u],
         t \notin Busy(SwitchPcs), t \notin Busy(SwitchPcs)', t \notin Busy({"loaded"})',
         t \in Busy({"writing"})' =>
           \/ /\ t \in Busy({"writing"}) /\ task'[t].todo \subseteq task[t].todo
              /\ task'[t].crossed = task[t].crossed /\ task'[t].conn = task[t].conn
           \/ task'[t].crossed \/ \A i \in task'[t].todo : i[2] = Proper(task'[t].conn)
  PROVE  Sound'
<1>1. \A pcs, u : u # t => (u \in Busy(pcs)' <=> u \in Busy(pcs))
  BY DEF Busy
<1>2. \A pcs : \A u \in Busy(pcs) : u \in Task
  BY DEF Busy
<1>3. \A pcs : \A u \in Busy(pcs)' : u \in Task
  BY DEF Busy
<1>4. Busy(SwitchPcs)' = Busy(SwitchPcs)
  BY <1>1
<1>5. \A u \in Busy(SwitchPcs) :
           /\ task'[u].pc = task[u].pc /\ task'[u].to = task[u].to
           /\ task'[u].crossed = task[u].crossed
  BY <1>2
<1>6. \A u \in Busy({"loaded"})' :
        u \in Busy({"loaded"}) /\ task'[u].todo = task[u].todo /\ task'[u].crossed = task[u].crossed
  BY <1>1, <1>3
<1>7. \A u \in Busy({"writing"})' :
           \/ /\ u \in Busy({"writing"}) /\ task'[u].todo \subseteq task[u].todo
              /\ task'[u].crossed = task[u].crossed /\ task'[u].conn = task[u].conn
           \/ task'[u].crossed \/ \A i \in task'[u].todo : i[2] = Proper(task'[u].conn)
  BY <1>1, <1>3
<1> QED BY <1>4, <1>5, <1>6, <1>7, SoundStays

\* A dashboard that is not up runs no command.
LEMMA UpStep ==
  ASSUME DbTypeOK, ApartInv, DbNext
  PROVE  ~dash'.up => dash'.path = dash'.flag /\ \A t \in Task : task'[t] = NoTask
<1>1. CASE Open
  BY <1>1 DEF Open, Down
<1>2. CASE Close
  BY <1>2 DEF Close, Down
<1>3. CASE CleanUp \/ ClearAllData \/ Backup
  BY <1>3 DEF CleanUp, ClearAllData, Backup
<1>4. ASSUME NEW t \in Task,
             \/ \E m \in Files : BeginSwitch(t, m)
             \/ SwitchPath(t) \/ SwitchFlag(t) \/ SwitchPool(t)
             \/ \E only \in BOOLEAN : Load(t, only)
             \/ Look(t) \/ Upsert(t) \/ Release(t)
             \/ BeginRestore(t) \/ DropTrigger(t) \/ CopyTables(t) \/ CopyFails(t)
             \/ RecreateTrigger(t) \/ EndRestore(t)
      PROVE  dash'.up
  <2>1. dash.up
    <3>1. CASE task[t] = NoTask
      BY <1>4, <3>1 DEF BeginSwitch, SwitchPath, SwitchFlag, SwitchPool, Load, Look, Upsert,
           Release, BeginRestore, DropTrigger, CopyTables, CopyFails, RecreateTrigger,
           EndRestore, Busy
    <3>2. CASE task[t] # NoTask
      BY <3>2, SMTT(30) DEF ApartInv
    <3> QED BY <3>1, <3>2
  <2>2. CASE Load(t, TRUE) \/ Load(t, FALSE) \/ Upsert(t) \/ DropTrigger(t) \/ CopyTables(t)
             \/ CopyFails(t) \/ RecreateTrigger(t)
    BY <2>1, <2>2 DEF Load, Upsert, DropTrigger, CopyTables, CopyFails, RecreateTrigger
  <2>3. CASE \/ \E m \in Files : BeginSwitch(t, m)
             \/ SwitchPath(t) \/ SwitchFlag(t) \/ SwitchPool(t)
    BY <2>1, <2>3 DEF BeginSwitch, SwitchPath, SwitchFlag, SwitchPool, DbTypeOK
  <2>4. CASE Look(t) \/ BeginRestore(t)
    BY <2>1, <2>4 DEF Look, BeginRestore, Acquire, DbTypeOK
  <2>5. CASE Release(t) \/ EndRestore(t)
    BY <2>1, <2>5 DEF Release, EndRestore, DbTypeOK
  <2>6. ASSUME NEW only \in BOOLEAN, Load(t, only)
        PROVE  dash'.up
    BY <2>1, <2>6 DEF Load
  <2> QED BY <1>4, <2>2, <2>3, <2>4, <2>5, <2>6
<1> QED BY <1>1, <1>2, <1>3, <1>4 DEF DbNext

\* What a refresh that no switch has met writes is of the mode of its file.
LEMMA StraysStep ==
  ASSUME DbTypeOK, ApartInv, DbNext
  PROVE  strays' \subseteq mixed'
<1>1. ASSUME NEW t \in Task, Upsert(t)
      PROVE  strays' \subseteq mixed'
  <2>1. task[t] \in Commands /\ t \in Busy({"writing"})
    BY <1>1, BusyTyped DEF Upsert
  <2>2. PICK i \in task[t].todo :
          /\ mixed' = IF task[t].crossed THEN mixed \cup {task[t].conn} ELSE mixed
          /\ strays' = IF i[2] # Proper(task[t].conn) THEN strays \cup {task[t].conn} ELSE strays
    BY <1>1 DEF Upsert
  <2>3. task[t].conn \in Files
    BY <2>1 DEF Commands
  <2>4. CASE task[t].crossed
    BY <2>2, <2>4 DEF ApartInv
  <2>5. CASE mixed = Files
    BY <2>2, <2>3, <2>5 DEF ApartInv
  <2>6. CASE Sound /\ ~task[t].crossed
    BY <2>1, <2>2, <2>6 DEF Sound, ApartInv
  <2> QED BY <2>4, <2>5, <2>6 DEF ApartInv
<1>2. ASSUME NEW t \in Task, SwitchPool(t)
      PROVE  strays' \subseteq mixed'
  BY <1>2 DEF SwitchPool, ApartInv, DbTypeOK
<1>3. CASE UNCHANGED <<strays, mixed>>
  BY <1>3 DEF ApartInv
<1>4. CASE Open \/ Close \/ CleanUp \/ ClearAllData \/ Backup
  BY <1>3, <1>4 DEF Open, Close, CleanUp, ClearAllData, Backup
<1>5. ASSUME NEW t \in Task, NEW m \in Files, BeginSwitch(t, m)
      PROVE  strays' \subseteq mixed'
  BY <1>3, <1>5 DEF BeginSwitch
<1>6. ASSUME NEW t \in Task, NEW only \in BOOLEAN, Load(t, only)
      PROVE  strays' \subseteq mixed'
  BY <1>3, <1>6, SMTT(30) DEF Load
<1>7. ASSUME NEW t \in Task,
             \/ SwitchPath(t) \/ SwitchFlag(t) \/ Look(t) \/ Release(t)
             \/ BeginRestore(t) \/ DropTrigger(t) \/ CopyTables(t) \/ CopyFails(t)
             \/ RecreateTrigger(t) \/ EndRestore(t)
      PROVE  strays' \subseteq mixed'
  BY <1>3, <1>7 DEF SwitchPath, SwitchFlag, Look, Release, BeginRestore, DropTrigger,
       CopyTables, CopyFails, RecreateTrigger, EndRestore
<1> QED BY <1>1, <1>2, <1>4, <1>5, <1>6, <1>7 DEF DbNext

\* No file is ever unmarked.
LEMMA MixedGrows ==
  ASSUME DbTypeOK, DbNext
  PROVE  mixed \subseteq mixed'
<1>1. CASE Open \/ Close \/ CleanUp \/ ClearAllData \/ Backup
  BY <1>1 DEF Open, Close, CleanUp, ClearAllData, Backup
<1>2. ASSUME NEW t \in Task, NEW m \in Files, BeginSwitch(t, m)
      PROVE  mixed \subseteq mixed'
  BY <1>2 DEF BeginSwitch
<1>3. ASSUME NEW t \in Task, NEW only \in BOOLEAN, Load(t, only)
      PROVE  mixed \subseteq mixed'
  BY <1>3 DEF Load
<1>4. ASSUME NEW t \in Task, SwitchPool(t) \/ Upsert(t)
      PROVE  mixed \subseteq mixed'
  BY <1>4 DEF SwitchPool, Upsert, DbTypeOK
<1>5. ASSUME NEW t \in Task,
             \/ SwitchPath(t) \/ SwitchFlag(t) \/ Look(t) \/ Release(t)
             \/ BeginRestore(t) \/ DropTrigger(t) \/ CopyTables(t) \/ CopyFails(t)
             \/ RecreateTrigger(t) \/ EndRestore(t)
      PROVE  mixed \subseteq mixed'
  BY <1>5 DEF SwitchPath, SwitchFlag, Look, Release, BeginRestore, DropTrigger,
       CopyTables, CopyFails, RecreateTrigger, EndRestore
<1> QED BY <1>1, <1>2, <1>3, <1>4, <1>5 DEF DbNext

\* The order of path, flag and pool in set_demo_mode, against the order of flag and
\* path in a refresh.
LEMMA SoundStep ==
  ASSUME DbTypeOK, PoolInv, ApartInv, Sound, DbNext
  PROVE  mixed' = Files \/ Sound'
<1>1. CASE Open
  <2>1. \A t \in Task : task[t] = NoTask
    BY <1>1 DEF Open, ApartInv
  <2>2. \A pcs : Busy(pcs)' = {}
    BY <1>1, <2>1 DEF Open, Busy
  <2>3. dash'.path = dash'.flag
    BY <1>1 DEF Open, Down
  <2> QED BY <2>2, <2>3 DEF Sound
<1>2. CASE Close
  <2>1. \A pcs : Busy(pcs)' = {}
    BY <1>2 DEF Close, Busy
  <2> QED BY <1>2, <2>1 DEF Close, Sound, Down
<1>3. CASE CleanUp \/ ClearAllData \/ Backup
  <2>1. UNCHANGED <<task, dash>>
    BY <1>3 DEF CleanUp, ClearAllData, Backup
  <2> QED BY <2>1 DEF Sound, Switching, Busy, AloneInv, Proper
<1>4. ASSUME NEW t \in Task, NEW m \in Files, BeginSwitch(t, m)
      PROVE  Sound'
  <2>1. /\ task[t] = NoTask /\ task'[t].pc = "switching" /\ (task'[t].crossed <=> Switching)
        /\ task'[t] # NoTask
    <3>1. task'[t] = [NewTask("switching") EXCEPT !.to = m, !.crossed = Switching] /\ task[t] = NoTask
      BY <1>4 DEF BeginSwitch
    <3>2. [NewTask("switching") EXCEPT !.to = m, !.crossed = Switching] \in Commands
      BY NewTaskTyped, SwitchTyped DEF Pcs, SwitchPcs, Switching
    <3> QED BY <3>1, <3>2, DbAssumption DEF NewTask
  <2>2. ASSUME NEW u \in Task \ {t}, task[u] # NoTask
        PROVE  /\ task'[u].pc = task[u].pc /\ task'[u].crossed /\ task'[u] # NoTask
    <3>1. task[u] \in Commands /\ task'[u] = [task[u] EXCEPT !.crossed = TRUE]
      BY <1>4, <2>2 DEF BeginSwitch, DbTypeOK
    <3>2. task'[u] \in Commands /\ task'[u].crossed = TRUE /\ task'[u].pc = task[u].pc
      BY <3>1, CrossedTyped
    <3> QED BY <3>2, DbAssumption
  <2>3. ASSUME NEW u \in Task \ {t}, task[u] = NoTask
        PROVE  task'[u] = NoTask
    BY <1>4, <2>3 DEF BeginSwitch
  <2>4. t \in Busy(SwitchPcs)'
    BY <2>1 DEF Busy, SwitchPcs
  <2>5. ASSUME NEW pcs, NEW u \in Busy(pcs)', u # t
        PROVE  task'[u].crossed /\ u \in Busy(pcs)
    <3>1. u \in Task /\ task'[u] # NoTask /\ task'[u].pc \in pcs
      BY <2>5 DEF Busy
    <3>2. task[u] # NoTask
      BY <2>3, <2>5, <3>1
    <3> QED BY <2>2, <2>5, <3>1, <3>2 DEF Busy
  <2>6. t \notin Busy({"loaded"})' /\ t \notin Busy({"writing"})'
    BY <2>1 DEF Busy
  <2>7. ASSUME ~task'[t].crossed
        PROVE  AloneInv(t)'
    <3>1. Busy(SwitchPcs) = {}
      BY <2>1, <2>7 DEF Switching
    <3>2. Busy(SwitchPcs)' = {t}
      BY <2>4, <2>5, <3>1
    <3> QED BY <2>1, <3>2 DEF AloneInv
  <2> QED BY <2>4, <2>5, <2>6, <2>7 DEF Sound, Switching
\* A switch goes on.
<1>5. ASSUME NEW t \in Task, NEW pc \in {"flagging", "resetting"},
             task' = [task EXCEPT ![t].pc = pc], t \in Busy(SwitchPcs),
             task[t].crossed \/ AloneInv(t)'
      PROVE  Sound'
  <2>1. task[t] \in Commands
    BY <1>5, BusyTyped
  <2> DEFINE q == [task[t] EXCEPT !.pc = pc]
  <2>2. task' = [task EXCEPT ![t] = q]
    BY <1>5
  <2>3. q.pc = pc /\ q.to = task[t].to /\ q.crossed = task[t].crossed /\ q \in Commands
    BY <2>1 DEF Commands, Pcs, SwitchPcs
  <2> HIDE DEF q
  <2>4. task'[t] = q /\ \A u \in Task \ {t} : task'[u] = task[u]
    BY <2>2 DEF DbTypeOK
  <2>5. \A u, pcs : u # t => (u \in Busy(pcs)' <=> u \in Busy(pcs))
    BY <2>4 DEF Busy
  <2>6. t \in Busy(SwitchPcs)' /\ t \notin Busy({"loaded"})' /\ t \notin Busy({"writing"})'
    BY <2>3, <2>4, DbAssumption DEF Busy, SwitchPcs
  <2>7. Switching /\ Switching' /\ Busy(SwitchPcs)' = Busy(SwitchPcs)
    BY <1>5, <2>5, <2>6 DEF Switching
  <2>8. \A u \in Busy(SwitchPcs) : u # t => task[u].crossed /\ task'[u] = task[u]
    BY <1>5, <2>4 DEF Sound, AloneInv, Busy
  <2>9. \A u \in Busy(SwitchPcs)' : task'[u].crossed \/ AloneInv(u)'
    BY <1>5, <2>3, <2>4, <2>7, <2>8
  <2>10. \A u \in Busy({"loaded"})' : task'[u].crossed
    BY <2>4, <2>5, <2>6, <2>7 DEF Sound, Busy
  <2>11. \A u \in Busy({"writing"})' :
           task'[u].crossed \/ \A i \in task'[u].todo : i[2] = Proper(task'[u].conn)
    BY <2>4, <2>5, <2>6 DEF Sound, Busy
  <2> QED BY <2>7, <2>9, <2>10, <2>11 DEF Sound, Proper
<1>6. ASSUME NEW t \in Task, SwitchPath(t)
      PROVE  Sound'
  <2>1. t \in Busy(SwitchPcs) /\ task[t] \in Commands
    BY <1>6, BusyTyped DEF SwitchPath, Busy, SwitchPcs
  <2>2. task' = [task EXCEPT ![t].pc = "flagging"] /\ dash'.path = task[t].to
    BY <1>6 DEF SwitchPath, DbTypeOK
  <2>3. task'[t].to = task[t].to /\ task'[t].pc = "flagging"
    BY <2>1, <2>2 DEF DbTypeOK, Commands
  <2>4. ASSUME AloneInv(t)
        PROVE  AloneInv(t)'
    <3>1. \A u \in Task \ {t} : task'[u] = task[u]
      BY <2>2 DEF DbTypeOK
    <3>2. task'[t] # NoTask
      <4>1. task'[t] = [task[t] EXCEPT !.pc = "flagging"]
        BY <2>2 DEF DbTypeOK
      <4>2. [task[t] EXCEPT !.pc = "flagging"] \in Commands
        BY <2>1, PcTyped DEF Pcs, SwitchPcs
      <4> QED BY <4>1, <4>2, DbAssumption
    <3>3. Busy(SwitchPcs)' = {t}
      BY <2>3, <2>4, <3>1, <3>2 DEF AloneInv, Busy, SwitchPcs
    <3> QED BY <2>2, <2>3, <3>3 DEF AloneInv
  <2>5. task[t].crossed \/ AloneInv(t)'
    BY <2>1, <2>4 DEF Sound
  <2> QED BY <1>5, <2>1, <2>2, <2>5
<1>7. ASSUME NEW t \in Task, SwitchFlag(t)
      PROVE  Sound'
  <2>1. t \in Busy(SwitchPcs) /\ task[t] \in Commands /\ task[t].pc = "flagging"
    BY <1>7, BusyTyped DEF SwitchFlag, Busy, SwitchPcs
  <2>2. /\ task' = [task EXCEPT ![t].pc = "resetting"] /\ dash'.flag = task[t].to
        /\ dash'.path = dash.path
    BY <1>7 DEF SwitchFlag, DbTypeOK
  <2>3. task'[t].to = task[t].to /\ task'[t].pc = "resetting"
    BY <2>1, <2>2 DEF DbTypeOK, Commands
  <2>4. ASSUME AloneInv(t)
        PROVE  AloneInv(t)'
    <3>1. \A u \in Task \ {t} : task'[u] = task[u]
      BY <2>2 DEF DbTypeOK
    <3>2. task'[t] # NoTask
      <4>1. task'[t] = [task[t] EXCEPT !.pc = "resetting"]
        BY <2>2 DEF DbTypeOK
      <4>2. [task[t] EXCEPT !.pc = "resetting"] \in Commands
        BY <2>1, PcTyped DEF Pcs, SwitchPcs
      <4> QED BY <4>1, <4>2, DbAssumption
    <3>3. Busy(SwitchPcs)' = {t}
      BY <2>3, <2>4, <3>1, <3>2 DEF AloneInv, Busy, SwitchPcs
    <3> QED BY <2>1, <2>2, <2>3, <2>4, <3>3 DEF AloneInv
  <2>5. task[t].crossed \/ AloneInv(t)'
    BY <2>1, <2>4 DEF Sound
  <2> QED BY <1>5, <2>1, <2>2, <2>5
<1>8. ASSUME NEW t \in Task, SwitchPool(t)
      PROVE  mixed' = Files \/ Sound'
  <2>1. t \in Busy(SwitchPcs) /\ task[t].pc = "resetting"
    BY <1>8 DEF SwitchPool, Busy, SwitchPcs
  <2>2. CASE task[t].crossed
    BY <1>8, <2>2 DEF SwitchPool
  <2>3. CASE ~task[t].crossed
    <3>1. Busy(SwitchPcs) = {t} /\ dash.path = dash.flag
      BY <2>1, <2>3 DEF Sound, AloneInv
    <3>2. /\ task'[t] = NoTask /\ \A u \in Task \ {t} : task'[u] = task[u]
          /\ dash'.path = dash.path /\ dash'.flag = dash.flag
      BY <1>8 DEF SwitchPool, DbTypeOK
    <3>3. \A pcs, u : u \in Busy(pcs)' => u # t /\ u \in Busy(pcs) /\ task'[u] = task[u]
      BY <3>2 DEF Busy
    <3>4. ~Switching'
      BY <3>1, <3>3 DEF Switching
    <3>5. Switching
      BY <3>1 DEF Switching
    <3>6. \A u \in Busy({"loaded"})' : task'[u].crossed
      BY <3>3, <3>5 DEF Sound
    <3>7. \A u \in Busy({"writing"})' :
            task'[u].crossed \/ \A i \in task'[u].todo : i[2] = Proper(task'[u].conn)
      BY <3>3 DEF Sound
    <3>8. Busy(SwitchPcs)' = {}
      BY <3>1, <3>3
    <3> QED BY <3>1, <3>2, <3>4, <3>6, <3>7, <3>8 DEF Sound, Proper
  <2> QED BY <2>2, <2>3
<1>9. ASSUME NEW t \in Task, NEW only \in BOOLEAN, Load(t, only)
      PROVE  Sound'
  <2> DEFINE items == IF only THEN (1..Today) \X {"tracked"} ELSE {<<Today, Proper(dash.flag)>>}
             q == [NewTask("loaded") EXCEPT !.only = only, !.crossed = Switching, !.todo = items]
  <2>1. task' = [task EXCEPT ![t] = q] /\ task[t] = NoTask /\ UNCHANGED dash
    BY <1>9 DEF Load
  <2>2. q.pc = "loaded" /\ q.todo = items /\ (q.crossed <=> Switching)
    BY DEF NewTask
  <2>3. \A i \in items : i[2] = Proper(dash.flag)
    <3>1. CASE only
      <4>1. Proper(dash.flag) = "tracked"
        BY <1>9, <3>1 DEF Load, Proper
      <4>2. \A i \in (1..Today) \X {"tracked"} : i[2] = "tracked"
        OBVIOUS
      <4> QED BY <3>1, <4>1, <4>2
    <3>2. CASE ~only
      BY <3>2
    <3> QED BY <3>1, <3>2
  <2> HIDE DEF q, items
  <2>4. task'[t] = q /\ \A u \in Task \ {t} : task'[u] = task[u]
    BY <2>1 DEF DbTypeOK
  <2>5. \A u, pcs : u # t => (u \in Busy(pcs)' <=> u \in Busy(pcs))
    BY <2>4 DEF Busy
  <2>6. /\ \A pcs : t \notin Busy(pcs)
        /\ t \notin Busy(SwitchPcs)' /\ t \notin Busy({"writing"})'
    BY <2>1, <2>2, <2>4 DEF Busy, SwitchPcs
  <2>7. Busy(SwitchPcs)' = Busy(SwitchPcs) /\ (Switching' <=> Switching)
    BY <2>5, <2>6 DEF Switching
  <2>8. \A u, pcs : u \in Busy(pcs)' /\ u # t => u \in Busy(pcs) /\ task'[u] = task[u]
    BY <2>4, <2>5 DEF Busy
  <2>9. \A u \in Busy(SwitchPcs)' : task'[u].crossed \/ AloneInv(u)'
    <3>1. \A u \in Busy(SwitchPcs) : task'[u] = task[u]
      BY <2>6, <2>7, <2>8
    <3> QED BY <2>1, <2>7, <3>1 DEF Sound, AloneInv
  <2>10. \A u \in Busy({"loaded"})' :
           task'[u].crossed \/ (~Switching' /\ \A i \in task'[u].todo : i[2] = Proper(dash'.flag))
    BY <2>1, <2>2, <2>3, <2>4, <2>7, <2>8 DEF Sound
  <2>11. \A u \in Busy({"writing"})' :
           task'[u].crossed \/ \A i \in task'[u].todo : i[2] = Proper(task'[u].conn)
    BY <2>6, <2>8 DEF Sound
  <2> QED BY <2>1, <2>7, <2>9, <2>10, <2>11 DEF Sound, Proper
<1>10. ASSUME NEW t \in Task, Look(t)
       PROVE  Sound'
  <2>1. PICK f \in Offered :
          Acquire(t, [task[t] EXCEPT !.pc = "writing",
                        !.stale = \E u \in Restoring(f) : task[u].pc = "creating",
                        !.todo = IF task[t].only THEN MissingDays(dbFile[f], @) ELSE @], f)
    BY <1>10 DEF Look
  <2> DEFINE items == IF task[t].only THEN MissingDays(dbFile[f], task[t].todo) ELSE task[t].todo
             st == \E u \in Restoring(f) : task[u].pc = "creating"
             q == [task[t] EXCEPT !.pc = "writing", !.stale = st, !.todo = items]
  <2>2. task[t] \in Commands /\ task[t].pc = "loaded" /\ t \in Busy({"loaded"})
    BY <1>10, BusyTyped DEF Look
  <2>3. items \subseteq task[t].todo /\ items \subseteq Items
    BY <2>2 DEF Commands, MissingDays
  <2>4. q \in Commands
    BY <2>2, <2>3, WriteTyped
  <2>5. q.pc = "writing" /\ q.todo = items /\ q.crossed = task[t].crossed
    BY <2>2 DEF Commands
  <2>6. Acquire(t, q, f)
    BY <2>1
  <2> HIDE DEF q, items, st
  <2>7. /\ task'[t].conn = f /\ task'[t].pc = "writing" /\ task'[t].todo = items
        /\ task'[t].crossed = task[t].crossed /\ \A u \in Task \ {t} : task'[u] = task[u]
        /\ dash'.path = dash.path /\ dash'.flag = dash.flag
    BY <2>4, <2>5, <2>6, AcquireKeeps
  <2>8. f = dash.path
    BY OfferedIsActive
  <2>9. task'[t].crossed \/ \A i \in task'[t].todo : i[2] = Proper(task'[t].conn)
    BY <2>2, <2>3, <2>7, <2>8 DEF Sound
  <2>10. t \notin Busy(SwitchPcs) /\ t \notin Busy(SwitchPcs)' /\ t \notin Busy({"loaded"})'
    BY <2>2, <2>7 DEF Busy, SwitchPcs
  <2> QED BY <2>7, <2>9, <2>10, SoundOne
<1>11. ASSUME NEW t \in Task, Upsert(t)
       PROVE  Sound'
  <2>1. task[t] \in Commands /\ task[t].pc = "writing" /\ t \in Busy({"writing"})
    BY <1>11, BusyTyped DEF Upsert
  <2>2. PICK i \in task[t].todo : task' = [task EXCEPT ![t].todo = @ \ {i}]
    BY <1>11 DEF Upsert
  <2> DEFINE q == [task[t] EXCEPT !.todo = task[t].todo \ {i}]
  <2>3. task'[t] = q /\ \A u \in Task \ {t} : task'[u] = task[u]
    BY <2>2 DEF DbTypeOK
  <2>4. /\ q.pc = "writing" /\ q.conn = task[t].conn /\ q.crossed = task[t].crossed
        /\ q.todo \subseteq task[t].todo
    BY <2>1 DEF Commands
  <2>5. UNCHANGED dash
    BY <1>11 DEF Upsert
  <2> HIDE DEF q
  <2>6. t \notin Busy(SwitchPcs) /\ t \notin Busy(SwitchPcs)' /\ t \notin Busy({"loaded"})'
    BY <2>1, <2>3, <2>4 DEF Busy, SwitchPcs
  <2> QED BY <2>1, <2>3, <2>4, <2>5, <2>6, SoundOne
\* A thread whose command is a restore, or ends, or becomes a restore.
<1>12. ASSUME NEW t \in Task, \A u \in Task \ {t} : task'[u] = task[u],
              UNCHANGED <<dash.path, dash.flag>>,
              task[t] = NoTask \/ task[t].pc \in Opened,
              task'[t] = NoTask \/ task'[t].pc \in {"dropping", "creating"}
       PROVE  Sound'
  <2>1. t \notin Busy(SwitchPcs)
    BY <1>12 DEF Busy, SwitchPcs, Opened
  <2>2. /\ t \notin Busy(SwitchPcs)' /\ t \notin Busy({"loaded"})'
        /\ t \notin Busy({"writing"})'
    BY <1>12 DEF Busy, SwitchPcs
  <2> QED BY <1>12, <2>1, <2>2, SoundOne
<1>13. ASSUME NEW t \in Task, Release(t) \/ EndRestore(t)
       PROVE  Sound'
  <2>1. task[t].pc \in Opened
    BY <1>13, BusyTyped DEF Release, EndRestore, Opened
  <2>2. task'[t] = NoTask /\ \A u \in Task \ {t} : task'[u] = task[u]
    BY <1>13 DEF Release, EndRestore, DbTypeOK
  <2>3. dash'.path = dash.path /\ dash'.flag = dash.flag
    BY <1>13 DEF Release, EndRestore, DbTypeOK
  <2> QED BY <1>12, <2>1, <2>2, <2>3
<1>14. ASSUME NEW t \in Task, BeginRestore(t)
       PROVE  Sound'
  <2>1. PICK f \in Offered, b \in backups :
          Acquire(t, [NewTask("dropping") EXCEPT !.from = b, !.list = dbFile[f].armed,
                                                !.left = dbFile[f].armed], f)
    BY <1>14 DEF BeginRestore
  <2> DEFINE q == [NewTask("dropping") EXCEPT !.from = b, !.list = dbFile[f].armed,
                                              !.left = dbFile[f].armed]
  <2>2. dbFile[f].armed \subseteq Triggers /\ b \in DbCopy
    BY <2>1, OfferedTyped DEF DbTypeOK, FileSet
  <2>3. q \in Commands
    BY <2>2, NewTaskTyped, RestoreTyped DEF Pcs
  <2>4. q.pc = "dropping"
    BY DEF NewTask
  <2>5. Acquire(t, q, f)
    BY <2>1
  <2> HIDE DEF q
  <2>6. /\ task'[t].pc = "dropping" /\ \A u \in Task \ {t} : task'[u] = task[u]
        /\ dash'.path = dash.path /\ dash'.flag = dash.flag
    BY <2>3, <2>4, <2>5, AcquireKeeps
  <2> QED BY <1>12, <1>14, <2>6 DEF BeginRestore
<1>15. ASSUME NEW t \in Task, DropTrigger(t) \/ RecreateTrigger(t)
       PROVE  Sound'
  <2>1. task[t] \in Commands /\ task[t].pc \in {"dropping", "creating"}
    BY <1>15, BusyTyped DEF DropTrigger, RecreateTrigger
  <2>2. PICK k \in task[t].left : task' = [task EXCEPT ![t].left = @ \ {k}]
    BY <1>15 DEF DropTrigger, RecreateTrigger
  <2> DEFINE q == [task[t] EXCEPT !.left = task[t].left \ {k}]
  <2>3. task'[t] = q /\ \A u \in Task \ {t} : task'[u] = task[u]
    BY <2>2 DEF DbTypeOK
  <2>4. q.pc = task[t].pc
    BY <2>1 DEF Commands
  <2>5. UNCHANGED dash
    BY <1>15 DEF DropTrigger, RecreateTrigger
  <2> HIDE DEF q
  <2> QED BY <1>12, <2>1, <2>3, <2>4, <2>5 DEF Opened
<1>16. ASSUME NEW t \in Task, CopyFails(t)
       PROVE  Sound'
  <2>1. task[t] \in Commands /\ task[t].pc = "dropping"
    BY <1>16, BusyTyped DEF CopyFails
  <2> DEFINE q == [task[t] EXCEPT !.pc = "creating", !.left = task[t].list]
  <2>2. /\ task'[t] = q /\ \A u \in Task \ {t} : task'[u] = task[u]
        /\ UNCHANGED dash
    BY <1>16 DEF CopyFails, DbTypeOK
  <2>3. q.pc = "creating"
    BY <2>1 DEF Commands
  <2> HIDE DEF q
  <2> QED BY <1>12, <2>1, <2>2, <2>3 DEF Opened
<1>17. ASSUME NEW t \in Task, CopyTables(t)
       PROVE  Sound'
  <2>1. task[t] \in Commands /\ task[t].pc = "dropping"
    BY <1>17, BusyTyped DEF CopyTables
  <2>2. task'[t] = [task[t] EXCEPT !.pc = "creating", !.left = task[t].list, !.ok = TRUE]
    BY <1>17 DEF CopyTables
  <2>3. task'[t].pc = "creating"
    BY <2>1, <2>2 DEF Commands
  <2>4. ASSUME NEW u \in Task \ {t}
        PROVE  \/ task'[u] = task[u]
               \/ /\ u \in Busy({"writing"}) /\ task'[u].pc = task[u].pc
                  /\ task'[u].todo = task[u].todo /\ task'[u].conn = task[u].conn
                  /\ task'[u].crossed = task[u].crossed
    <3>1. CASE u \in Busy({"writing"}) /\ task[u].conn = task[t].conn
      <4>1. task'[u] = [task[u] EXCEPT !.stale = TRUE] /\ task[u] \in Commands
        BY <1>17, <3>1, BusyTyped DEF CopyTables
      <4> QED BY <3>1, <4>1 DEF Commands
    <3>2. CASE ~(u \in Busy({"writing"}) /\ task[u].conn = task[t].conn)
      BY <1>17, <3>2 DEF CopyTables
    <3> QED BY <3>1, <3>2
  <2>5. t \notin Busy(SwitchPcs) /\ \A pcs : t \in Busy(pcs)' => "creating" \in pcs
    BY <2>1, <2>3 DEF Busy, SwitchPcs
  <2>6. Busy(SwitchPcs)' = Busy(SwitchPcs) /\ \A u \in Busy(SwitchPcs) : task'[u] = task[u]
    <3>1. ASSUME NEW u \in Busy(SwitchPcs)
          PROVE  task'[u] = task[u] /\ u \in Busy(SwitchPcs)'
      <4>1. u \in Task \ {t} /\ u \notin Busy({"writing"})
        BY <2>5, <3>1 DEF Busy, SwitchPcs
      <4> QED BY <2>4, <3>1, <4>1 DEF Busy
    <3>2. ASSUME NEW u \in Busy(SwitchPcs)'
          PROVE  u \in Busy(SwitchPcs)
      <4>1. u \in Task \ {t} /\ task'[u] # NoTask /\ task'[u].pc \in SwitchPcs
        BY <2>3, <3>2 DEF Busy, SwitchPcs
      <4> QED BY <2>4, <4>1 DEF Busy
    <3> QED BY <3>1, <3>2
  <2>7. ASSUME NEW u \in Busy({"loaded"})'
        PROVE  u \in Busy({"loaded"}) /\ task'[u] = task[u]
    <3>1. u \in Task \ {t} /\ task'[u] # NoTask /\ task'[u].pc = "loaded"
      BY <2>3, <2>7 DEF Busy
    <3>2. u \in Busy({"writing"}) => task[u].pc = "writing"
      BY DEF Busy
    <3> QED BY <2>4, <3>1, <3>2 DEF Busy
  <2>8. ASSUME NEW u \in Busy({"writing"})'
        PROVE  /\ u \in Busy({"writing"}) /\ task'[u].todo \subseteq task[u].todo
               /\ task'[u].crossed = task[u].crossed /\ task'[u].conn = task[u].conn
    <3>1. u \in Task \ {t} /\ task'[u] # NoTask /\ task'[u].pc = "writing"
      BY <2>3, <2>8 DEF Busy
    <3> QED BY <2>4, <3>1 DEF Busy
  <2>9. UNCHANGED dash
    BY <1>17 DEF CopyTables
  <2> QED BY <2>6, <2>7, <2>8, <2>9, SoundStays
<1> QED BY <1>1, <1>2, <1>3, <1>4, <1>6, <1>7, <1>8, <1>9, <1>10, <1>11, <1>13, <1>14,
           <1>15, <1>16, <1>17 DEF DbNext

\* ModesStayApart: a command returns its connection to the pool of the file that it is
\* for, and days of the wrong mode reach a file only through a refresh that a switch met,
\* whatever other commands do in between.
THEOREM ModesTheorem == DbSpec => []ModesStayApart
<1> DEFINE Inv == DbTypeOK /\ PoolInv /\ ApartInv
<1>1. DbInit => Inv
  BY TypeInit, PoolInit, ApartInit
<1>2. Inv /\ [DbNext]_dbVars => Inv'
  <2> SUFFICES ASSUME Inv, [DbNext]_dbVars
               PROVE  Inv'
    OBVIOUS
  <2>1. CASE DbNext
    <3>1. DbTypeOK' /\ PoolInv'
      BY <2>1, TypeStep, PoolStep
    <3>2. mixed' = Files \/ Sound'
      <4>1. mixed = Files => mixed' = Files
        BY <2>1, <3>1, MixedGrows DEF DbTypeOK, Files
      <4>2. Sound => mixed' = Files \/ Sound'
        BY <2>1, SoundStep
      <4> QED BY <4>1, <4>2 DEF ApartInv
    <3>3. Files' = Files
      BY DEF Files
    <3> QED BY <2>1, <3>1, <3>2, <3>3, UpStep, StraysStep DEF ApartInv
  <2>2. CASE UNCHANGED dbVars
    BY <2>2 DEF dbVars, DbTypeOK, PoolInv, OnePath, Held, ApartInv, Sound, AloneInv,
         Switching, Busy, Files, Proper
  <2> QED BY <2>1, <2>2
<1>3. Inv => ModesStayApart
  BY DEF PoolInv, Held, Opened, ApartInv, ModesStayApart
<1> QED BY <1>1, <1>2, <1>3, PTL DEF DbSpec

-----------------------------------------------------------------------------
(* Archive: counting up, and what a recursion over a list computes. *)

CountsDown == {p \in Nat \X Nat : p[1] < p[2]}

\* What holds of 0, and of every number if it holds of the one before, holds of all of them.
LEMMA Counting ==
  ASSUME NEW N \in Nat, NEW S, 0 \in S, \A n \in 1..N : n - 1 \in S => n \in S
  PROVE  \A n \in 0..N : n \in S
<1> DEFINE Fails == (0..N) \ S
<1> SUFFICES ASSUME Fails # {} PROVE FALSE
  OBVIOUS
<1>1. IsWellFoundedOn(CountsDown, Nat)
  <2>1. CountsDown = OpToRel(<, Nat)
    BY DEF CountsDown, OpToRel
  <2> QED BY <2>1, NatLessThanWellFounded
<1>2. PICK k \in Fails : \A j \in Fails : <<j, k>> \notin CountsDown
  <2>1. Fails \subseteq Nat
    OBVIOUS
  <2> QED BY <1>1, <2>1, WFMin
<1>3. k \in 1..N /\ k \notin S
  OBVIOUS
<1>4. k - 1 \in 0..N /\ <<k - 1, k>> \in CountsDown
  BY <1>3 DEF CountsDown
<1>5. k - 1 \in S
  BY <1>2, <1>4
<1> QED BY <1>3, <1>5

\* A recursion along the numbers up to N with the step G.
Runs(f, N, b, G) == f[0] = b /\ \A n \in 1..N : f[n] = G[<<f[n - 1], n>>]

LEMMA Recursion ==
  ASSUME NEW N \in Nat, NEW D, NEW b \in D, NEW G \in [D \X (1..N) -> D]
  PROVE  \E f \in [0..N -> D] : Runs(f, N, b, G)
<1> DEFINE S == {n \in 0..N : \E f \in [0..n -> D] : Runs(f, n, b, G)}
<1>1. 0 \in S
  <2> DEFINE f == [n \in 0..0 |-> b]
  <2>1. f \in [0..0 -> D] /\ f[0] = b /\ 1..0 = {}
    OBVIOUS
  <2>2. Runs(f, 0, b, G)
    BY <2>1 DEF Runs
  <2> QED BY <2>1, <2>2
<1>2. ASSUME NEW n \in 1..N, n - 1 \in S
      PROVE  n \in S
  <2>1. PICK f \in [0..(n - 1) -> D] : Runs(f, n - 1, b, G)
    BY <1>2
  <2>2. n - 1 \in 0..(n - 1) /\ f[n - 1] \in D /\ <<f[n - 1], n>> \in D \X (1..N)
    OBVIOUS
  <2> DEFINE v == G[<<f[n - 1], n>>]
             g == [k \in 0..n |-> IF k = n THEN v ELSE f[k]]
  <2>3. v \in D
    BY <2>2
  <2>4. \A k \in 0..n : k # n => k \in 0..(n - 1)
    OBVIOUS
  <2> HIDE DEF v
  <2>5. g \in [0..n -> D] /\ g[n] = v /\ \A k \in 0..(n - 1) : g[k] = f[k]
    BY <2>3, <2>4
  <2> HIDE DEF g
  <2>6. g[0] = b
    BY <2>1, <2>5 DEF Runs
  <2>7. ASSUME NEW k \in 1..n
        PROVE  g[k] = G[<<g[k - 1], k>>]
    <3>1. k - 1 \in 0..(n - 1) /\ g[k - 1] = f[k - 1]
      BY <2>5
    <3>2. CASE k = n
      BY <2>5, <3>1, <3>2 DEF v
    <3>3. CASE k # n
      <4>1. k \in 1..(n - 1) /\ k \in 0..(n - 1)
        BY <3>3
      <4>2. g[k] = f[k] /\ f[k] = G[<<f[k - 1], k>>]
        BY <2>1, <2>5, <4>1 DEF Runs
      <4> QED BY <3>1, <4>2
    <3> QED BY <3>2, <3>3
  <2>8. Runs(g, n, b, G)
    BY <2>6, <2>7 DEF Runs
  <2> QED BY <2>5, <2>8
<1>3. N \in S
  <2> HIDE DEF S
  <2>1. \A n \in 0..N : n \in S
    BY <1>1, <1>2, Counting
  <2> QED BY <2>1
<1> QED BY <1>3

-----------------------------------------------------------------------------
(* Archive: tombstones. *)

LEMMA RecordedKeeps ==
  ASSUME NEW own \in Seq(ArcTomb), NEW t \in ArcTomb
  PROVE  RecordTomb(own, t) \in Seq(ArcTomb) /\ ToSet(RecordTomb(own, t)) \subseteq ToSet(own) \cup {t}
<1>1. Append(own, t) \in Seq(ArcTomb) /\ ToSet(Append(own, t)) \subseteq ToSet(own) \cup {t}
  BY DEF ToSet
<1> QED BY <1>1 DEF RecordTomb

\* The recursion of RecordTombs.
Records(f, own, ts) == f = [n \in 0..Len(ts) |-> IF n = 0 THEN own ELSE RecordTomb(f[n - 1], ts[n])]

LEMMA RecordsRuns ==
  ASSUME NEW own \in Seq(ArcTomb), NEW ts \in Seq(ArcTomb)
  PROVE  \E f : Records(f, own, ts)
<1> DEFINE D == Seq(ArcTomb)
           N == Len(ts)
           G == [q \in D \X (1..N) |-> RecordTomb(q[1], ts[q[2]])]
<1>1. N \in Nat /\ G \in [D \X (1..N) -> D]
  <2>1. N \in Nat /\ \A n \in 1..N : ts[n] \in ArcTomb
    OBVIOUS
  <2>2. \A q \in D \X (1..N) : RecordTomb(q[1], ts[q[2]]) \in D
    BY <2>1, RecordedKeeps
  <2> QED BY <2>1, <2>2
<1>2. PICK f \in [0..N -> D] : Runs(f, N, own, G)
  <2> HIDE DEF G
  <2> QED BY <1>1, Recursion
<1>3. \A n \in 1..N : f[n] = RecordTomb(f[n - 1], ts[n])
  <2> TAKE n \in 1..N
  <2>1. n - 1 \in 0..N /\ f[n - 1] \in D
    <3>1. n - 1 \in 0..N
      BY <1>1
    <3>2. f \in [0..N -> D]
      BY <1>2
    <3> HIDE DEF D, N
    <3> QED BY <3>1, <3>2
  <2>2. f[n] = G[<<f[n - 1], n>>]
    <3> HIDE DEF G
    <3> QED BY <1>2 DEF Runs
  <2>3. <<f[n - 1], n>> \in D \X (1..N)
    BY <2>1
  <2> QED BY <2>2, <2>3
<1>4. f[0] = own
  BY <1>2 DEF Runs
<1>5. f = [n \in 0..N |-> IF n = 0 THEN own ELSE RecordTomb(f[n - 1], ts[n])]
  BY <1>1, <1>2, <1>3, <1>4
<1> QED BY <1>5 DEF Records

\* An import records tombstones of the archive only.
LEMMA RecordTombsKeeps ==
  ASSUME NEW own \in Seq(ArcTomb), NEW ts \in Seq(ArcTomb)
  PROVE  /\ RecordTombs(own, ts) \in Seq(ArcTomb)
         /\ ToSet(RecordTombs(own, ts)) \subseteq ToSet(own) \cup ToSet(ts)
<1> DEFINE T == CHOOSE f : Records(f, own, ts)
           N == Len(ts)
           S == {n \in 0..N : T[n] \in Seq(ArcTomb) /\ ToSet(T[n]) \subseteq ToSet(own) \cup ToSet(ts)}
<1>1. N \in Nat /\ \A n \in 1..N : ts[n] \in ArcTomb /\ ts[n] \in ToSet(ts)
  BY DEF ToSet
<1>2. Records(T, own, ts)
  BY RecordsRuns
<1>3. RecordTombs(own, ts) = T[N]
  BY DEF RecordTombs, Records
<1> HIDE DEF T
<1>4. T[0] = own /\ \A n \in 1..N : T[n] = RecordTomb(T[n - 1], ts[n])
  BY <1>1, <1>2 DEF Records
<1>5. 0 \in S
  BY <1>1, <1>4
<1>6. ASSUME NEW n \in 1..N, n - 1 \in S
      PROVE  n \in S
  <2>1. /\ T[n - 1] \in Seq(ArcTomb) /\ ToSet(T[n - 1]) \subseteq ToSet(own) \cup ToSet(ts)
    BY <1>6
  <2>2. /\ RecordTomb(T[n - 1], ts[n]) \in Seq(ArcTomb)
        /\ ToSet(RecordTomb(T[n - 1], ts[n])) \subseteq ToSet(T[n - 1]) \cup {ts[n]}
    BY <1>1, <2>1, RecordedKeeps
  <2> QED BY <1>1, <1>4, <2>1, <2>2
<1>7. N \in S
  <2> HIDE DEF S
  <2>1. \A n \in 0..N : n \in S
    BY <1>1, <1>5, <1>6, Counting
  <2> QED BY <1>1, <2>1
<1> QED BY <1>3, <1>7

-----------------------------------------------------------------------------
(* Archive: databases, and how tombstones are applied to them. *)

Stamps == (0..MaxChanges) \cup {Absent}
MaybeSession == ArcSession \cup {Absent}
Days == {ses \in [Slot -> MaybeSession] : \A i \in Slot : ses[i] # Absent => ses[i].e > i}
ArcDb == [ses: Days, prj: Stamps, man: Stamps, tombs: Seq(ArcTomb)]

\* The foreign keys.
Joined(d) ==
  d.prj = Absent => d.man = Absent /\ \A i \in Slot : d.ses[i] # Absent => ~d.ses[i].ofP

\* The rows are where they were, as long and as visible.
SameTimes(f, g) ==
  \A i \in Slot : /\ f[i] = Absent <=> g[i] = Absent
                  /\ f[i] # Absent => f[i].e = g[i].e /\ f[i].hid = g[i].hid

\* The manual session is as it was, or a tombstone of it or its project that is not older deleted it.
Survives(m, n, ts) ==
  m # n => m = Absent /\ \E t \in ts : t.tab = "projects" \/ t.at >= n

LEMMA AbsentDiffers == (\A n \in Nat : n # Absent) /\ (\A r \in ArcSession : r # Absent)
BY ArcAssumption DEF ArcSession

LEMMA OrphanedKeeps ==
  ASSUME NEW ses \in Days
  PROVE  /\ Orphaned(ses) \in Days /\ SameTimes(Orphaned(ses), ses)
         /\ \A i \in Slot : Orphaned(ses)[i] # Absent => ~Orphaned(ses)[i].ofP
<1> DEFINE o == Orphaned(ses)
<1>1. ses \in [Slot -> MaybeSession] /\ \A i \in Slot : ses[i] # Absent => ses[i].e > i
  BY DEF Days
<1>2. o = [i \in Slot |-> IF ses[i] = Absent THEN Absent ELSE [ses[i] EXCEPT !.ofP = FALSE]]
  BY DEF Orphaned
<1>3. ASSUME NEW i \in Slot
      PROVE  /\ o[i] \in MaybeSession
             /\ o[i] = Absent <=> ses[i] = Absent
             /\ o[i] # Absent => o[i].e = ses[i].e /\ o[i].hid = ses[i].hid /\ ~o[i].ofP
  <2>1. CASE ses[i] = Absent
    BY <1>2, <2>1 DEF MaybeSession
  <2>2. CASE ses[i] # Absent
    <3>1. ses[i] \in ArcSession /\ o[i] = [ses[i] EXCEPT !.ofP = FALSE]
      BY <1>1, <1>2, <2>2 DEF MaybeSession
    <3>2. o[i] \in ArcSession /\ o[i].e = ses[i].e /\ o[i].hid = ses[i].hid /\ o[i].ofP = FALSE
      BY <3>1 DEF ArcSession
    <3> HIDE DEF o
    <3>3. o[i] # Absent /\ o[i] \in MaybeSession
      BY <3>2, AbsentDiffers DEF MaybeSession
    <3> QED BY <2>2, <3>2, <3>3
  <2> QED BY <2>1, <2>2
<1>4. o \in Days
  <2>1. o \in [Slot -> MaybeSession]
    BY <1>2, <1>3
  <2>2. \A i \in Slot : o[i] # Absent => o[i].e > i
    BY <1>1, <1>3
  <2> QED BY <2>1, <2>2 DEF Days
<1> QED BY <1>3, <1>4 DEF SameTimes

\* What one tombstone does.
LEMMA TombKeeps ==
  ASSUME NEW d \in ArcDb, Joined(d), NEW t \in ArcTomb
  PROVE  LET e == apply_archive_tombstone(d, t)
         IN /\ e \in ArcDb /\ Joined(e) /\ e.tombs = d.tombs /\ SameTimes(e.ses, d.ses)
            /\ e.man = d.man \/ (e.man = Absent /\ d.man \in 0..MaxChanges
                                 /\ (t.tab = "projects" \/ t.at >= d.man))
<1>1. /\ d.ses \in Days /\ d.prj \in Stamps /\ d.man \in Stamps /\ d.tombs \in Seq(ArcTomb)
      /\ t.at \in 0..MaxChanges /\ Absent \in Stamps
  BY DEF ArcDb, ArcTomb, Stamps
<1> DEFINE e == apply_archive_tombstone(d, t)
<1>2. SameTimes(d.ses, d.ses)
  BY DEF SameTimes
<1>3. CASE t.tab = "projects" /\ NotNewer(d.prj, t.at)
  <2>1. e = [d EXCEPT !.ses = Orphaned(d.ses), !.prj = Absent, !.man = Absent]
    BY <1>3 DEF apply_archive_tombstone
  <2>2. /\ Orphaned(d.ses) \in Days /\ SameTimes(Orphaned(d.ses), d.ses)
        /\ \A i \in Slot : Orphaned(d.ses)[i] # Absent => ~Orphaned(d.ses)[i].ofP
    BY <1>1, OrphanedKeeps
  <2>3. e \in ArcDb /\ e.ses = Orphaned(d.ses) /\ e.man = Absent /\ e.tombs = d.tombs
    BY <1>1, <2>1, <2>2 DEF ArcDb
  <2>4. Joined(e)
    BY <2>2, <2>3 DEF Joined
  <2> QED BY <1>1, <1>3, <2>2, <2>3, <2>4 DEF Stamps
<1>4. CASE t.tab = "manual_sessions" /\ NotNewer(d.man, t.at)
  <2>1. e = [d EXCEPT !.man = Absent]
    BY <1>4 DEF apply_archive_tombstone
  <2>2. e \in ArcDb /\ e.ses = d.ses /\ e.man = Absent /\ e.prj = d.prj /\ e.tombs = d.tombs
    BY <1>1, <2>1 DEF ArcDb
  <2>3. Joined(e)
    BY <2>2 DEF Joined
  <2>4. d.man \in 0..MaxChanges /\ t.at >= d.man
    BY <1>1, <1>4, ArcAssumption DEF NotNewer, Stamps
  <2> QED BY <1>2, <2>2, <2>3, <2>4
<1>5. CASE ~(t.tab = "projects" /\ NotNewer(d.prj, t.at)) /\ ~(t.tab = "manual_sessions" /\ NotNewer(d.man, t.at))
  <2>1. e = d
    BY <1>5 DEF apply_archive_tombstone
  <2> QED BY <1>2, <2>1
<1> QED BY <1>3, <1>4, <1>5

\* The recursion of ApplyTombs.
Applies(f, d, ts) ==
  f = [n \in 0..Len(ts) |->
         IF n = 0 THEN [d EXCEPT !.tombs = RecordTombs(d.tombs, ts)]
         ELSE apply_archive_tombstone(f[n - 1], ts[n])]

JoinedDbs == {d \in ArcDb : Joined(d)}

LEMMA FirstApplied ==
  ASSUME NEW d \in JoinedDbs, NEW ts \in Seq(ArcTomb)
  PROVE  LET e == [d EXCEPT !.tombs = RecordTombs(d.tombs, ts)]
         IN /\ e \in JoinedDbs /\ e.tombs = RecordTombs(d.tombs, ts) /\ e.ses = d.ses /\ e.prj = d.prj
            /\ e.man = d.man
<1> DEFINE e == [d EXCEPT !.tombs = RecordTombs(d.tombs, ts)]
<1>1. d \in ArcDb /\ d.tombs \in Seq(ArcTomb)
  BY DEF JoinedDbs, ArcDb
<1>2. RecordTombs(d.tombs, ts) \in Seq(ArcTomb)
  BY <1>1, RecordTombsKeeps
<1>3. /\ e \in ArcDb /\ e.tombs = RecordTombs(d.tombs, ts) /\ e.ses = d.ses /\ e.prj = d.prj
      /\ e.man = d.man
  BY <1>1, <1>2 DEF ArcDb
<1>4. Joined(e)
  BY <1>3 DEF JoinedDbs, Joined
<1> QED BY <1>3, <1>4 DEF JoinedDbs

LEMMA AppliesRuns ==
  ASSUME NEW d \in JoinedDbs, NEW ts \in Seq(ArcTomb)
  PROVE  \E f : Applies(f, d, ts)
<1> DEFINE N == Len(ts)
           b == [d EXCEPT !.tombs = RecordTombs(d.tombs, ts)]
           G == [q \in JoinedDbs \X (1..N) |-> apply_archive_tombstone(q[1], ts[q[2]])]
<1>1. N \in Nat /\ G \in [JoinedDbs \X (1..N) -> JoinedDbs]
  <2>1. N \in Nat /\ \A n \in 1..N : ts[n] \in ArcTomb
    OBVIOUS
  <2>2. \A q \in JoinedDbs \X (1..N) : apply_archive_tombstone(q[1], ts[q[2]]) \in JoinedDbs
    BY <2>1, TombKeeps DEF JoinedDbs
  <2> QED BY <2>1, <2>2
<1>2. b \in JoinedDbs
  BY FirstApplied
<1>3. PICK f \in [0..N -> JoinedDbs] : Runs(f, N, b, G)
  <2> HIDE DEF G, b
  <2> QED BY <1>1, <1>2, Recursion
<1>4. \A n \in 1..N : f[n] = apply_archive_tombstone(f[n - 1], ts[n])
  <2> TAKE n \in 1..N
  <2>1. n - 1 \in 0..N /\ f[n - 1] \in JoinedDbs
    BY <1>1, <1>3
  <2>2. f[n] = G[<<f[n - 1], n>>]
    <3> HIDE DEF G
    <3> QED BY <1>3 DEF Runs
  <2>3. <<f[n - 1], n>> \in JoinedDbs \X (1..N)
    BY <2>1
  <2> QED BY <2>2, <2>3
<1>5. f[0] = b
  BY <1>3 DEF Runs
<1>6. f = [n \in 0..N |-> IF n = 0 THEN b ELSE apply_archive_tombstone(f[n - 1], ts[n])]
  <2> HIDE DEF b, G
  <2> QED BY <1>1, <1>3, <1>4, <1>5
<1> QED BY <1>6 DEF Applies

\* All of them: sessions only lose their project, and a manual session goes only by a tombstone.
LEMMA ApplyTombsKeeps ==
  ASSUME NEW d \in JoinedDbs, NEW ts \in Seq(ArcTomb)
  PROVE  LET e == ApplyTombs(d, ts)
         IN /\ e \in JoinedDbs /\ e.tombs = RecordTombs(d.tombs, ts) /\ SameTimes(e.ses, d.ses)
            /\ Survives(e.man, d.man, ToSet(ts))
<1> DEFINE T == CHOOSE f : Applies(f, d, ts)
           N == Len(ts)
           b == [d EXCEPT !.tombs = RecordTombs(d.tombs, ts)]
           Good(e) == /\ e \in JoinedDbs /\ e.tombs = RecordTombs(d.tombs, ts) /\ SameTimes(e.ses, d.ses)
                      /\ Survives(e.man, d.man, ToSet(ts))
           S == {n \in 0..N : Good(T[n])}
<1>1. N \in Nat /\ \A n \in 1..N : ts[n] \in ArcTomb /\ ts[n] \in ToSet(ts)
  BY DEF ToSet
<1>2. Applies(T, d, ts)
  BY AppliesRuns
<1>3. ApplyTombs(d, ts) = T[N]
  BY DEF ApplyTombs, Applies
<1> HIDE DEF T
<1>4. T[0] = b /\ \A n \in 1..N : T[n] = apply_archive_tombstone(T[n - 1], ts[n])
  <2> DEFINE Step(n) == IF n = 0 THEN b ELSE apply_archive_tombstone(T[n - 1], ts[n])
  <2>1. T = [n \in 0..N |-> Step(n)]
    BY <1>2 DEF Applies
  <2>2. \A n \in 0..N : T[n] = Step(n)
    <3> HIDE DEF Step
    <3> QED BY <2>1
  <2> HIDE DEF b
  <2> QED BY <1>1, <2>2
<1>5. 0 \in S
  <2>1. /\ b \in JoinedDbs /\ b.tombs = RecordTombs(d.tombs, ts) /\ b.ses = d.ses /\ b.man = d.man
    BY FirstApplied
  <2> HIDE DEF b
  <2>2. Good(T[0])
    BY <1>4, <2>1 DEF SameTimes, Survives
  <2> QED BY <1>1, <2>2
<1>6. ASSUME NEW n \in 1..N, n - 1 \in S
      PROVE  n \in S
  <2> DEFINE p == T[n - 1]
             t == ts[n]
             e == apply_archive_tombstone(p, t)
  <2>1. Good(p) /\ t \in ArcTomb /\ t \in ToSet(ts) /\ T[n] = e
    BY <1>1, <1>4, <1>6
  <2>2. p \in ArcDb /\ Joined(p)
    BY <2>1 DEF JoinedDbs
  <2> HIDE DEF p, t
  <2>3. /\ e \in ArcDb /\ Joined(e) /\ e.tombs = p.tombs /\ SameTimes(e.ses, p.ses)
        /\ e.man = p.man \/ (e.man = Absent /\ p.man \in 0..MaxChanges
                             /\ (t.tab = "projects" \/ t.at >= p.man))
    BY <2>1, <2>2, TombKeeps
  <2> HIDE DEF e
  <2>4. SameTimes(e.ses, d.ses)
    BY <2>1, <2>3 DEF SameTimes
  <2>5. Survives(e.man, d.man, ToSet(ts))
    BY <2>1, <2>3, AbsentDiffers DEF Survives
  <2>6. Good(e)
    BY <2>1, <2>3, <2>4, <2>5 DEF JoinedDbs
  <2> QED BY <1>1, <2>1, <2>6
<1>7. N \in S
  <2> HIDE DEF S
  <2>1. \A n \in 0..N : n \in S
    BY <1>1, <1>5, <1>6, Counting
  <2> QED BY <1>1, <2>1
<1> QED BY <1>3, <1>7

-----------------------------------------------------------------------------
(* Archive: how an interval grows. *)

LEMMA LeastOf ==
  ASSUME NEW S \in SUBSET Nat, S # {}
  PROVE  Min(S) \in S /\ \A k \in S : Min(S) <= k
<1>1. IsWellFoundedOn(CountsDown, Nat)
  <2>1. CountsDown = OpToRel(<, Nat)
    BY DEF CountsDown, OpToRel
  <2> QED BY <2>1, NatLessThanWellFounded
<1>2. PICK i \in S : \A k \in S : <<k, i>> \notin CountsDown
  BY <1>1, WFMin
<1>3. ASSUME NEW k \in S
      PROVE  i <= k
  <2>1. i \in Nat /\ k \in Nat /\ <<k, i>> \in Nat \X Nat /\ <<k, i>> \notin CountsDown
    BY <1>2
  <2> QED BY <2>1 DEF CountsDown
<1> QED BY <1>3 DEF Min

LEMMA GreatestOf ==
  ASSUME NEW N \in Nat, NEW S \in SUBSET (0..N), S # {}
  PROVE  Max(S) \in S /\ \A k \in S : k <= Max(S)
<1> DEFINE R == {N - k : k \in S}
<1>1. R \in SUBSET Nat /\ R # {}
  OBVIOUS
<1>2. Min(R) \in R /\ \A k \in R : Min(R) <= k
  <2> HIDE DEF R
  <2> QED BY <1>1, LeastOf
<1>3. PICK m \in S : Min(R) = N - m
  BY <1>2
<1>4. \A k \in S : k <= m
  <2> TAKE k \in S
  <2>1. N - k \in R
    OBVIOUS
  <2>2. N - m <= N - k
    BY <1>2, <1>3, <2>1
  <2> QED BY <2>2
<1>5. \E x \in S : \A y \in S : x >= y
  BY <1>4
<1> QED BY <1>5 DEF Max

Spans == [from: Slot, to: 1..SLOTS]
Covers(g, ses, i) == g.from <= i /\ ses[i].e <= g.to
Over(ses, r, g) == Touching(ses, r, g.from, g.to)
Closed(ses, r, g) == \A i \in Over(ses, r, g) : Covers(g, ses, i)

LEMMA OverIs ==
  ASSUME NEW ses \in Days, NEW r \in ArcSession, NEW g
  PROVE  /\ Over(ses, r, g) \subseteq Slot
         /\ \A i \in Over(ses, r, g) : ses[i] \in ArcSession /\ ses[i].e \in 1..SLOTS /\ ses[i].e > i
                                       /\ ses[i].hid = r.hid
<1>1. Over(ses, r, g) \subseteq {s \in Slot : ses[s] # Absent /\ ses[s].hid = r.hid}
  BY DEF Over, Touching, SameTrack
<1>2. \A i \in Slot : ses[i] # Absent => ses[i] \in ArcSession /\ ses[i].e > i
  BY DEF Days, MaybeSession
<1> QED BY <1>1, <1>2 DEF ArcSession

\* The interval grows, over all it touches.
LEMMA WidenedIs ==
  ASSUME NEW ses \in Days, NEW r \in ArcSession, NEW g \in Spans
  PROVE  LET h == Widened(ses, r, g)
         IN /\ h \in Spans /\ h.from <= g.from /\ g.to <= h.to
            /\ \A i \in Over(ses, r, g) : Covers(h, ses, i)
            /\ Over(ses, r, g) \subseteq Over(ses, r, h)
            /\ Closed(ses, r, g) => h = g
<1> DEFINE over == Over(ses, r, g)
           A == over \cup {g.from}
           B == {ses[i].e : i \in over} \cup {g.to}
           h == Widened(ses, r, g)
<1>1. /\ over \subseteq Slot /\ SLOTS \in Nat /\ g.from \in Slot /\ g.to \in 1..SLOTS
      /\ \A i \in over : ses[i].e \in 1..SLOTS /\ ses[i].e > i
  BY OverIs, ArcAssumption DEF Spans
<1>2. A \in SUBSET Nat /\ A \in SUBSET Slot /\ A # {} /\ g.from \in A
  <2> HIDE DEF over
  <2>1. Slot \subseteq Nat
    BY DEF Slot
  <2> QED BY <1>1, <2>1
<1>3. B \in SUBSET (0..SLOTS) /\ B \in SUBSET (1..SLOTS) /\ B # {} /\ g.to \in B
  <2> HIDE DEF over
  <2> QED BY <1>1
<1>4. h = [from |-> Min(A), to |-> Max(B)]
  BY DEF Widened, Over
<1> HIDE DEF A, B, h, over
<1>5. Min(A) \in A /\ (\A k \in A : Min(A) <= k) /\ Max(B) \in B /\ (\A k \in B : k <= Max(B))
  BY <1>1, <1>2, <1>3, LeastOf, GreatestOf
<1>6. h.from = Min(A) /\ h.to = Max(B)
  BY <1>4
<1>7. h \in Spans /\ h.from <= g.from /\ g.to <= h.to
  BY <1>2, <1>3, <1>4, <1>5, <1>6 DEF Spans
<1>8. \A i \in over : Covers(h, ses, i)
  BY <1>5, <1>6 DEF Covers, A, B
<1>9. over \subseteq Over(ses, r, h)
  <2> SUFFICES ASSUME NEW i \in over
               PROVE  i \in Over(ses, r, h)
    OBVIOUS
  <2>1. i \in Slot /\ ses[i] # Absent /\ SameTrack(ses[i], r) /\ i <= g.to /\ ses[i].e >= g.from
    BY DEF over, Over, Touching
  <2>2. i \in Nat /\ ses[i].e \in Nat /\ g.from \in Nat /\ g.to \in Nat /\ h.from \in Nat /\ h.to \in Nat
    BY <1>1, <1>7, <2>1 DEF Slot, Spans
  <2>3. i <= h.to /\ ses[i].e >= h.from
    BY <1>7, <2>1, <2>2
  <2> QED BY <2>1, <2>3 DEF Over, Touching
<1>10. ASSUME Closed(ses, r, g)
       PROVE  h = g
  <2>1. \A i \in over : g.from <= i /\ ses[i].e <= g.to
    BY <1>10 DEF Closed, Covers, over
  <2>2. g.from \in Nat /\ g.to \in Nat
    BY <1>1 DEF Slot
  <2>3. \A k \in A : g.from <= k
    <3> HIDE DEF over
    <3> QED BY <2>1, <2>2 DEF A
  <2>4. \A k \in B : k <= g.to
    <3> HIDE DEF over
    <3> QED BY <2>1, <2>2 DEF B
  <2>5. Min(A) = g.from /\ Max(B) = g.to
    <3>1. Min(A) \in Nat /\ Max(B) \in Nat
      <4>1. \A k \in 1..SLOTS : k \in Nat
        BY <1>1
      <4> QED BY <1>2, <1>3, <1>5, <4>1
    <3>2. Min(A) <= g.from /\ g.from <= Min(A) /\ Max(B) <= g.to /\ g.to <= Max(B)
      BY <1>2, <1>3, <1>5, <2>3, <2>4
    <3> QED BY <2>2, <3>1, <3>2
  <2>6. g = [from |-> g.from, to |-> g.to]
    BY DEF Spans
  <2> QED BY <1>4, <2>5, <2>6
<1> QED BY <1>7, <1>8, <1>9, <1>10 DEF h, over

Grows(f, ses, s, r) ==
  f = [n \in 0..SLOTS |-> IF n = 0 THEN [from |-> s, to |-> r.e] ELSE Widened(ses, r, f[n - 1])]

LEMMA GrowsRuns ==
  ASSUME NEW ses \in Days, NEW s \in Slot, NEW r \in ArcSession
  PROVE  \E f : Grows(f, ses, s, r)
<1> DEFINE N == SLOTS
           b == [from |-> s, to |-> r.e]
           G == [q \in Spans \X (1..N) |-> Widened(ses, r, q[1])]
<1>1. N \in Nat /\ G \in [Spans \X (1..N) -> Spans]
  <2>1. N \in Nat
    BY ArcAssumption
  <2>2. \A q \in Spans \X (1..N) : Widened(ses, r, q[1]) \in Spans
    BY WidenedIs
  <2> QED BY <2>1, <2>2
<1>2. b \in Spans
  BY DEF Spans, ArcSession
<1>3. PICK f \in [0..N -> Spans] : Runs(f, N, b, G)
  <2> HIDE DEF G, b
  <2> QED BY <1>1, <1>2, Recursion
<1>4. \A n \in 1..N : f[n] = Widened(ses, r, f[n - 1])
  <2> TAKE n \in 1..N
  <2>1. n - 1 \in 0..N /\ f[n - 1] \in Spans
    BY <1>1, <1>3
  <2>2. f[n] = G[<<f[n - 1], n>>]
    <3> HIDE DEF G
    <3> QED BY <1>3 DEF Runs
  <2>3. <<f[n - 1], n>> \in Spans \X (1..N)
    BY <2>1
  <2> QED BY <2>2, <2>3
<1>5. f[0] = b
  BY <1>3 DEF Runs
<1>6. f = [n \in 0..N |-> IF n = 0 THEN b ELSE Widened(ses, r, f[n - 1])]
  <2> HIDE DEF b, G
  <2> QED BY <1>1, <1>3, <1>4, <1>5
<1> QED BY <1>6 DEF Grows

\* The interval is closed after as many rounds as there are instants: every round before that
\* touches one more.
LEMMA WholeIs ==
  ASSUME NEW ses \in Days, NEW s \in Slot, NEW r \in ArcSession, r.e > s
  PROVE  LET w == Whole(ses, s, r)
         IN w \in Spans /\ w.from <= s /\ r.e <= w.to /\ w.from < w.to /\ Closed(ses, r, w)
<1> DEFINE T == CHOOSE f : Grows(f, ses, s, r)
           b == [from |-> s, to |-> r.e]
           O(n) == Over(ses, r, T[n])
           Good(n) == /\ T[n] \in Spans /\ T[n].from <= s /\ r.e <= T[n].to
                      /\ Closed(ses, r, T[n]) \/ Cardinality(O(n)) >= n + 1
           S == {n \in 0..SLOTS : Good(n)}
<1>1. SLOTS \in Nat /\ s \in Nat /\ r.e \in 1..SLOTS /\ b \in Spans
  BY ArcAssumption DEF Slot, ArcSession, Spans
<1>2. Grows(T, ses, s, r)
  BY GrowsRuns
<1>3. Whole(ses, s, r) = T[SLOTS]
  BY DEF Whole, Grows
<1> HIDE DEF T
<1>4. T[0] = b /\ \A n \in 1..SLOTS : T[n] = Widened(ses, r, T[n - 1])
  <2> DEFINE Step(n) == IF n = 0 THEN b ELSE Widened(ses, r, T[n - 1])
  <2>1. T = [n \in 0..SLOTS |-> Step(n)]
    BY <1>2 DEF Grows
  <2>2. \A n \in 0..SLOTS : T[n] = Step(n)
    <3> HIDE DEF Step
    <3> QED BY <2>1
  <2> HIDE DEF b
  <2> QED BY <1>1, <2>2
<1>5. IsFiniteSet(Slot) /\ Cardinality(Slot) = SLOTS
  <2>1. 0 \in Int /\ SLOTS - 1 \in Int
    BY <1>1
  <2>2. /\ IsFiniteSet(0..(SLOTS - 1))
        /\ Cardinality(0..(SLOTS - 1)) = IF 0 > SLOTS - 1 THEN 0 ELSE (SLOTS - 1) - 0 + 1
    BY <2>1, FS_Interval
  <2> QED BY <1>1, <2>2 DEF Slot
<1>6. ASSUME NEW g
      PROVE  /\ IsFiniteSet(Over(ses, r, g)) /\ Cardinality(Over(ses, r, g)) \in Nat
             /\ Cardinality(Over(ses, r, g)) <= SLOTS
  <2>1. Over(ses, r, g) \in SUBSET Slot
    BY OverIs
  <2>2. IsFiniteSet(Over(ses, r, g)) /\ Cardinality(Over(ses, r, g)) <= SLOTS
    BY <1>5, <2>1, FS_Subset
  <2> QED BY <2>2, FS_CardinalityType
<1>7. 0 \in S
  <2>1. T[0] \in Spans /\ T[0].from <= s /\ r.e <= T[0].to
    BY <1>1, <1>4
  <2>2. ASSUME ~Closed(ses, r, T[0])
        PROVE  Cardinality(O(0)) >= 1
    <3>1. O(0) # {}
      BY <2>2 DEF Closed
    <3>2. Cardinality(O(0)) # 0
      BY <1>6, <3>1, FS_EmptySet
    <3> QED BY <1>6, <3>2
  <2> QED BY <1>1, <2>1, <2>2
<1>8. ASSUME NEW n \in 1..SLOTS, n - 1 \in S
      PROVE  n \in S
  <2> DEFINE g == T[n - 1]
             h == T[n]
  <2>1. /\ g \in Spans /\ g.from <= s /\ r.e <= g.to
        /\ Closed(ses, r, g) \/ Cardinality(Over(ses, r, g)) >= (n - 1) + 1
        /\ h = Widened(ses, r, g) /\ n \in Nat
    BY <1>1, <1>4, <1>8
  <2> HIDE DEF g, h
  <2>2. /\ h \in Spans /\ h.from <= g.from /\ g.to <= h.to
        /\ \A i \in Over(ses, r, g) : Covers(h, ses, i)
        /\ Over(ses, r, g) \subseteq Over(ses, r, h)
        /\ Closed(ses, r, g) => h = g
    BY <2>1, WidenedIs
  <2>3. h.from <= s /\ r.e <= h.to
    <3>1. g.from \in Nat /\ g.to \in Nat /\ h.from \in Nat /\ h.to \in Nat /\ r.e \in Nat
      BY <1>1, <2>1, <2>2 DEF Spans, Slot
    <3> QED BY <1>1, <2>1, <2>2, <3>1
  <2>4. CASE Closed(ses, r, h)
    BY <2>2, <2>3, <2>4 DEF h
  <2>5. CASE ~Closed(ses, r, h)
    <3>1. ~Closed(ses, r, g)
      BY <2>2, <2>5
    <3>2. PICK i \in Over(ses, r, h) : ~Covers(h, ses, i)
      BY <2>5 DEF Closed
    <3>3. Over(ses, r, g) # Over(ses, r, h)
      BY <2>2, <3>2
    <3>4. Cardinality(Over(ses, r, g)) < Cardinality(Over(ses, r, h))
      BY <1>6, <2>2, <3>3, FS_Subset
    <3>5. Cardinality(Over(ses, r, h)) >= n + 1
      BY <1>6, <2>1, <3>1, <3>4
    <3> QED BY <2>2, <2>3, <3>5 DEF h
  <2> QED BY <2>4, <2>5
<1>9. Good(SLOTS)
  <2> HIDE DEF S
  <2>1. \A n \in 0..SLOTS : n \in S
    BY <1>1, <1>7, <1>8, Counting
  <2> QED BY <1>1, <2>1 DEF S
<1>10. Closed(ses, r, T[SLOTS])
  <2>1. Cardinality(O(SLOTS)) \in Nat /\ Cardinality(O(SLOTS)) <= SLOTS
    BY <1>6
  <2> HIDE DEF O
  <2> QED BY <1>1, <1>9, <2>1
<1>11. T[SLOTS].from < T[SLOTS].to
  <2>1. T[SLOTS].from \in Nat /\ T[SLOTS].to \in Nat
    BY <1>9 DEF Spans, Slot
  <2> QED BY <1>1, <1>9, <2>1
<1> QED BY <1>3, <1>9, <1>10, <1>11

-----------------------------------------------------------------------------
(* Archive: how sessions merge. *)

\* The instant is visible.
Seen(ses, t) == \E i \in Slot : ses[i] # Absent /\ ~ses[i].hid /\ i <= t /\ t < ses[i].e

\* A merge loses no session of its day, makes none that ends before it starts, and keeps what is
\* visible on either side.
LEMMA MergeKeeps ==
  ASSUME NEW ses \in Days, NEW s \in Slot, NEW r \in ArcSession, r.e > s
  PROVE  LET m == merge_or_insert_session(ses, s, r)
         IN /\ m \in Days
            /\ \A t \in Nat : Seen(ses, t) => Seen(m, t)
            /\ ~r.hid => \A t \in Nat : s <= t /\ t < r.e => Seen(m, t)
            /\ (\E i \in Slot : m[i] # Absent /\ m[i].ofP)
                 => r.ofP \/ \E i \in Slot : ses[i] # Absent /\ ses[i].ofP
<1> DEFINE w == Whole(ses, s, r)
           absorbed == Over(ses, r, w)
           kept == [i \in Slot |-> IF i \in absorbed THEN Absent ELSE ses[i]]
           p == r.ofP \/ \E i \in absorbed : ses[i].ofP
           q == [e |-> w.to, hid |-> r.hid, ofP |-> p]
           m == merge_or_insert_session(ses, s, r)
           k == w.from
<1>1. w \in Spans /\ w.from <= s /\ r.e <= w.to /\ w.from < w.to /\ Closed(ses, r, w)
  BY WholeIs
<1>2. m = upsert_session_interval(kept, k, q)
  BY DEF merge_or_insert_session, Over
<1> HIDE DEF w, m
<1>3. /\ absorbed \subseteq Slot
      /\ \A i \in absorbed : /\ ses[i] \in ArcSession /\ ses[i].e \in 1..SLOTS /\ ses[i].hid = r.hid
                             /\ k <= i /\ ses[i].e <= w.to
  BY <1>1, OverIs DEF Closed, Covers
<1>4. /\ \A i \in Slot : ses[i] = Absent \/ (ses[i] \in ArcSession /\ ses[i].e > i)
      /\ \A i \in Slot : ses[i] \in MaybeSession
  BY DEF Days, MaybeSession
<1>5. /\ k \in Slot /\ k \in Nat /\ w.to \in 1..SLOTS /\ w.to \in Nat /\ w.to > k
      /\ r.e \in Nat /\ s \in Nat /\ \A i \in Slot : i \in Nat
  <2>1. Slot \subseteq Nat
    BY DEF Slot
  <2>2. k \in Slot /\ w.to \in 1..SLOTS /\ r.e \in 1..SLOTS /\ SLOTS \in Nat
    BY <1>1, ArcAssumption DEF Spans, ArcSession
  <2>3. w.to \in Nat /\ r.e \in Nat /\ k \in Nat
    <3>1. \A x \in 1..SLOTS : x \in Nat
      BY <2>2
    <3> QED BY <2>1, <2>2, <3>1
  <2> QED BY <1>1, <2>1, <2>2, <2>3
<1>6. q \in ArcSession /\ q.e = w.to /\ q.hid = r.hid /\ q.ofP = p
  <2>1. p \in BOOLEAN
    BY <1>3 DEF ArcSession
  <2>2. r.hid \in BOOLEAN
    BY DEF ArcSession
  <2> HIDE DEF p
  <2> QED BY <1>5, <2>1, <2>2 DEF ArcSession
<1> HIDE DEF q, absorbed
<1>7. \A i \in Slot : kept[i] = IF i \in absorbed THEN Absent ELSE ses[i]
  OBVIOUS
<1>8. kept \in [Slot -> MaybeSession]
  BY <1>4 DEF MaybeSession
<1> HIDE DEF kept
<1> DEFINE Put(v) ==
      /\ m \in [Slot -> MaybeSession] /\ m[k] = v /\ v \in ArcSession /\ v.e >= w.to
      /\ \A i \in Slot : i # k => m[i] = kept[i]
      /\ v.hid => r.hid
      /\ v.ofP => p \/ (kept[k] # Absent /\ kept[k].ofP)
      /\ kept[k] # Absent => v.e >= kept[k].e /\ (v.hid => kept[k].hid)
<1>9. ASSUME kept[k] = Absent
      PROVE  \E v : Put(v)
  <2>1. m = [kept EXCEPT ![k] = q]
    BY <1>2, <1>9 DEF upsert_session_interval
  <2>2. m \in [Slot -> MaybeSession] /\ m[k] = q /\ \A i \in Slot : i # k => m[i] = kept[i]
    BY <1>5, <1>6, <1>8, <2>1 DEF MaybeSession
  <2>3. (q.ofP => p) /\ (q.hid => r.hid)
    BY <1>6, Zenon
  <2>4. q.e >= w.to
    BY <1>5, <1>6
  <2>5. Put(q)
    BY <1>6, <1>9, <2>2, <2>3, <2>4
  <2> QED BY <2>5
<1>10. ASSUME kept[k] # Absent
       PROVE  \E x : Put(x)
  <2> DEFINE c == kept[k]
             e == IF q.e > c.e THEN q.e ELSE c.e
             o == c.ofP \/ q.ofP
             h == c.hid /\ q.hid
             v == [c EXCEPT !.e = e, !.ofP = o, !.hid = h]
  <2>1. m = [kept EXCEPT ![k] = v]
    BY <1>2, <1>10 DEF upsert_session_interval
  <2>2. c \in ArcSession /\ c.e \in 1..SLOTS /\ c.ofP \in BOOLEAN /\ c.hid \in BOOLEAN
    BY <1>5, <1>8, <1>10 DEF MaybeSession, ArcSession
  <2>3. q.e \in 1..SLOTS /\ q.ofP \in BOOLEAN /\ q.hid \in BOOLEAN
    BY <1>6 DEF ArcSession
  <2>4. e \in 1..SLOTS /\ e >= q.e /\ e >= c.e
    BY <2>2, <2>3
  <2>5. o \in BOOLEAN /\ h \in BOOLEAN
    BY <2>2, <2>3
  <2>6. (h => c.hid /\ q.hid) /\ (o => c.ofP \/ q.ofP)
    OBVIOUS
  <2> HIDE DEF e, o, h
  <2>7. v \in ArcSession /\ v.e = e /\ v.ofP = o /\ v.hid = h
    <3> HIDE DEF c
    <3> QED BY <2>2, <2>4, <2>5 DEF ArcSession
  <2> HIDE DEF v
  <2>8. m \in [Slot -> MaybeSession] /\ m[k] = v /\ \A i \in Slot : i # k => m[i] = kept[i]
    BY <1>5, <1>8, <2>1, <2>7 DEF MaybeSession
  <2>9. v.hid => c.hid /\ r.hid
    BY <1>6, <2>6, <2>7, Zenon
  <2>10. v.ofP => p \/ c.ofP
    BY <1>6, <2>6, <2>7, Zenon
  <2>11. v.e >= w.to /\ v.e >= c.e
    BY <1>6, <2>4, <2>7
  <2>12. Put(v)
    BY <1>10, <2>7, <2>8, <2>9, <2>10, <2>11
  <2> QED BY <2>12
<1>11. PICK v : Put(v)
  <2> HIDE DEF Put
  <2> QED BY <1>9, <1>10
<1>12. /\ m \in [Slot -> MaybeSession] /\ m[k] = v /\ v \in ArcSession /\ v.e >= w.to
       /\ \A i \in Slot : i # k => m[i] = kept[i]
       /\ v # Absent /\ v.e \in Nat
  BY <1>11, AbsentDiffers DEF ArcSession
<1>13. m \in Days
  <2> SUFFICES ASSUME NEW i \in Slot, m[i] # Absent
               PROVE  m[i].e > i
    BY <1>12 DEF Days
  <2>1. CASE i = k
    BY <1>5, <1>12, <2>1
  <2>2. CASE i # k
    BY <1>4, <1>7, <1>12, <2>2
  <2> QED BY <2>1, <2>2
<1>14. ASSUME NEW t \in Nat, k <= t, t < w.to, ~r.hid
       PROVE  Seen(m, t)
  <2>1. ~v.hid
    BY <1>11, <1>14
  <2>2. t < v.e
    BY <1>5, <1>12, <1>14
  <2> QED BY <1>5, <1>12, <1>14, <2>1, <2>2 DEF Seen
<1>15. ASSUME NEW t \in Nat, Seen(ses, t)
       PROVE  Seen(m, t)
  <2>1. PICK i \in Slot : ses[i] # Absent /\ ~ses[i].hid /\ i <= t /\ t < ses[i].e
    BY <1>15 DEF Seen
  <2>2. ses[i].e \in Nat /\ i \in Nat
    BY <1>4, <1>5, <2>1 DEF ArcSession
  <2>3. CASE i \in absorbed
    <3>1. ~r.hid /\ k <= i /\ ses[i].e <= w.to
      BY <1>3, <2>1, <2>3
    <3>2. k <= t /\ t < w.to
      BY <1>5, <2>1, <2>2, <3>1
    <3> QED BY <1>14, <3>1, <3>2
  <2>4. CASE i \notin absorbed /\ i # k
    <3>1. m[i] = ses[i]
      BY <1>7, <1>12, <2>4
    <3> QED BY <2>1, <3>1 DEF Seen
  <2>5. CASE i \notin absorbed /\ i = k
    <3>1. kept[k] = ses[i] /\ kept[k] # Absent
      BY <1>7, <2>1, <2>5
    <3>2. v.e >= ses[i].e /\ (v.hid => ses[i].hid)
      BY <1>11, <3>1
    <3>3. ~v.hid /\ t < v.e
      BY <1>12, <2>1, <2>2, <3>2
    <3> QED BY <1>12, <2>1, <2>5, <3>3 DEF Seen
  <2> QED BY <2>3, <2>4, <2>5
<1>16. ASSUME ~r.hid, NEW t \in Nat, s <= t, t < r.e
       PROVE  Seen(m, t)
  <2>1. k <= t /\ t < w.to
    BY <1>1, <1>5, <1>16
  <2> QED BY <1>14, <1>16, <2>1
<1>17. ASSUME NEW i \in Slot, m[i] # Absent, m[i].ofP
       PROVE  r.ofP \/ \E j \in Slot : ses[j] # Absent /\ ses[j].ofP
  <2>1. \A j \in absorbed : ses[j] # Absent
    BY <1>3, AbsentDiffers
  <2>2. CASE i # k
    <3>1. m[i] = ses[i]
      BY <1>7, <1>12, <1>17, <2>2
    <3> QED BY <1>17, <3>1
  <2>3. CASE i = k
    <3>1. v.ofP
      BY <1>12, <1>17, <2>3
    <3>2. p \/ (kept[k] # Absent /\ kept[k].ofP)
      BY <1>11, <3>1
    <3>3. CASE p
      BY <1>3, <2>1, <3>3
    <3>4. CASE kept[k] # Absent /\ kept[k].ofP
      <4>1. kept[k] = ses[k]
        BY <1>5, <1>7, <3>4
      <4> QED BY <1>5, <3>4, <4>1
    <3> QED BY <3>2, <3>3, <3>4
  <2> QED BY <2>2, <2>3
<1> QED BY <1>13, <1>15, <1>16, <1>17 DEF m

SomeOwned(ses) == \E i \in Slot : ses[i] # Absent /\ ses[i].ofP

Merges(f, ses, rows, order) ==
  f = [n \in 0..Len(order) |->
         IF n = 0 THEN ses ELSE merge_or_insert_session(f[n - 1], order[n], rows[order[n]])]

LEMMA MergesRuns ==
  ASSUME NEW ses \in Days, NEW rows \in Days, NEW order \in Seq(Rows(rows))
  PROVE  \E f : Merges(f, ses, rows, order)
<1> DEFINE N == Len(order)
           G == [q \in Days \X (1..N) |-> merge_or_insert_session(q[1], order[q[2]], rows[order[q[2]]])]
<1>1. N \in Nat /\ G \in [Days \X (1..N) -> Days]
  <2>1. N \in Nat /\ \A n \in 1..N : order[n] \in Rows(rows)
    OBVIOUS
  <2>2. \A i \in Rows(rows) : i \in Slot /\ rows[i] \in ArcSession /\ rows[i].e > i
    BY DEF Rows, Days, MaybeSession
  <2>3. \A q \in Days \X (1..N) : merge_or_insert_session(q[1], order[q[2]], rows[order[q[2]]]) \in Days
    BY <2>1, <2>2, MergeKeeps
  <2> QED BY <2>1, <2>3
<1>2. PICK f \in [0..N -> Days] : Runs(f, N, ses, G)
  <2> HIDE DEF G
  <2> QED BY <1>1, Recursion
<1>3. \A n \in 1..N : f[n] = merge_or_insert_session(f[n - 1], order[n], rows[order[n]])
  <2> TAKE n \in 1..N
  <2>1. n - 1 \in 0..N /\ f[n - 1] \in Days
    BY <1>1, <1>2
  <2>2. f[n] = G[<<f[n - 1], n>>]
    <3> HIDE DEF G
    <3> QED BY <1>2 DEF Runs
  <2>3. <<f[n - 1], n>> \in Days \X (1..N)
    BY <2>1
  <2> QED BY <2>2, <2>3
<1>4. f[0] = ses
  BY <1>2 DEF Runs
<1>5. f = [n \in 0..N |-> IF n = 0 THEN ses ELSE merge_or_insert_session(f[n - 1], order[n], rows[order[n]])]
  <2> HIDE DEF G
  <2> QED BY <1>1, <1>2, <1>3, <1>4
<1> QED BY <1>5 DEF Merges

\* All rows of an archive: what is visible on either side is visible after.
LEMMA MergedKeeps ==
  ASSUME NEW ses \in Days, NEW rows \in Days, NEW order \in Seq(Rows(rows)),
         \A i \in Rows(rows) : \E n \in 1..Len(order) : order[n] = i
  PROVE  LET m == ArcMerged(ses, rows, order)
         IN /\ m \in Days
            /\ \A t \in Nat : Seen(ses, t) \/ Seen(rows, t) => Seen(m, t)
            /\ SomeOwned(m) => SomeOwned(ses) \/ SomeOwned(rows)
<1> DEFINE T == CHOOSE f : Merges(f, ses, rows, order)
           N == Len(order)
           Good(n) == /\ T[n] \in Days
                      /\ \A t \in Nat : Seen(ses, t) => Seen(T[n], t)
                      /\ \A k \in 1..n : ~rows[order[k]].hid =>
                           \A t \in Nat : order[k] <= t /\ t < rows[order[k]].e => Seen(T[n], t)
                      /\ SomeOwned(T[n]) => SomeOwned(ses) \/ SomeOwned(rows)
           S == {n \in 0..N : Good(n)}
<1>1. N \in Nat /\ \A n \in 1..N : order[n] \in Rows(rows)
  OBVIOUS
<1>2. \A i \in Rows(rows) : i \in Slot /\ rows[i] \in ArcSession /\ rows[i].e > i /\ rows[i] # Absent
  BY DEF Rows, Days, MaybeSession
<1>3. Merges(T, ses, rows, order)
  BY MergesRuns
<1>4. ArcMerged(ses, rows, order) = T[N]
  BY DEF ArcMerged, Merges
<1> HIDE DEF T
<1>5. T[0] = ses /\ \A n \in 1..N : T[n] = merge_or_insert_session(T[n - 1], order[n], rows[order[n]])
  <2> DEFINE Step(n) == IF n = 0 THEN ses ELSE merge_or_insert_session(T[n - 1], order[n], rows[order[n]])
  <2>1. T = [n \in 0..N |-> Step(n)]
    BY <1>3 DEF Merges
  <2>2. \A n \in 0..N : T[n] = Step(n)
    <3> HIDE DEF Step
    <3> QED BY <2>1
  <2> QED BY <1>1, <2>2
<1>6. 0 \in S
  <2>1. 1..0 = {}
    OBVIOUS
  <2>2. Good(0)
    BY <1>5, <2>1
  <2> QED BY <1>1, <2>2
<1>7. ASSUME NEW n \in 1..N, n - 1 \in S
      PROVE  n \in S
  <2> DEFINE b == T[n - 1]
             s == order[n]
             r == rows[s]
             m == T[n]
  <2>1. Good(n - 1) /\ b \in Days /\ n \in Nat
    BY <1>1, <1>7
  <2>2. s \in Slot /\ r \in ArcSession /\ r.e > s /\ r # Absent
    BY <1>1, <1>2
  <2>3. m = merge_or_insert_session(b, s, r)
    BY <1>5
  <2>4. /\ m \in Days
        /\ \A t \in Nat : Seen(b, t) => Seen(m, t)
        /\ ~r.hid => \A t \in Nat : s <= t /\ t < r.e => Seen(m, t)
        /\ SomeOwned(m) => r.ofP \/ SomeOwned(b)
    <3> HIDE DEF b, s, r, m
    <3> QED BY <2>1, <2>2, <2>3, MergeKeeps DEF SomeOwned
  <2>5. \A t \in Nat : Seen(ses, t) => Seen(m, t)
    BY <2>1, <2>4
  <2>6. ASSUME NEW k \in 1..n, ~rows[order[k]].hid, NEW t \in Nat, order[k] <= t, t < rows[order[k]].e
        PROVE  Seen(m, t)
    <3>1. CASE k = n
      BY <2>4, <2>6, <3>1
    <3>2. CASE k # n
      <4>1. k \in 1..(n - 1)
        BY <2>1, <3>2
      <4>2. Seen(b, t)
        BY <2>1, <2>6, <4>1
      <4> QED BY <2>4, <4>2
    <3> QED BY <3>1, <3>2
  <2>7. SomeOwned(m) => SomeOwned(ses) \/ SomeOwned(rows)
    <3>1. r.ofP => SomeOwned(rows)
      BY <2>2 DEF SomeOwned
    <3>2. SomeOwned(b) => SomeOwned(ses) \/ SomeOwned(rows)
      BY <2>1
    <3> QED BY <2>4, <3>1, <3>2
  <2>8. Good(n)
    BY <2>4, <2>5, <2>6, <2>7
  <2> QED BY <1>1, <2>8
<1>8. Good(N)
  <2>1. N \in S
    <3> HIDE DEF S
    <3>1. \A n \in 0..N : n \in S
      BY <1>1, <1>6, <1>7, Counting
    <3>2. N \in 0..N
      BY <1>1
    <3> HIDE DEF N
    <3> QED BY <3>1, <3>2
  <2> HIDE DEF Good, N
  <2> QED BY <2>1
<1>9. ASSUME NEW t \in Nat, Seen(rows, t)
      PROVE  Seen(T[N], t)
  <2>1. PICK i \in Slot : rows[i] # Absent /\ ~rows[i].hid /\ i <= t /\ t < rows[i].e
    BY <1>9 DEF Seen
  <2>2. PICK n \in 1..N : order[n] = i
    BY <2>1 DEF Rows
  <2> QED BY <1>8, <2>1, <2>2
<1> QED BY <1>4, <1>8, <1>9

\* Every order of the rows of an archive names each of them.
LEMMA OrderNames ==
  ASSUME NEW rows \in Days, NEW order \in SetToSeqs(Rows(rows))
  PROVE  /\ order \in Seq(Rows(rows))
         /\ \A i \in Rows(rows) : \E n \in 1..Len(order) : order[n] = i
<1> DEFINE R == Rows(rows)
           N == Cardinality(R)
<1>1. IsFiniteSet(R) /\ N \in Nat
  <2>1. R \subseteq 0..(SLOTS - 1)
    BY DEF Rows, Slot
  <2>2. 0 \in Int /\ SLOTS - 1 \in Int
    BY ArcAssumption
  <2>3. IsFiniteSet(0..(SLOTS - 1))
    BY <2>2, FS_Interval
  <2>4. IsFiniteSet(R)
    BY <2>1, <2>3, FS_Subset
  <2> QED BY <2>4, FS_CardinalityType
<1>2. order \in [1..N -> R] /\ \A i, j \in 1..N : i # j => order[i] # order[j]
  BY DEF SetToSeqs
<1> HIDE DEF N, R
<1>3. order \in Seq(R) /\ Len(order) = N
  BY <1>1, <1>2
<1>4. ASSUME NEW i \in R, \A n \in 1..N : order[n] # i
      PROVE  FALSE
  <2>1. IsFiniteSet(R \ {i}) /\ Cardinality(R \ {i}) = N - 1
    BY <1>1, <1>4, FS_RemoveElement DEF N
  <2>2. IsFiniteSet(1..N) /\ Cardinality(1..N) = N
    <3>1. 1 \in Int /\ N \in Int
      BY <1>1
    <3>2. IsFiniteSet(1..N) /\ Cardinality(1..N) = IF 1 > N THEN 0 ELSE N - 1 + 1
      BY <3>1, FS_Interval
    <3> QED BY <1>1, <3>2
  <2>3. order \in [1..N -> R \ {i}]
    BY <1>2, <1>4
  <2>4. Cardinality(R \ {i}) < Cardinality(1..N)
    BY <1>1, <2>1, <2>2
  <2>5. \E x, y \in 1..N : x # y /\ order[x] = order[y]
    BY <2>1, <2>2, <2>3, <2>4, FS_PigeonHole
  <2> QED BY <1>2, <2>5
<1> QED BY <1>3, <1>4 DEF R

-----------------------------------------------------------------------------
(* Archive: a whole import. *)

LEMMA SeenIsVisible ==
  ASSUME NEW d \in ArcDb
  PROVE  VisibleTime(d) = {t \in Nat : Seen(d.ses, t)}
<1>1. d.ses \in Days
  BY DEF ArcDb
<1>2. \A i \in Slot : i \in Nat /\ (d.ses[i] # Absent => d.ses[i].e \in Nat)
  <2>1. \A i \in Slot : d.ses[i] # Absent => d.ses[i].e \in 1..SLOTS
    BY <1>1 DEF Days, MaybeSession, ArcSession
  <2> QED BY <2>1, ArcAssumption DEF Slot
<1> DEFINE V == {i \in Rows(d.ses) : ~d.ses[i].hid}
<1>3. \A i \in V : i \in Slot /\ d.ses[i] # Absent /\ ~d.ses[i].hid /\ i \in Nat /\ d.ses[i].e \in Nat
  BY <1>2 DEF Rows
<1>4. ASSUME NEW t \in VisibleTime(d)
      PROVE  t \in Nat /\ Seen(d.ses, t)
  <2>1. PICK i \in V : t \in i..(d.ses[i].e - 1)
    BY <1>4 DEF VisibleTime
  <2>2. t \in Nat /\ i <= t /\ t < d.ses[i].e
    BY <1>3, <2>1
  <2> QED BY <1>3, <2>2 DEF Seen
<1>5. ASSUME NEW t \in Nat, Seen(d.ses, t)
      PROVE  t \in VisibleTime(d)
  <2>1. PICK i \in Slot : d.ses[i] # Absent /\ ~d.ses[i].hid /\ i <= t /\ t < d.ses[i].e
    BY <1>5 DEF Seen
  <2>2. i \in V /\ t \in i..(d.ses[i].e - 1)
    BY <1>2, <2>1 DEF Rows
  <2> QED BY <2>2 DEF VisibleTime
<1> QED BY <1>4, <1>5

LEMMA NewerIs ==
  ASSUME NEW mine \in Stamps, NEW theirs \in Stamps
  PROVE  LET n == NewerOf(mine, theirs)
         IN /\ n \in {mine, theirs}
            /\ n = Absent <=> mine = Absent /\ theirs = Absent
            /\ mine # Absent => n >= mine
<1>1. \A n \in 0..MaxChanges : n \in Nat /\ n # Absent
  BY ArcAssumption
<1>2. CASE mine = Absent
  BY <1>2 DEF NewerOf
<1>3. CASE mine # Absent
  <2>1. mine \in Nat
    BY <1>1, <1>3 DEF Stamps
  <2>2. CASE theirs # Absent /\ theirs > mine
    <3>1. NewerOf(mine, theirs) = theirs /\ theirs \in Nat
      BY <1>1, <2>2 DEF NewerOf, Stamps
    <3> QED BY <1>3, <2>1, <2>2, <3>1
  <2>3. CASE ~(theirs # Absent /\ theirs > mine)
    <3>1. NewerOf(mine, theirs) = mine
      BY <1>3, <2>3 DEF NewerOf
    <3> QED BY <1>3, <2>1, <3>1
  <2> QED BY <2>2, <2>3
<1> QED BY <1>2, <1>3

\* A manual session that an import changes to the worse was deleted, or its project.
LEMMA ImportKeeps ==
  ASSUME NEW d \in JoinedDbs, NEW a \in JoinedDbs, NEW order \in SetToSeqs(Rows(a.ses))
  PROVE  LET e == import_archive_into_tx(d, a, order)
         IN /\ e \in JoinedDbs
            /\ ToSet(e.tombs) \subseteq ToSet(d.tombs) \cup ToSet(a.tombs)
            /\ VisibleTime(d) \cup VisibleTime(a) \subseteq VisibleTime(e)
            /\ e.man \in {d.man, a.man, Absent}
            /\ d.man # Absent /\ (e.man = Absent \/ e.man < d.man)
                 => \E t \in ToSet(a.tombs) : t.tab = "projects" \/ t.at >= d.man
<1> DEFINE c == ApplyTombs(d, a.tombs)
           prj == NewerOf(c.prj, a.prj)
           man == NewerOf(c.man, a.man)
           ses == ArcMerged(c.ses, a.ses, order)
           e == import_archive_into_tx(d, a, order)
<1>1. d \in ArcDb /\ Joined(d) /\ a \in ArcDb /\ Joined(a) /\ a.tombs \in Seq(ArcTomb) /\ a.ses \in Days
      /\ a.prj \in Stamps /\ a.man \in Stamps /\ d.ses \in Days /\ d.tombs \in Seq(ArcTomb) /\ d.man \in Stamps
  BY DEF JoinedDbs, ArcDb
<1>2. /\ c \in JoinedDbs /\ c.tombs = RecordTombs(d.tombs, a.tombs) /\ SameTimes(c.ses, d.ses)
      /\ Survives(c.man, d.man, ToSet(a.tombs))
  BY <1>1, ApplyTombsKeeps
<1> HIDE DEF c
<1>3. c \in ArcDb /\ Joined(c) /\ c.ses \in Days /\ c.prj \in Stamps /\ c.man \in Stamps
  BY <1>2 DEF JoinedDbs, ArcDb
<1>4. c.tombs \in Seq(ArcTomb) /\ ToSet(c.tombs) \subseteq ToSet(d.tombs) \cup ToSet(a.tombs)
  BY <1>1, <1>2, RecordTombsKeeps
<1>5. /\ prj \in {c.prj, a.prj}
      /\ prj = Absent <=> c.prj = Absent /\ a.prj = Absent
  BY <1>1, <1>3, NewerIs
<1>6. /\ man \in {c.man, a.man}
      /\ man = Absent <=> c.man = Absent /\ a.man = Absent
      /\ c.man # Absent => man >= c.man
  BY <1>1, <1>3, NewerIs
<1>7. /\ ses \in Days
      /\ \A t \in Nat : Seen(c.ses, t) \/ Seen(a.ses, t) => Seen(ses, t)
      /\ SomeOwned(ses) => SomeOwned(c.ses) \/ SomeOwned(a.ses)
  <2>1. /\ order \in Seq(Rows(a.ses))
        /\ \A i \in Rows(a.ses) : \E n \in 1..Len(order) : order[n] = i
    BY <1>1, OrderNames
  <2> QED BY <1>1, <1>3, <2>1, MergedKeeps
<1>8. e = [c EXCEPT !.tombs = c.tombs, !.prj = prj, !.ses = ses, !.man = man]
  <2>1. MintedBy(d, c) = <<>> /\ c.tombs \o <<>> = c.tombs
    BY <1>4 DEF MintedBy, TriggersArmed
  <2>2. e = [[c EXCEPT !.tombs = c.tombs \o MintedBy(d, c), !.prj = prj] EXCEPT !.ses = ses, !.man = man]
    <3> HIDE DEF prj, man, ses
    <3>1. DOMAIN c = {"ses", "prj", "man", "tombs"}
      BY <1>3 DEF ArcDb
    <3>2. ApplyTombs(d, a.tombs) = c
      BY DEF c
    <3>3. e = LET mapped == [c EXCEPT !.tombs = c.tombs \o MintedBy(d, c), !.prj = prj]
              IN [mapped EXCEPT !.ses = ArcMerged(mapped.ses, a.ses, order), !.man = NewerOf(mapped.man, a.man)]
      BY <3>2 DEF import_archive_into_tx, prj
    <3> DEFINE mapped == [c EXCEPT !.tombs = c.tombs \o MintedBy(d, c), !.prj = prj]
    <3>4. mapped.ses = c.ses /\ mapped.man = c.man
      BY <1>3 DEF ArcDb
    <3> QED BY <3>3, <3>4 DEF ses, man
  <2> HIDE DEF prj, man, ses, e
  <2> QED BY <1>3, <2>1, <2>2 DEF ArcDb
<1> HIDE DEF prj, man, ses, e
<1>9. e \in ArcDb /\ e.tombs = c.tombs /\ e.prj = prj /\ e.ses = ses /\ e.man = man
  <2>1. prj \in Stamps /\ man \in Stamps
    BY <1>1, <1>3, <1>5, <1>6
  <2> QED BY <1>3, <1>4, <1>7, <1>8, <2>1 DEF ArcDb
<1>10. Joined(e)
  <2> SUFFICES ASSUME e.prj = Absent
               PROVE  e.man = Absent /\ ~SomeOwned(e.ses)
    BY DEF Joined, SomeOwned
  <2>1. c.prj = Absent /\ a.prj = Absent
    BY <1>5, <1>9
  <2>2. c.man = Absent /\ a.man = Absent /\ ~SomeOwned(c.ses) /\ ~SomeOwned(a.ses)
    BY <1>1, <1>3, <2>1 DEF Joined, SomeOwned
  <2> QED BY <1>6, <1>7, <1>9, <2>2
<1>11. \A t \in Nat : Seen(d.ses, t) => Seen(c.ses, t)
  BY <1>2 DEF Seen, SameTimes
<1>12. VisibleTime(d) \cup VisibleTime(a) \subseteq VisibleTime(e)
  BY <1>1, <1>7, <1>9, <1>11, SeenIsVisible
<1>13. c.man \in {d.man, Absent}
  BY <1>2 DEF Survives
<1>14. ASSUME d.man # Absent, e.man = Absent \/ e.man < d.man
       PROVE  \E t \in ToSet(a.tombs) : t.tab = "projects" \/ t.at >= d.man
  <2>1. SUFFICES c.man # d.man
    BY <1>2 DEF Survives
  <2>2. SUFFICES ASSUME c.man = d.man PROVE FALSE
    OBVIOUS
  <2>3. man # Absent /\ man >= d.man /\ man < d.man
    BY <1>6, <1>9, <1>14, <2>2
  <2>4. man \in Nat /\ d.man \in Nat
    BY <1>1, <1>3, <1>6, <1>14, <2>3, ArcAssumption DEF Stamps
  <2> QED BY <2>3, <2>4
<1>15. e.man \in {d.man, a.man, Absent}
  BY <1>6, <1>9, <1>13
<1> QED BY <1>4, <1>9, <1>10, <1>12, <1>14, <1>15 DEF JoinedDbs, e

-----------------------------------------------------------------------------
(* Archive: ArcSpec => []ArcTypeOK, ArcSpec => []DeletionsAreReal and       *)
(* ArcSpec => ImportKeepsWork, for any machines, days and bounds.           *)

\* No manual session is newer than the clock.
Dated(d) == d.man # Absent => d.man <= edits

\* A database, or an archive: its rows refer to rows, its tombstones are deletions that users made.
Truthful(d) == d \in JoinedDbs /\ Dated(d) /\ ToSet(d.tombs) \subseteq deleted

ArcInv ==
  /\ edits \in 0..MaxChanges /\ imports \in 0..MaxImports
  /\ IsFiniteSet(files) /\ Cardinality(files) <= MaxFiles
  /\ held = [x \in Side |-> held[x]] /\ \A x \in Side : Truthful(held[x])
  /\ \A f \in files : Truthful(f)

LEMMA ArcInitInv == ArcInit => ArcInv
<1> SUFFICES ASSUME ArcInit PROVE ArcInv
  OBVIOUS
<1> DEFINE none == [s \in Slot |-> Absent]
           d == [ses |-> none, prj |-> 0, man |-> 0, tombs |-> <<>>]
<1>1. edits = 0 /\ imports = 0 /\ files = {} /\ deleted = {} /\ held = [x \in Side |-> d]
  BY DEF ArcInit
<1>2. 0 \in 0..MaxChanges /\ 0 \in 0..MaxImports /\ 0 <= MaxFiles /\ 0 # Absent /\ 0 <= 0
  BY ArcAssumption
<1>3. none \in Days /\ <<>> \in Seq(ArcTomb) /\ ToSet(<<>>) \subseteq {}
  BY DEF Days, MaybeSession, ToSet
<1>4. d \in ArcDb /\ d.prj = 0 /\ d.man = 0 /\ d.tombs = <<>>
  <2> HIDE DEF none
  <2> QED BY <1>2, <1>3 DEF ArcDb, Stamps
<1> HIDE DEF d
<1>5. d \in JoinedDbs /\ Dated(d) /\ ToSet(d.tombs) \subseteq deleted
  BY <1>1, <1>2, <1>3, <1>4 DEF JoinedDbs, Joined, Dated
<1>6. IsFiniteSet(files) /\ Cardinality(files) <= MaxFiles
  BY <1>1, <1>2, FS_EmptySet
<1>7. Truthful(d) /\ \A x \in Side : held[x] = d
  BY <1>1, <1>5 DEF Truthful
<1> QED BY <1>1, <1>2, <1>6, <1>7 DEF ArcInv

\* A database stays truthful while the clock and the deletions grow.
TruthfulLater(d) == d \in JoinedDbs /\ (d.man # Absent => d.man <= edits') /\ ToSet(d.tombs) \subseteq deleted'

LEMMA TruthfulStays ==
  ASSUME ArcInv, edits' \in Nat, edits' >= edits, deleted \subseteq deleted', NEW d, Truthful(d)
  PROVE  TruthfulLater(d)
<1>1. d.man # Absent => d.man \in Nat
  BY ArcAssumption DEF Truthful, JoinedDbs, ArcDb, Stamps
<1>2. edits \in Nat
  BY ArcAssumption DEF ArcInv
<1> QED BY <1>1, <1>2 DEF Truthful, Dated, TruthfulLater

\* A change of one database.
LEMMA ChangeKeeps ==
  ASSUME ArcInv, NEW x \in Side, NEW d, NEW dels, Change(x, d, dels),
         d \in JoinedDbs, d.man # Absent => d.man <= edits + 1,
         ToSet(d.tombs) \subseteq deleted \cup dels
  PROVE  ArcInv'
<1>1. /\ edits < MaxChanges /\ edits' = edits + 1 /\ held' = [held EXCEPT ![x] = d]
      /\ deleted' = deleted \cup dels /\ files' = files /\ imports' = imports
  BY DEF Change
<1>2. edits \in Nat /\ edits' \in Nat /\ edits' >= edits /\ edits' \in 0..MaxChanges
  BY <1>1, ArcAssumption DEF ArcInv
<1>3. TruthfulLater(d)
  BY <1>1 DEF TruthfulLater
<1>4. \A f \in files : TruthfulLater(f)
  BY <1>1, <1>2, TruthfulStays DEF ArcInv
<1>5. \A y \in Side : TruthfulLater(held[y])
  BY <1>1, <1>2, TruthfulStays DEF ArcInv
<1>6. held' = [y \in Side |-> held'[y]] /\ \A y \in Side : TruthfulLater(held'[y])
  BY <1>1, <1>3, <1>5 DEF ArcInv
<1> QED BY <1>1, <1>2, <1>4, <1>6 DEF ArcInv, Truthful, Dated, TruthfulLater

LEMMA ImportArchiveKeeps ==
  ASSUME ArcInv, NEW x \in Side, ImportArchive(x)
  PROVE  ArcInv' /\ VisibleTimeKept /\ EditsSurvive
<1>0. PICK a \in files : \E order \in SetToSeqs(Rows(a.ses)) :
        held' = [held EXCEPT ![x] = import_archive_into_tx(held[x], a, order)]
  BY DEF ImportArchive
<1>1. PICK order \in SetToSeqs(Rows(a.ses)) :
        held' = [held EXCEPT ![x] = import_archive_into_tx(held[x], a, order)]
  BY <1>0
<1>2. /\ imports < MaxImports /\ imports' = imports + 1 /\ files' = files /\ edits' = edits
      /\ deleted' = deleted
  BY DEF ImportArchive
<1> DEFINE d == held[x]
           e == import_archive_into_tx(d, a, order)
<1>3. Truthful(d) /\ Truthful(a)
  BY DEF ArcInv
<1>4. d \in JoinedDbs /\ a \in JoinedDbs
  BY <1>3 DEF Truthful
<1>5. /\ e \in JoinedDbs
      /\ ToSet(e.tombs) \subseteq ToSet(d.tombs) \cup ToSet(a.tombs)
      /\ VisibleTime(d) \cup VisibleTime(a) \subseteq VisibleTime(e)
      /\ e.man \in {d.man, a.man, Absent}
      /\ d.man # Absent /\ (e.man = Absent \/ e.man < d.man)
           => \E t \in ToSet(a.tombs) : t.tab = "projects" \/ t.at >= d.man
  BY <1>4, ImportKeeps
<1> HIDE DEF e
<1>6. held' = [held EXCEPT ![x] = e]
  BY <1>1 DEF e
<1>7. \A y \in Side : held'[y] = IF y = x THEN e ELSE held[y]
  BY <1>6 DEF ArcInv
<1>8. ArcInv'
  <2>1. Truthful(e)
    BY <1>3, <1>5 DEF Truthful, Dated
  <2>2. \A y \in Side : Truthful(held'[y])
    BY <1>7, <2>1 DEF ArcInv
  <2>3. \A y \in Side : Truthful(held[y])'
    BY <1>2, <2>2 DEF Truthful, Dated
  <2>4. \A f \in files' : Truthful(f)'
    BY <1>2 DEF ArcInv, Truthful, Dated
  <2>5. held' = [y \in Side |-> held'[y]]
    BY <1>6 DEF ArcInv
  <2>6. imports' \in 0..MaxImports
    BY <1>2, ArcAssumption DEF ArcInv
  <2> QED BY <1>2, <2>3, <2>4, <2>5, <2>6 DEF ArcInv
<1>9. VisibleTimeKept
  <2>1. \A y \in Side : \/ held'[y] = held[y]
                        \/ VisibleTime(held[y]) \cup VisibleTime(a) \subseteq VisibleTime(held'[y])
    BY <1>5, <1>7
  <2> QED BY <2>1 DEF VisibleTimeKept
<1>10. ASSUME NEW y \in Side, held[y].man # Absent, held'[y].man = Absent \/ held'[y].man < held[y].man
       PROVE  \E t \in deleted' : t.tab = "projects" \/ t.at >= held[y].man
  <2>1. held[y].man \in Nat
    BY <1>10, ArcAssumption DEF ArcInv, Truthful, JoinedDbs, ArcDb, Stamps
  <2>2. y = x
    BY <1>7, <1>10, <2>1
  <2>3. \E t \in ToSet(a.tombs) : t.tab = "projects" \/ t.at >= held[y].man
    BY <1>5, <1>7, <1>10, <2>2
  <2> QED BY <1>2, <1>3, <2>3 DEF Truthful
<1> QED BY <1>8, <1>9, <1>10 DEF EditsSurvive

\* What is not an import changes no manual session to the worse but by a deletion.
LEMMA ChangeSurvives ==
  ASSUME ArcInv, NEW x \in Side, NEW d, NEW dels, Change(x, d, dels),
         held[x].man # Absent =>
           \/ d.man # Absent /\ d.man >= held[x].man
           \/ \E t \in dels : t.tab = "projects" \/ t.at >= held[x].man,
         d.man \in Stamps
  PROVE  VisibleTimeKept /\ EditsSurvive
<1>1. held' = [held EXCEPT ![x] = d] /\ deleted' = deleted \cup dels /\ imports' = imports
  BY DEF Change
<1>2. \A y \in Side : held'[y] = IF y = x THEN d ELSE held[y]
  BY <1>1 DEF ArcInv
<1>3. ASSUME NEW y \in Side, held[y].man # Absent, held'[y].man = Absent \/ held'[y].man < held[y].man
      PROVE  \E t \in deleted' : t.tab = "projects" \/ t.at >= held[y].man
  <2>1. held[y].man \in Nat
    BY <1>3, ArcAssumption DEF ArcInv, Truthful, JoinedDbs, ArcDb, Stamps
  <2>2. y = x
    BY <1>2, <1>3, <2>1
  <2>3. d.man # Absent => d.man \in Nat
    BY ArcAssumption DEF Stamps
  <2>4. ~(d.man # Absent /\ d.man >= held[x].man)
    BY <1>2, <1>3, <2>1, <2>2, <2>3
  <2> QED BY <1>1, <1>3, <2>2, <2>4
<1> QED BY <1>1, <1>3 DEF VisibleTimeKept, EditsSurvive

\* One field changes.
LEMMA SesTyped ==
  ASSUME NEW d \in ArcDb, NEW ses \in Days
  PROVE  LET e == [d EXCEPT !.ses = ses]
         IN e \in ArcDb /\ e.ses = ses /\ e.prj = d.prj /\ e.man = d.man /\ e.tombs = d.tombs
BY DEF ArcDb

LEMMA StampTyped ==
  ASSUME NEW d \in ArcDb, NEW n \in Stamps
  PROVE  /\ LET e == [d EXCEPT !.prj = n]
            IN e \in ArcDb /\ e.ses = d.ses /\ e.prj = n /\ e.man = d.man /\ e.tombs = d.tombs
         /\ LET e == [d EXCEPT !.man = n]
            IN e \in ArcDb /\ e.ses = d.ses /\ e.prj = d.prj /\ e.man = n /\ e.tombs = d.tombs
BY DEF ArcDb

\* What a step of a user or a daemon starts from.
LEMMA Start ==
  ASSUME ArcInv, NEW x \in Side, edits < MaxChanges
  PROVE  LET d == held[x]
         IN /\ d \in JoinedDbs /\ d \in ArcDb /\ Joined(d) /\ d.ses \in Days
            /\ d.man \in Stamps /\ d.prj \in Stamps /\ d.tombs \in Seq(ArcTomb)
            /\ ToSet(d.tombs) \subseteq deleted
            /\ d.man # Absent => d.man \in Nat /\ d.man <= edits /\ d.man <= edits + 1 /\ d.man >= d.man
            /\ ArcClock \in 0..MaxChanges /\ ArcClock \in Stamps /\ ArcClock \in Nat /\ ArcClock # Absent
            /\ ArcClock = edits + 1 /\ ArcClock >= edits /\ ArcClock <= edits + 1
            /\ d.man # Absent => ArcClock >= d.man
<1>1. Truthful(held[x])
  BY DEF ArcInv
<1>2. /\ held[x] \in JoinedDbs /\ held[x] \in ArcDb /\ Joined(held[x])
      /\ ToSet(held[x].tombs) \subseteq deleted /\ (held[x].man # Absent => held[x].man <= edits)
  BY <1>1 DEF Truthful, Dated, JoinedDbs
<1>3. held[x].ses \in Days /\ held[x].man \in Stamps /\ held[x].prj \in Stamps /\ held[x].tombs \in Seq(ArcTomb)
  BY <1>2 DEF ArcDb
<1>4. edits \in Nat /\ MaxChanges \in Nat /\ edits + 1 \in 0..MaxChanges
  BY ArcAssumption DEF ArcInv
<1>5. held[x].man # Absent => held[x].man \in Nat
  BY <1>3, ArcAssumption DEF Stamps
<1>6. ArcClock = edits + 1 /\ ArcClock # Absent
  BY <1>4, ArcAssumption DEF ArcClock
<1> QED BY <1>2, <1>3, <1>4, <1>5, <1>6 DEF Stamps

\* What every step has to do: the invariant stays, and the step property holds of it.
ArcStepOK == ArcInv' /\ VisibleTimeKept /\ EditsSurvive

LEMMA HidesSessionKeeps ==
  ASSUME ArcInv, NEW x \in Side, NEW s \in Slot, HidesSession(x, s)
  PROVE  ArcStepOK
<1> DEFINE d == held[x]
           ses == [d.ses EXCEPT ![s].hid = TRUE]
           e == [d EXCEPT !.ses = ses]
<1>1. edits < MaxChanges /\ d.ses[s] # Absent
  BY DEF HidesSession, Change
<1>2. /\ d \in JoinedDbs /\ d \in ArcDb /\ Joined(d) /\ d.ses \in Days /\ d.man \in Stamps
      /\ ToSet(d.tombs) \subseteq deleted
      /\ d.man # Absent => d.man \in Nat /\ d.man <= edits + 1 /\ d.man >= d.man
  BY <1>1, Start
<1>3. Change(x, e, {})
  <2>1. e = [held[x] EXCEPT !.ses[s].hid = TRUE]
    BY <1>2 DEF ArcDb
  <2> QED BY <2>1 DEF HidesSession
<1> HIDE DEF d
<1>4. ses \in Days /\ \A i \in Slot : /\ ses[i] # Absent <=> d.ses[i] # Absent
                                      /\ ses[i] # Absent => ses[i].ofP = d.ses[i].ofP
  <2>1. d.ses[s] \in ArcSession /\ d.ses[s].e > s
    BY <1>1, <1>2 DEF Days, MaybeSession
  <2> DEFINE r == [d.ses[s] EXCEPT !.hid = TRUE]
  <2>2. r \in ArcSession /\ r.e = d.ses[s].e /\ r.ofP = d.ses[s].ofP /\ r # Absent
    BY <2>1, AbsentDiffers DEF ArcSession
  <2>3. ses = [d.ses EXCEPT ![s] = r]
    OBVIOUS
  <2> HIDE DEF r, ses
  <2>4. ses \in [Slot -> MaybeSession] /\ \A i \in Slot : ses[i] = IF i = s THEN r ELSE d.ses[i]
    BY <1>2, <2>2, <2>3 DEF Days, MaybeSession
  <2> QED BY <1>1, <1>2, <2>1, <2>2, <2>4 DEF Days
<1> HIDE DEF ses
<1>5. e \in ArcDb /\ e.ses = ses /\ e.prj = d.prj /\ e.man = d.man /\ e.tombs = d.tombs
  BY <1>2, <1>4, SesTyped
<1> HIDE DEF e
<1>6. e \in JoinedDbs
  BY <1>2, <1>4, <1>5 DEF JoinedDbs, Joined
<1>7. ArcInv'
  BY <1>2, <1>3, <1>5, <1>6, ChangeKeeps
<1>8. VisibleTimeKept /\ EditsSurvive
  BY <1>2, <1>3, <1>5, ChangeSurvives DEF d
<1> QED BY <1>7, <1>8 DEF ArcStepOK

LEMMA RecordsSessionKeeps ==
  ASSUME ArcInv, NEW x \in Side, NEW s \in Slot, NEW n \in 1..SLOTS, RecordsSession(x, s, n)
  PROVE  ArcStepOK
<1> DEFINE d == held[x]
           r == [e |-> n, hid |-> FALSE, ofP |-> d.prj # Absent]
           ses == [d.ses EXCEPT ![s] = r]
           e == [d EXCEPT !.ses = ses]
<1>1. edits < MaxChanges /\ n > s
  BY DEF RecordsSession, Change
<1>2. /\ d \in JoinedDbs /\ d \in ArcDb /\ Joined(d) /\ d.ses \in Days /\ d.man \in Stamps
      /\ ToSet(d.tombs) \subseteq deleted
      /\ d.man # Absent => d.man \in Nat /\ d.man <= edits + 1 /\ d.man >= d.man
  BY <1>1, Start
<1>3. Change(x, e, {})
  <2>1. e = [held[x] EXCEPT !.ses[s] = r]
    BY <1>2 DEF ArcDb
  <2> QED BY <2>1 DEF RecordsSession
<1> HIDE DEF d
<1>4. r \in ArcSession /\ r.e = n /\ (r.ofP <=> d.prj # Absent) /\ r # Absent
  <2>1. (d.prj # Absent) \in BOOLEAN
    OBVIOUS
  <2>2. r \in ArcSession
    BY <2>1 DEF ArcSession
  <2> QED BY <2>2, AbsentDiffers
<1> HIDE DEF r
<1>5. ses \in [Slot -> MaybeSession] /\ \A i \in Slot : ses[i] = IF i = s THEN r ELSE d.ses[i]
  BY <1>2, <1>4 DEF Days, MaybeSession
<1> HIDE DEF ses
<1>6. ses \in Days
  BY <1>1, <1>2, <1>4, <1>5 DEF Days
<1>7. e \in ArcDb /\ e.ses = ses /\ e.prj = d.prj /\ e.man = d.man /\ e.tombs = d.tombs
  BY <1>2, <1>6, SesTyped
<1> HIDE DEF e
<1>8. e \in JoinedDbs
  BY <1>2, <1>4, <1>5, <1>7 DEF JoinedDbs, Joined
<1>9. ArcInv'
  BY <1>2, <1>3, <1>7, <1>8, ChangeKeeps
<1>10. VisibleTimeKept /\ EditsSurvive
  BY <1>2, <1>3, <1>7, ChangeSurvives DEF d
<1> QED BY <1>9, <1>10 DEF ArcStepOK

LEMMA SavesProjectKeeps ==
  ASSUME ArcInv, NEW x \in Side, SavesProject(x)
  PROVE  ArcStepOK
<1> DEFINE d == held[x]
           e == [d EXCEPT !.prj = ArcClock]
<1>1. edits < MaxChanges /\ Change(x, e, {})
  BY DEF SavesProject, Change
<1>2. /\ d \in ArcDb /\ d.man \in Stamps /\ ToSet(d.tombs) \subseteq deleted
      /\ d.man # Absent => d.man \in Nat /\ d.man <= edits + 1 /\ d.man >= d.man
      /\ ArcClock \in Stamps /\ ArcClock # Absent
  BY <1>1, Start
<1> HIDE DEF d
<1>3. e \in ArcDb /\ e.prj = ArcClock /\ e.man = d.man /\ e.tombs = d.tombs
  BY <1>2, StampTyped
<1> HIDE DEF e
<1>4. e \in JoinedDbs
  BY <1>2, <1>3 DEF JoinedDbs, Joined
<1>5. ArcInv'
  BY <1>1, <1>2, <1>3, <1>4, ChangeKeeps
<1>6. VisibleTimeKept /\ EditsSurvive
  BY <1>1, <1>2, <1>3, ChangeSurvives DEF d
<1> QED BY <1>5, <1>6 DEF ArcStepOK

LEMMA SavesManualKeeps ==
  ASSUME ArcInv, NEW x \in Side, SavesManual(x)
  PROVE  ArcStepOK
<1> DEFINE d == held[x]
           e == [d EXCEPT !.man = ArcClock]
<1>1. edits < MaxChanges /\ Change(x, e, {}) /\ d.prj # Absent
  BY DEF SavesManual, Change
<1>2. /\ d \in ArcDb /\ d.man \in Stamps /\ ToSet(d.tombs) \subseteq deleted
      /\ ArcClock \in Stamps /\ ArcClock # Absent /\ ArcClock <= edits + 1
      /\ d.man # Absent => ArcClock >= d.man
  BY <1>1, Start
<1> HIDE DEF d
<1>3. e \in ArcDb /\ e.prj = d.prj /\ e.man = ArcClock /\ e.tombs = d.tombs
  BY <1>2, StampTyped
<1> HIDE DEF e
<1>4. e \in JoinedDbs
  BY <1>1, <1>2, <1>3 DEF JoinedDbs, Joined
<1>5. ArcInv'
  BY <1>1, <1>2, <1>3, <1>4, ChangeKeeps
<1>6. VisibleTimeKept /\ EditsSurvive
  BY <1>1, <1>2, <1>3, ChangeSurvives DEF d
<1> QED BY <1>5, <1>6 DEF ArcStepOK

LEMMA AppendedTombs ==
  ASSUME NEW s \in Seq(ArcTomb), NEW t \in Seq(ArcTomb)
  PROVE  s \o t \in Seq(ArcTomb) /\ ToSet(s \o t) \subseteq ToSet(s) \cup ToSet(t)
BY DEF ToSet

LEMMA DropsManualKeeps ==
  ASSUME ArcInv, NEW x \in Side, DropsManual(x)
  PROVE  ArcStepOK
<1> DEFINE d == held[x]
           t == [tab |-> "manual_sessions", at |-> ArcClock]
           e == [d EXCEPT !.man = Absent, !.tombs = Append(d.tombs, t)]
<1>1. edits < MaxChanges /\ Change(x, e, {t}) /\ d.man # Absent
  BY DEF DropsManual, Change
<1>2. /\ d \in ArcDb /\ Joined(d) /\ d.man \in Stamps /\ d.tombs \in Seq(ArcTomb)
      /\ ToSet(d.tombs) \subseteq deleted
      /\ ArcClock \in 0..MaxChanges /\ ArcClock >= d.man
  BY <1>1, Start
<1> HIDE DEF d
<1>3. t \in ArcTomb /\ t.tab = "manual_sessions" /\ t.at = ArcClock
  BY <1>2 DEF ArcTomb
<1> HIDE DEF t
<1>4. Append(d.tombs, t) \in Seq(ArcTomb) /\ ToSet(Append(d.tombs, t)) \subseteq ToSet(d.tombs) \cup {t}
  BY <1>2, <1>3 DEF ToSet
<1>5. /\ e \in ArcDb /\ e.ses = d.ses /\ e.prj = d.prj /\ e.man = Absent
      /\ e.tombs = Append(d.tombs, t)
  BY <1>2, <1>4 DEF ArcDb, Stamps
<1> HIDE DEF e
<1>6. e \in JoinedDbs
  BY <1>2, <1>5 DEF JoinedDbs, Joined
<1>7. ToSet(e.tombs) \subseteq deleted \cup {t}
  BY <1>2, <1>4, <1>5
<1>8. ArcInv'
  BY <1>1, <1>5, <1>6, <1>7, ChangeKeeps
<1>9. \E u \in {t} : u.tab = "projects" \/ u.at >= d.man
  BY <1>2, <1>3
<1>10. e.man \in Stamps
  BY <1>5 DEF Stamps
<1>11. VisibleTimeKept /\ EditsSurvive
  BY <1>1, <1>9, <1>10, ChangeSurvives DEF d
<1> QED BY <1>8, <1>11 DEF ArcStepOK

LEMMA DropsProjectKeeps ==
  ASSUME ArcInv, NEW x \in Side, DropsProject(x)
  PROVE  ArcStepOK
<1> DEFINE d == held[x]
           m == [tab |-> "manual_sessions", at |-> ArcClock]
           p == [tab |-> "projects", at |-> ArcClock]
           mans == IF d.man = Absent THEN <<>> ELSE <<m>>
           ts == mans \o <<p>>
           ses == Orphaned(d.ses)
           e == [d EXCEPT !.ses = ses, !.prj = Absent, !.man = Absent, !.tombs = d.tombs \o ts]
<1>1. edits < MaxChanges /\ Change(x, e, ToSet(ts))
  BY DEF DropsProject, Change
<1>2. /\ d \in ArcDb /\ Joined(d) /\ d.man \in Stamps /\ d.tombs \in Seq(ArcTomb) /\ d.ses \in Days
      /\ ToSet(d.tombs) \subseteq deleted /\ ArcClock \in 0..MaxChanges
  BY <1>1, Start
<1> HIDE DEF d
<1>3. m \in ArcTomb /\ p \in ArcTomb /\ p.tab = "projects"
  BY <1>2 DEF ArcTomb
<1> HIDE DEF m, p
<1>4. ts \in Seq(ArcTomb) /\ p \in ToSet(ts)
  <2>1. mans \in Seq(ArcTomb)
    BY <1>3
  <2> HIDE DEF mans
  <2>2. ts \in Seq(ArcTomb) /\ Len(ts) \in 1..Len(ts) /\ ts[Len(ts)] = p
    BY <1>3, <2>1
  <2> QED BY <2>2 DEF ToSet
<1> HIDE DEF ts, mans
<1>5. d.tombs \o ts \in Seq(ArcTomb) /\ ToSet(d.tombs \o ts) \subseteq ToSet(d.tombs) \cup ToSet(ts)
  BY <1>2, <1>4, AppendedTombs
<1>6. ses \in Days /\ \A i \in Slot : ses[i] # Absent => ~ses[i].ofP
  BY <1>2, OrphanedKeeps
<1> HIDE DEF ses
<1>7. /\ e \in ArcDb /\ e.ses = ses /\ e.prj = Absent /\ e.man = Absent
      /\ e.tombs = d.tombs \o ts
  BY <1>2, <1>5, <1>6 DEF ArcDb, Stamps
<1> HIDE DEF e
<1>8. e \in JoinedDbs
  BY <1>6, <1>7 DEF JoinedDbs, Joined
<1>9. ToSet(e.tombs) \subseteq deleted \cup ToSet(ts)
  BY <1>2, <1>5, <1>7
<1>10. ArcInv'
  BY <1>1, <1>7, <1>8, <1>9, ChangeKeeps
<1>11. \E u \in ToSet(ts) : u.tab = "projects" \/ u.at >= d.man
  BY <1>3, <1>4
<1>12. e.man \in Stamps
  BY <1>7 DEF Stamps
<1>13. VisibleTimeKept /\ EditsSurvive
  BY <1>1, <1>11, <1>12, ChangeSurvives DEF d
<1> QED BY <1>10, <1>13 DEF ArcStepOK

LEMMA ExportKeeps ==
  ASSUME ArcInv, NEW x \in Side, build_export_archive(x)
  PROVE  ArcStepOK
<1>1. /\ Cardinality(files) < MaxFiles /\ held[x] \notin files /\ files' = files \cup {held[x]}
      /\ held' = held /\ edits' = edits /\ imports' = imports /\ deleted' = deleted
  BY DEF build_export_archive
<1>2. IsFiniteSet(files) /\ Cardinality(files) \in Nat /\ MaxFiles \in Nat
  BY FS_CardinalityType, ArcAssumption DEF ArcInv
<1>3. IsFiniteSet(files') /\ Cardinality(files') = Cardinality(files) + 1
  BY <1>1, <1>2, FS_AddElement
<1>4. \A f \in files' : Truthful(f)
  BY <1>1 DEF ArcInv
<1>5. (\A f \in files' : Truthful(f)') /\ \A y \in Side : Truthful(held[y])'
  BY <1>1, <1>4 DEF ArcInv, Truthful, Dated
<1>6. Cardinality(files') <= MaxFiles
  BY <1>1, <1>2, <1>3
<1>7. ArcInv'
  BY <1>1, <1>3, <1>5, <1>6 DEF ArcInv
<1>8. VisibleTimeKept /\ EditsSurvive
  <2>1. \A y \in Side : held[y].man # Absent => held[y].man \in Nat
    BY ArcAssumption DEF ArcInv, Truthful, JoinedDbs, ArcDb, Stamps
  <2> QED BY <1>1, <2>1 DEF VisibleTimeKept, EditsSurvive
<1> QED BY <1>7, <1>8 DEF ArcStepOK

LEMMA ArcNextInv == ArcInv /\ [ArcNext]_arcVars => ArcInv' /\ [VisibleTimeKept /\ EditsSurvive]_arcVars
<1> SUFFICES ASSUME ArcInv, [ArcNext]_arcVars
             PROVE  ArcInv' /\ [VisibleTimeKept /\ EditsSurvive]_arcVars
  OBVIOUS
<1>1. CASE ArcNext
  <2>1. PICK x \in Side :
          \/ ImportArchive(x) \/ build_export_archive(x)
          \/ SavesProject(x) \/ DropsProject(x) \/ SavesManual(x) \/ DropsManual(x)
          \/ \E s \in Slot : HidesSession(x, s) \/ \E e \in 1..SLOTS : RecordsSession(x, s, e)
    BY <1>1 DEF ArcNext
  <2>2. ASSUME ImportArchive(x) PROVE ArcStepOK
    BY <2>2, ImportArchiveKeeps DEF ArcStepOK
  <2>3. ASSUME build_export_archive(x) PROVE ArcStepOK
    BY <2>3, ExportKeeps
  <2>4. ASSUME SavesProject(x) PROVE ArcStepOK
    BY <2>4, SavesProjectKeeps
  <2>5. ASSUME DropsProject(x) PROVE ArcStepOK
    BY <2>5, DropsProjectKeeps
  <2>6. ASSUME SavesManual(x) PROVE ArcStepOK
    BY <2>6, SavesManualKeeps
  <2>7. ASSUME DropsManual(x) PROVE ArcStepOK
    BY <2>7, DropsManualKeeps
  <2>8. ASSUME NEW s \in Slot, HidesSession(x, s) PROVE ArcStepOK
    BY <2>8, HidesSessionKeeps
  <2>9. ASSUME NEW s \in Slot, NEW e \in 1..SLOTS, RecordsSession(x, s, e) PROVE ArcStepOK
    BY <2>9, RecordsSessionKeeps
  <2>10. ArcStepOK
    BY <2>1, <2>2, <2>3, <2>4, <2>5, <2>6, <2>7, <2>8, <2>9
  <2> QED BY <2>10 DEF ArcStepOK
<1>2. CASE UNCHANGED arcVars
  <2>1. held' = held /\ files' = files /\ edits' = edits /\ imports' = imports /\ deleted' = deleted
    BY <1>2 DEF arcVars
  <2> QED BY <1>2, <2>1 DEF ArcInv, Truthful, Dated
<1> QED BY <1>1, <1>2

LEMMA ArcInvHolds == ArcSpec => []ArcInv
<1>1. ArcInit => ArcInv
  BY ArcInitInv
<1>2. ArcInv /\ [ArcNext]_arcVars => ArcInv'
  BY ArcNextInv
<1> QED BY <1>1, <1>2, PTL DEF ArcSpec

\* The databases have their types, their sessions end after they start, and their rows refer to rows
\* that are there (the foreign keys), whatever import_archive_into_tx merges into them.
THEOREM ArcTypeTheorem == ArcSpec => []ArcTypeOK
<1>1. ArcInv => ArcTypeOK
  <2> SUFFICES ASSUME ArcInv PROVE ArcTypeOK
    OBVIOUS
  <2>1. \A x \in Side :
          /\ held[x] \in ArcDb /\ Joined(held[x]) /\ held[x].ses \in Days
          /\ held[x].prj \in Stamps /\ held[x].man \in Stamps /\ held[x].tombs \in Seq(ArcTomb)
    BY DEF ArcInv, Truthful, JoinedDbs, ArcDb
  <2>2. \A x \in Side : \A s \in Slot :
          held[x].ses[s] = Absent \/ (held[x].ses[s] \in ArcSession /\ held[x].ses[s].e > s)
    BY <2>1 DEF Days, MaybeSession
  <2> QED BY <2>1, <2>2 DEF ArcInv, ArcTypeOK, Joined, Stamps
<1> QED BY <1>1, ArcInvHolds, PTL

\* No import (its triggers dropped), however old its archive, makes a deletion that no user made:
\* every tombstone in a database or an archive is one of a deletion, at the time it says.
THEOREM DeletionsAreRealTheorem == ArcSpec => []DeletionsAreReal
<1>1. ArcInv => DeletionsAreReal
  BY DEF ArcInv, Truthful, DeletionsAreReal
<1> QED BY <1>1, ArcInvHolds, PTL

\* No import (merge_or_insert_session), of any archive in any order of its rows, hides time that was
\* visible in the database or in the archive, and none takes or ages a manual session but for a
\* deletion after its change.
THEOREM ImportTheorem == ArcSpec => ImportKeepsWork
<1>1. ArcInv /\ [ArcNext]_arcVars => [VisibleTimeKept /\ EditsSurvive]_arcVars
  BY ArcNextInv
<1> QED BY <1>1, ArcInvHolds, PTL DEF ArcSpec, ImportKeepsWork

-----------------------------------------------------------------------------
(* Tombstone replay: after each iteration the transaction holds what        *)
(* apply_tombstones says of the tombstones replayed so far.                 *)

\* The body of apply_tombstones, for the tombstones F that are not recorded yet.
Applied(db, F) ==
  LET gone == DeletedProjects(db, F)
      dA   == DeletedApps(db, F, Now)
      dS   == DeletedSessions(db, F, Now)
      dM   == DeletedManuals(db, F, Now)
  IN [db EXCEPT
        !.projects  = [p \in Projects |-> IF p \in gone THEN None ELSE db.projects[p]],
        !.blacklist = {p \in db.blacklist : ~(p \in gone /\ db.projects[p].excl)},
        !.apps      = [a \in Apps |-> IF a \in dA THEN None ELSE Detach(db.apps, a, gone, Now)],
        !.sessions  = [s \in Sessions |->
                         IF s \in dS THEN None ELSE Detach(db.sessions, s, gone, Now)],
        !.manuals   = [m \in Manuals |->
                         IF m \in dM THEN None ELSE Detach(db.manuals, m, gone, Now)],
        !.tombs     = db.tombs \cup F]

LEMMA AppliedIs ==
  ASSUME NEW db, NEW S
  PROVE  apply_tombstones(db, [tombs |-> S], Now) = Applied(db, Fresh(db, [tombs |-> S]))
BY DEF apply_tombstones, Applied

\* The tombstones replayed so far come before those that are left.
Replayed == sent \ left
Done == Fresh(local, [tombs |-> Replayed])

ReplayInv ==
  /\ local \in Db /\ sent \subseteq Tomb /\ left \subseteq sent /\ \A t \in sent : KeyFits(t)
  /\ \A t \in Replayed, u \in left : ~Before(u, t)
  /\ \A t \in Replayed : \E u \in tx.tombs : SameRecord(t, u)
  /\ tx = Applied(local, Done)

\* Tombstones that are replayed before t.
Earlier(F, t) == \A u \in F : u.at <= t.at /\ (u.at = t.at => Rank(u) <= Rank(t))

\* What F \cup {t} deletes of a database more than F, when all of F comes before t.
LEMMA StampsStay ==
  ASSUME NEW db, NEW F, NEW t, NEW row, NEW at, at <= t.at, t.at \in Nat, at \in Nat
  PROVE  TsAt(db, F \cup {t}, row, at, Now) = TsAt(db, F, row, at, Now)
BY DEF TsAt

\* The fields of what is applied.
LEMMA AppliedFields ==
  ASSUME NEW db \in Db, NEW F
  PROVE  LET r == Applied(db, F)
             gone == DeletedProjects(db, F)
         IN /\ r.projects = [p \in Projects |-> IF p \in gone THEN None ELSE db.projects[p]]
            /\ r.blacklist = {p \in db.blacklist : ~(p \in gone /\ db.projects[p].excl)}
            /\ r.apps = [a \in Apps |-> IF a \in DeletedApps(db, F, Now) THEN None
                                        ELSE Detach(db.apps, a, gone, Now)]
            /\ r.sessions = [s \in Sessions |-> IF s \in DeletedSessions(db, F, Now) THEN None
                                                ELSE Detach(db.sessions, s, gone, Now)]
            /\ r.manuals = [m \in Manuals |-> IF m \in DeletedManuals(db, F, Now) THEN None
                                              ELSE Detach(db.manuals, m, gone, Now)]
            /\ r.tombs = db.tombs \cup F /\ r.markers = db.markers
            /\ DOMAIN r = {"projects", "blacklist", "apps", "sessions", "manuals", "tombs", "markers"}
BY DEF Applied, Db

LEMMA Ranks ==
  ASSUME NEW t \in Tomb
  PROVE  /\ t.tab = "projects" => Rank(t) = 2
         /\ t.tab = "applications" => Rank(t) = 1
         /\ t.tab = "sessions" => Rank(t) = 0
         /\ t.tab = "manual_sessions" => Rank(t) = 0
         /\ Rank(t) \in {0, 1, 2} /\ t.at \in Nat
         /\ t.tab \in {"projects", "applications", "sessions", "manual_sessions"}
BY DEF Tomb, Rank

\* Whether a tombstone deletes a row depends on those before it only.
LEMMA SameDeletions ==
  ASSUME NEW db, NEW F \in SUBSET Tomb, NEW t \in Tomb, Earlier(F, t)
  PROVE  LET G == F \cup {t}
         IN \A u \in G :
              /\ \A s : DeletesSession(db, G, u, s, Now) <=> DeletesSession(db, F, u, s, Now)
              /\ \A m : DeletesManual(db, G, u, m, Now) <=> DeletesManual(db, F, u, m, Now)
              /\ \A a : DeletesApp(db, G, u, a, Now) <=> DeletesApp(db, F, u, a, Now)
<1> DEFINE G == F \cup {t}
<1> SUFFICES ASSUME NEW u \in G
             PROVE  /\ \A s : DeletesSession(db, G, u, s, Now) <=> DeletesSession(db, F, u, s, Now)
                    /\ \A m : DeletesManual(db, G, u, m, Now) <=> DeletesManual(db, F, u, m, Now)
                    /\ \A a : DeletesApp(db, G, u, a, Now) <=> DeletesApp(db, F, u, a, Now)
  OBVIOUS
<1>1. \A v \in G : v \in Tomb /\ v.at \in Nat /\ v.at <= t.at
  BY Ranks DEF Earlier
<1>2. t.at \in Nat
  BY Ranks
<1>3. \A row : \A v \in G : TsAt(db, G, row, v.at, Now) = TsAt(db, F, row, v.at, Now)
  BY <1>1, <1>2, StampsStay
<1> HIDE DEF G
<1>4. \A v \in G : \A s : DeletesSession(db, G, v, s, Now) <=> DeletesSession(db, F, v, s, Now)
  BY <1>3 DEF DeletesSession
<1>5. \A m : DeletesManual(db, G, u, m, Now) <=> DeletesManual(db, F, u, m, Now)
  BY <1>3 DEF DeletesManual
<1>6. ASSUME NEW a
      PROVE  DeletesApp(db, G, u, a, Now) <=> DeletesApp(db, F, u, a, Now)
  <2>1. CASE u.tab # "applications"
    BY <2>1 DEF DeletesApp
  <2>2. CASE u.tab = "applications"
    <3>1. ASSUME NEW s, NEW v \in G, v.at <= u.at, DeletesSession(db, G, v, s, Now)
          PROVE  v \in F
      <4>1. v.tab = "sessions"
        BY <3>1 DEF DeletesSession
      <4>2. SUFFICES ASSUME v = t PROVE FALSE
        BY DEF G
      <4>3. u # t /\ u \in F
        BY <2>2, <4>1, <4>2 DEF G
      <4>4. u.at = t.at
        BY <1>1, <1>2, <3>1, <4>2
      <4>5. Rank(u) = 1 /\ Rank(t) = 0
        BY <1>1, <2>2, <4>1, <4>2, Ranks
      <4> QED BY <4>3, <4>4, <4>5 DEF Earlier
    <3>2. ASSUME NEW s
          PROVE  (\E v \in G : v.at <= u.at /\ DeletesSession(db, G, v, s, Now))
                   <=> (\E v \in F : v.at <= u.at /\ DeletesSession(db, F, v, s, Now))
      <4>1. F \subseteq G
        BY DEF G
      <4> QED BY <1>4, <3>1, <4>1
    <3> QED BY <1>3, <3>2 DEF DeletesApp
  <2> QED BY <2>1, <2>2
<1> QED BY <1>4, <1>5, <1>6

\* What F deletes, and what t deletes when F has been replayed.
ProjectsWith(db, F, t) ==
  DeletedProjects(db, F) \cup {p \in Projects : DeletesProject(db, t, p)}
AppsWith(db, F, t) ==
  DeletedApps(db, F, Now) \cup {a \in Apps : db.apps[a] # None /\ DeletesApp(db, F, t, a, Now)}
SessionsWith(db, F, t) ==
  DeletedSessions(db, F, Now)
    \cup {s \in Sessions : db.sessions[s] # None
            /\ (AppOf[s] \in DeletedApps(db, F \cup {t}, Now) \/ DeletesSession(db, F, t, s, Now))}
ManualsWith(db, F, t) ==
  DeletedManuals(db, F, Now)
    \cup {m \in Manuals : db.manuals[m] # None /\ DeletesManual(db, F, t, m, Now)}

\* What one more tombstone deletes.
LEMMA MoreDeleted ==
  ASSUME NEW db, NEW F \in SUBSET Tomb, NEW t \in Tomb, Earlier(F, t)
  PROVE  /\ DeletedProjects(db, F \cup {t}) = ProjectsWith(db, F, t)
         /\ DeletedApps(db, F \cup {t}, Now) = AppsWith(db, F, t)
         /\ DeletedSessions(db, F \cup {t}, Now) = SessionsWith(db, F, t)
         /\ DeletedManuals(db, F \cup {t}, Now) = ManualsWith(db, F, t)
<1> DEFINE G == F \cup {t}
<1>1. \A u \in G :
              /\ \A s : DeletesSession(db, G, u, s, Now) <=> DeletesSession(db, F, u, s, Now)
              /\ \A m : DeletesManual(db, G, u, m, Now) <=> DeletesManual(db, F, u, m, Now)
              /\ \A a : DeletesApp(db, G, u, a, Now) <=> DeletesApp(db, F, u, a, Now)
  BY SameDeletions
<1>2. DeletedProjects(db, G) = ProjectsWith(db, F, t)
  BY DEF DeletedProjects, ProjectsWith
<1>3. \A u : u \in G <=> u \in F \/ u = t
  OBVIOUS
<1>4. DeletedApps(db, G, Now) = AppsWith(db, F, t)
  <2> HIDE DEF G
  <2> QED BY <1>1, <1>3 DEF DeletedApps, AppsWith
<1>5. DeletedManuals(db, G, Now) = ManualsWith(db, F, t)
  <2> HIDE DEF G
  <2> QED BY <1>1, <1>3 DEF DeletedManuals, ManualsWith
<1>6. DeletedSessions(db, G, Now)
        = DeletedSessions(db, F, Now)
            \cup {s \in Sessions : db.sessions[s] # None
                    /\ (AppOf[s] \in DeletedApps(db, G, Now) \/ DeletesSession(db, F, t, s, Now))}
  <2> HIDE DEF G
  <2>1. DeletedApps(db, F, Now) \subseteq DeletedApps(db, G, Now)
    BY <1>4 DEF AppsWith
  <2> QED BY <1>1, <1>3, <2>1 DEF DeletedSessions
<1>7. DeletedSessions(db, G, Now) = SessionsWith(db, F, t)
  BY <1>6 DEF SessionsWith
<1> QED BY <1>2, <1>4, <1>5, <1>7

\* A row with another project.
LEMMA Pointed ==
  ASSUME NEW row, row \in AppRow \/ row \in SessionRow \/ row \in ManualRow
  PROVE  /\ Point(row, None, Now) # None /\ row # None
         /\ Point(row, None, Now).ts = Now /\ Point(row, None, Now).proj = None
         /\ row.proj \in ProjectRef
<1>1. CASE row \in AppRow
  BY <1>1, NoneAssumption, ReplayAssumption DEF Point, AppRow, ProjectRef
<1>2. CASE row \in SessionRow
  BY <1>2, NoneAssumption, ReplayAssumption DEF Point, SessionRow, ProjectRef
<1>3. CASE row \in ManualRow
  BY <1>3, NoneAssumption, ReplayAssumption DEF Point, ManualRow, ProjectRef
<1> QED BY <1>1, <1>2, <1>3

\* The stamp that the transaction holds of a row is the one that apply_tombstones compares with.
LEMMA DetachedStamp ==
  ASSUME NEW db, NEW F \in SUBSET Tomb, NEW t \in Tomb, Earlier(F, t), t.tab # "projects",
         NEW rows, NEW k, rows[k] \in AppRow \/ rows[k] \in SessionRow \/ rows[k] \in ManualRow
  PROVE  /\ Detach(rows, k, DeletedProjects(db, F), Now).ts = TsAt(db, F, rows[k], t.at, Now)
         /\ Detach(rows, k, DeletedProjects(db, F), Now) # None
<1> DEFINE row == rows[k]
           gone == DeletedProjects(db, F)
<1>1. /\ Point(row, None, Now) # None /\ row # None
      /\ Point(row, None, Now).ts = Now /\ row.proj \in Projects \cup {None}
  BY Pointed DEF ProjectRef
<1>2. row.proj \in gone <=> \E u \in F : row.proj # None /\ DeletesProject(db, u, row.proj) /\ u.at < t.at
  <2>1. ASSUME NEW u \in F, DeletesProject(db, u, row.proj)
        PROVE  u.at < t.at
    <3>1. Rank(u) = 2 /\ Rank(t) \in {0, 1} /\ u.at \in Nat /\ t.at \in Nat
      BY <2>1, Ranks DEF DeletesProject
    <3> QED BY <3>1 DEF Earlier
  <2> HIDE DEF row
  <2> QED BY <1>1, <2>1, NoneAssumption DEF DeletedProjects
<1> QED BY <1>1, <1>2 DEF Detach, TsAt

\* A database by its tables.
Tables(P, B, A, S, M, T, K) ==
  [projects |-> P, blacklist |-> B, apps |-> A, sessions |-> S, manuals |-> M, tombs |-> T, markers |-> K]

ProjectsLeft(db, F) == [p \in Projects |-> IF p \in DeletedProjects(db, F) THEN None ELSE db.projects[p]]
NamesBanned(db, F) == {p \in db.blacklist : ~(p \in DeletedProjects(db, F) /\ db.projects[p].excl)}
AppsLeft(db, F) ==
  [a \in Apps |-> IF a \in DeletedApps(db, F, Now) THEN None
                  ELSE Detach(db.apps, a, DeletedProjects(db, F), Now)]
SessionsLeft(db, F) ==
  [s \in Sessions |-> IF s \in DeletedSessions(db, F, Now) THEN None
                      ELSE Detach(db.sessions, s, DeletedProjects(db, F), Now)]
ManualsLeft(db, F) ==
  [m \in Manuals |-> IF m \in DeletedManuals(db, F, Now) THEN None
                     ELSE Detach(db.manuals, m, DeletedProjects(db, F), Now)]

LEMMA AppliedTables ==
  ASSUME NEW db \in Db, NEW F
  PROVE  Applied(db, F) = Tables(ProjectsLeft(db, F), NamesBanned(db, F), AppsLeft(db, F),
                                 SessionsLeft(db, F), ManualsLeft(db, F), db.tombs \cup F, db.markers)
<1> DEFINE P == ProjectsLeft(db, F)
           B == NamesBanned(db, F)
           A == AppsLeft(db, F)
           S == SessionsLeft(db, F)
           M == ManualsLeft(db, F)
           T == db.tombs \cup F
<1>1. Applied(db, F) = [db EXCEPT !.projects = P, !.blacklist = B, !.apps = A, !.sessions = S,
                                  !.manuals = M, !.tombs = T]
  BY DEF Applied, ProjectsLeft, NamesBanned, AppsLeft, SessionsLeft, ManualsLeft
<1>2. db = Tables(db.projects, db.blacklist, db.apps, db.sessions, db.manuals, db.tombs, db.markers)
  BY DEF Db, Tables
<1> HIDE DEF P, B, A, S, M, T
<1>3. [db EXCEPT !.projects = P, !.blacklist = B, !.apps = A, !.sessions = S, !.manuals = M, !.tombs = T]
        = Tables(P, B, A, S, M, T, db.markers)
  <2> DEFINE s1 == Tables(P, db.blacklist, db.apps, db.sessions, db.manuals, db.tombs, db.markers)
             s2 == Tables(P, B, db.apps, db.sessions, db.manuals, db.tombs, db.markers)
             s3 == Tables(P, B, A, db.sessions, db.manuals, db.tombs, db.markers)
             s4 == Tables(P, B, A, S, db.manuals, db.tombs, db.markers)
             s5 == Tables(P, B, A, S, M, db.tombs, db.markers)
             s6 == Tables(P, B, A, S, M, T, db.markers)
  <2>1. [db EXCEPT !.projects = P] = s1
    BY <1>2 DEF Tables
  <2>2. [s1 EXCEPT !.blacklist = B] = s2
    BY DEF Tables
  <2>3. [s2 EXCEPT !.apps = A] = s3
    BY DEF Tables
  <2>4. [s3 EXCEPT !.sessions = S] = s4
    BY DEF Tables
  <2>5. [s4 EXCEPT !.manuals = M] = s5
    BY DEF Tables
  <2>6. [s5 EXCEPT !.tombs = T] = s6
    BY DEF Tables
  <2> HIDE DEF s1, s2, s3, s4, s5, s6
  <2>7. [db EXCEPT !.projects = P, !.blacklist = B, !.apps = A, !.sessions = S, !.manuals = M, !.tombs = T]
          = [[[[[[db EXCEPT !.projects = P] EXCEPT !.blacklist = B] EXCEPT !.apps = A]
                  EXCEPT !.sessions = S] EXCEPT !.manuals = M] EXCEPT !.tombs = T]
    OBVIOUS
  <2> QED BY <2>1, <2>2, <2>3, <2>4, <2>5, <2>6, <2>7 DEF s6
<1> QED BY <1>1, <1>3 DEF P, B, A, S, M, T

\* Nothing replayed: the database as it is.
LEMMA NothingApplied ==
  ASSUME NEW db \in Db
  PROVE  Applied(db, {}) = db
<1>1. /\ DeletedProjects(db, {}) = {} /\ DeletedApps(db, {}, Now) = {}
      /\ DeletedSessions(db, {}, Now) = {} /\ DeletedManuals(db, {}, Now) = {}
  BY DEF DeletedProjects, DeletedApps, DeletedSessions, DeletedManuals
<1>2. /\ db.projects = [p \in Projects |-> db.projects[p]] /\ db.apps = [a \in Apps |-> db.apps[a]]
      /\ db.sessions = [s \in Sessions |-> db.sessions[s]] /\ db.manuals = [m \in Manuals |-> db.manuals[m]]
  BY DEF Db
<1>3. /\ ProjectsLeft(db, {}) = db.projects /\ NamesBanned(db, {}) = db.blacklist
      /\ AppsLeft(db, {}) = db.apps /\ SessionsLeft(db, {}) = db.sessions
      /\ ManualsLeft(db, {}) = db.manuals /\ db.tombs \cup {} = db.tombs
  BY <1>1, <1>2 DEF ProjectsLeft, NamesBanned, AppsLeft, SessionsLeft, ManualsLeft, Detach
<1>4. db = Tables(db.projects, db.blacklist, db.apps, db.sessions, db.manuals, db.tombs, db.markers)
  BY DEF Db, Tables
<1> QED BY <1>3, <1>4, AppliedTables

\* What is left of the rows of a table after the replay of F.
Rest(rows, K, dels, gone) == [k \in K |-> IF k \in dels THEN None ELSE Detach(rows, k, gone, Now)]

\* A table of rows that may belong to a project.
PointedRows(rows, K) ==
  \A k \in K : rows[k] = None \/ rows[k] \in AppRow \/ rows[k] \in SessionRow \/ rows[k] \in ManualRow

\* The rows of a table without the project p.
DetachedFrom(rows, K, p) == [k \in K |-> Detach(rows, k, {p}, Now)]

\* One more project is gone.
LEMMA RestOnce ==
  ASSUME NEW rows, NEW K, NEW dels, NEW gone \in SUBSET Projects, NEW p \in Projects, PointedRows(rows, K)
  PROVE  DetachedFrom(Rest(rows, K, dels, gone), K, p) = Rest(rows, K, dels, gone \cup {p})
<1> DEFINE r == Rest(rows, K, dels, gone)
<1> SUFFICES ASSUME NEW k \in K
             PROVE  Detach(r, k, {p}, Now)
                      = IF k \in dels THEN None ELSE Detach(rows, k, gone \cup {p}, Now)
  BY DEF Rest, DetachedFrom
<1>1. r[k] = IF k \in dels THEN None ELSE Detach(rows, k, gone, Now)
  BY DEF Rest
<1> HIDE DEF r
<1>2. CASE k \in dels \/ rows[k] = None
  BY <1>1, <1>2 DEF Detach
<1>3. CASE k \notin dels /\ rows[k] # None
  <2>1. /\ Point(rows[k], None, Now) # None /\ Point(rows[k], None, Now).proj = None
    BY <1>3, Pointed DEF PointedRows
  <2>2. None # p
    BY NoneAssumption
  <2> QED BY <1>1, <1>3, <2>1, <2>2 DEF Detach
<1> QED BY <1>2, <1>3

\* The rows of a database.
LEMMA RowsOf ==
  ASSUME NEW db \in Db
  PROVE  /\ \A a \in Apps : db.apps[a] = None \/ db.apps[a] \in AppRow
         /\ \A s \in Sessions : db.sessions[s] = None \/ db.sessions[s] \in SessionRow
         /\ \A m \in Manuals : db.manuals[m] = None \/ db.manuals[m] \in ManualRow
         /\ \A p \in Projects : db.projects[p] = None \/ db.projects[p] \in ProjectRow
BY DEF Db

LEMMA RestIs ==
  ASSUME NEW db, NEW F
  PROVE  /\ AppsLeft(db, F) = Rest(db.apps, Apps, DeletedApps(db, F, Now), DeletedProjects(db, F))
         /\ SessionsLeft(db, F)
               = Rest(db.sessions, Sessions, DeletedSessions(db, F, Now), DeletedProjects(db, F))
         /\ ManualsLeft(db, F) = Rest(db.manuals, Manuals, DeletedManuals(db, F, Now), DeletedProjects(db, F))
BY DEF AppsLeft, SessionsLeft, ManualsLeft, Rest

\* Steps that change tables.
AllReplaced(d, P, B, A, S, M) ==
  [d EXCEPT !.projects = P, !.blacklist = B, !.apps = A, !.sessions = S, !.manuals = M]
TimeReplaced(d, A, S) == [d EXCEPT !.apps = A, !.sessions = S]
SessionsReplaced(d, S) == [d EXCEPT !.sessions = S]
ManualsReplaced(d, M) == [d EXCEPT !.manuals = M]

\* What they lead to.
LEMMA RecordTables ==
  ASSUME NEW P, NEW B, NEW A, NEW S, NEW M, NEW T, NEW K, NEW t
  PROVE  Record(Tables(P, B, A, S, M, T, K), t) = Tables(P, B, A, S, M, T \cup {t}, K)
<1> DEFINE e == Tables(P, B, A, S, M, T, K)
<1>1. e.tombs = T
  BY DEF Tables
<1>2. [e EXCEPT !.tombs = T \cup {t}] = Tables(P, B, A, S, M, T \cup {t}, K)
  BY DEF Tables
<1> HIDE DEF e
<1>3. Record(e, t) = [e EXCEPT !.tombs = e.tombs \cup {t}]
  BY DEF Record
<1> QED BY <1>1, <1>2, <1>3 DEF e

LEMMA AllTables ==
  ASSUME NEW P, NEW B, NEW A, NEW S, NEW M, NEW T, NEW K, NEW P2, NEW B2, NEW A2, NEW S2, NEW M2
  PROVE  AllReplaced(Tables(P, B, A, S, M, T, K), P2, B2, A2, S2, M2) = Tables(P2, B2, A2, S2, M2, T, K)
<1> DEFINE d == Tables(P, B, A, S, M, T, K)
           s1 == Tables(P2, B, A, S, M, T, K)
           s2 == Tables(P2, B2, A, S, M, T, K)
           s3 == Tables(P2, B2, A2, S, M, T, K)
           s4 == Tables(P2, B2, A2, S2, M, T, K)
           s5 == Tables(P2, B2, A2, S2, M2, T, K)
<1>1. [d EXCEPT !.projects = P2] = s1
  BY DEF Tables
<1>2. [s1 EXCEPT !.blacklist = B2] = s2
  BY DEF Tables
<1>3. [s2 EXCEPT !.apps = A2] = s3
  BY DEF Tables
<1>4. [s3 EXCEPT !.sessions = S2] = s4
  BY DEF Tables
<1>5. [s4 EXCEPT !.manuals = M2] = s5
  BY DEF Tables
<1> HIDE DEF d, s1, s2, s3, s4, s5
<1>6. AllReplaced(d, P2, B2, A2, S2, M2)
        = [[[[[d EXCEPT !.projects = P2] EXCEPT !.blacklist = B2] EXCEPT !.apps = A2]
             EXCEPT !.sessions = S2] EXCEPT !.manuals = M2]
  BY DEF AllReplaced
<1> QED BY <1>1, <1>2, <1>3, <1>4, <1>5, <1>6 DEF d, s5

LEMMA TimeTables ==
  ASSUME NEW P, NEW B, NEW A, NEW S, NEW M, NEW T, NEW K, NEW A2, NEW S2
  PROVE  TimeReplaced(Tables(P, B, A, S, M, T, K), A2, S2) = Tables(P, B, A2, S2, M, T, K)
<1> DEFINE d == Tables(P, B, A, S, M, T, K)
           s1 == Tables(P, B, A2, S, M, T, K)
           s2 == Tables(P, B, A2, S2, M, T, K)
<1>1. [d EXCEPT !.apps = A2] = s1
  BY DEF Tables
<1>2. [s1 EXCEPT !.sessions = S2] = s2
  BY DEF Tables
<1> HIDE DEF d, s1, s2
<1>3. TimeReplaced(d, A2, S2) = [[d EXCEPT !.apps = A2] EXCEPT !.sessions = S2]
  BY DEF TimeReplaced
<1> QED BY <1>1, <1>2, <1>3 DEF d, s2

LEMMA SessionTables ==
  ASSUME NEW P, NEW B, NEW A, NEW S, NEW M, NEW T, NEW K, NEW S2
  PROVE  SessionsReplaced(Tables(P, B, A, S, M, T, K), S2) = Tables(P, B, A, S2, M, T, K)
BY DEF Tables, SessionsReplaced

LEMMA ManualTables ==
  ASSUME NEW P, NEW B, NEW A, NEW S, NEW M, NEW T, NEW K, NEW M2
  PROVE  ManualsReplaced(Tables(P, B, A, S, M, T, K), M2) = Tables(P, B, A, S, M2, T, K)
BY DEF Tables, ManualsReplaced

\* Where the loop is: F is replayed, t comes next.
ComesNext(F, t) ==
  /\ local \in Db /\ F \in SUBSET Tomb /\ tx = Applied(local, F)
  /\ t \in Tomb /\ KeyFits(t) /\ Earlier(F, t)

\* The rows that the transaction has.
LEMMA TxRows ==
  ASSUME NEW F, NEW t, ComesNext(F, t)
  PROVE  LET gone == DeletedProjects(local, F)
             G == F \cup {t}
         IN /\ tx = Tables(ProjectsLeft(local, F), NamesBanned(local, F), AppsLeft(local, F),
                           SessionsLeft(local, F), ManualsLeft(local, F), local.tombs \cup F, local.markers)
            /\ Applied(local, G) = Tables(ProjectsLeft(local, G), NamesBanned(local, G), AppsLeft(local, G),
                                          SessionsLeft(local, G), ManualsLeft(local, G),
                                          (local.tombs \cup F) \cup {t}, local.markers)
            /\ tx.projects = ProjectsLeft(local, F) /\ tx.blacklist = NamesBanned(local, F)
            /\ tx.apps = Rest(local.apps, Apps, DeletedApps(local, F, Now), gone)
            /\ tx.sessions = Rest(local.sessions, Sessions, DeletedSessions(local, F, Now), gone)
            /\ tx.manuals = Rest(local.manuals, Manuals, DeletedManuals(local, F, Now), gone)
            /\ gone \in SUBSET Projects
<1>1. local \in Db /\ tx = Applied(local, F)
  BY DEF ComesNext
<1>2. tx = Tables(ProjectsLeft(local, F), NamesBanned(local, F), AppsLeft(local, F),
                  SessionsLeft(local, F), ManualsLeft(local, F), local.tombs \cup F, local.markers)
  BY <1>1, AppliedTables
<1>3. /\ tx.projects = ProjectsLeft(local, F) /\ tx.blacklist = NamesBanned(local, F)
      /\ tx.apps = AppsLeft(local, F) /\ tx.sessions = SessionsLeft(local, F)
      /\ tx.manuals = ManualsLeft(local, F)
  BY <1>2 DEF Tables
<1>4. Applied(local, F \cup {t})
        = Tables(ProjectsLeft(local, F \cup {t}), NamesBanned(local, F \cup {t}), AppsLeft(local, F \cup {t}),
                 SessionsLeft(local, F \cup {t}), ManualsLeft(local, F \cup {t}),
                 local.tombs \cup (F \cup {t}), local.markers)
  BY <1>1, AppliedTables
<1>5. local.tombs \cup (F \cup {t}) = (local.tombs \cup F) \cup {t}
  OBVIOUS
<1>6. DeletedProjects(local, F) \in SUBSET Projects
  BY DEF DeletedProjects
<1> QED BY <1>2, <1>3, <1>4, <1>5, <1>6, RestIs

\* What t deletes beside F.
LEMMA AlsoDeleted ==
  ASSUME NEW F, NEW t, ComesNext(F, t)
  PROVE  /\ DeletedProjects(local, F \cup {t}) = ProjectsWith(local, F, t)
         /\ DeletedApps(local, F \cup {t}, Now) = AppsWith(local, F, t)
         /\ DeletedSessions(local, F \cup {t}, Now) = SessionsWith(local, F, t)
         /\ DeletedManuals(local, F \cup {t}, Now) = ManualsWith(local, F, t)
<1>1. F \in SUBSET Tomb /\ t \in Tomb /\ Earlier(F, t)
  BY DEF ComesNext
<1> QED BY <1>1, MoreDeleted

\* The same, if it is of another table.
LEMMA OtherTables ==
  ASSUME NEW F, NEW t, ComesNext(F, t)
  PROVE  LET G == F \cup {t}
         IN /\ t.tab # "projects" => DeletedProjects(local, G) = DeletedProjects(local, F)
            /\ t.tab # "applications" => DeletedApps(local, G, Now) = DeletedApps(local, F, Now)
            /\ t.tab \notin {"applications", "sessions"}
                 => DeletedSessions(local, G, Now) = DeletedSessions(local, F, Now)
            /\ t.tab # "manual_sessions" => DeletedManuals(local, G, Now) = DeletedManuals(local, F, Now)
<1> DEFINE G == F \cup {t}
<1>2. /\ t.tab # "projects" => \A p : ~DeletesProject(local, t, p)
      /\ t.tab # "applications" => \A a : ~DeletesApp(local, F, t, a, Now)
      /\ t.tab # "sessions" => \A s : ~DeletesSession(local, F, t, s, Now)
      /\ t.tab # "manual_sessions" => \A m : ~DeletesManual(local, F, t, m, Now)
  BY DEF DeletesProject, DeletesApp, DeletesSession, DeletesManual
<1>3. /\ DeletedProjects(local, G) = ProjectsWith(local, F, t)
      /\ DeletedApps(local, G, Now) = AppsWith(local, F, t)
      /\ DeletedSessions(local, G, Now) = SessionsWith(local, F, t)
      /\ DeletedManuals(local, G, Now) = ManualsWith(local, F, t)
  BY AlsoDeleted
<1>4. t.tab # "projects" => DeletedProjects(local, G) = DeletedProjects(local, F)
  BY <1>2, <1>3 DEF ProjectsWith
<1>5. t.tab # "applications" => DeletedApps(local, G, Now) = DeletedApps(local, F, Now)
  BY <1>2, <1>3 DEF AppsWith
<1>6. t.tab # "manual_sessions" => DeletedManuals(local, G, Now) = DeletedManuals(local, F, Now)
  BY <1>2, <1>3 DEF ManualsWith
<1>7. ASSUME t.tab \notin {"applications", "sessions"}
      PROVE  DeletedSessions(local, G, Now) = DeletedSessions(local, F, Now)
  <2>1. \A s \in Sessions : local.sessions[s] # None /\ AppOf[s] \in DeletedApps(local, F, Now)
          => s \in DeletedSessions(local, F, Now)
    BY DEF DeletedSessions
  <2>2. DeletedSessions(local, G, Now)
          = DeletedSessions(local, F, Now)
              \cup {s \in Sessions : local.sessions[s] # None
                      /\ (AppOf[s] \in DeletedApps(local, G, Now) \/ DeletesSession(local, F, t, s, Now))}
    BY <1>3 DEF SessionsWith
  <2> HIDE DEF G
  <2> QED BY <1>2, <1>5, <1>7, <2>1, <2>2
<1> QED BY <1>4, <1>5, <1>6, <1>7

LEMMA DeleteProjectApplies ==
  ASSUME NEW F, NEW t, ComesNext(F, t), DeleteProject(t)
  PROVE  tx' = Applied(local, F \cup {t})
<1> DEFINE G == F \cup {t}
           p == t.key
           gone == DeletedProjects(local, F)
           P2 == [tx.projects EXCEPT ![p] = None]
           B2 == IF tx.projects[p].excl THEN tx.blacklist \ {p} ELSE tx.blacklist
           A2 == DetachedFrom(tx.apps, Apps, p)
           S2 == DetachedFrom(tx.sessions, Sessions, p)
           M2 == DetachedFrom(tx.manuals, Manuals, p)
<1>1. t.tab = "projects" /\ RowIn(tx.projects, p, t) /\ p \in Projects
  BY DEF DeleteProject, ComesNext, KeyFits
<1>2. tx' = Record(AllReplaced(tx, P2, B2, A2, S2, M2), t)
  BY DEF DeleteProject, AllReplaced, DetachedFrom
<1>3. /\ tx = Tables(ProjectsLeft(local, F), NamesBanned(local, F), AppsLeft(local, F),
                     SessionsLeft(local, F), ManualsLeft(local, F), local.tombs \cup F, local.markers)
      /\ Applied(local, G) = Tables(ProjectsLeft(local, G), NamesBanned(local, G), AppsLeft(local, G),
                                    SessionsLeft(local, G), ManualsLeft(local, G),
                                    (local.tombs \cup F) \cup {t}, local.markers)
      /\ tx.projects = ProjectsLeft(local, F) /\ tx.blacklist = NamesBanned(local, F)
      /\ tx.apps = Rest(local.apps, Apps, DeletedApps(local, F, Now), gone)
      /\ tx.sessions = Rest(local.sessions, Sessions, DeletedSessions(local, F, Now), gone)
      /\ tx.manuals = Rest(local.manuals, Manuals, DeletedManuals(local, F, Now), gone)
      /\ gone \in SUBSET Projects
  BY TxRows
<1>4. p \notin gone /\ tx.projects[p] = local.projects[p] /\ DeletesProject(local, t, p)
  BY <1>1, <1>3 DEF RowIn, ProjectsLeft, DeletesProject
<1>5. DeletedProjects(local, G) = gone \cup {p}
  BY <1>1, <1>4 DEF DeletedProjects, DeletesProject
<1>6. /\ DeletedApps(local, G, Now) = DeletedApps(local, F, Now)
      /\ DeletedSessions(local, G, Now) = DeletedSessions(local, F, Now)
      /\ DeletedManuals(local, G, Now) = DeletedManuals(local, F, Now)
  BY <1>1, OtherTables
<1>7. P2 = ProjectsLeft(local, G)
  BY <1>1, <1>3, <1>5 DEF ProjectsLeft
<1>8. B2 = NamesBanned(local, G)
  BY <1>3, <1>4, <1>5 DEF NamesBanned
<1>9. PointedRows(local.apps, Apps) /\ PointedRows(local.sessions, Sessions) /\ PointedRows(local.manuals, Manuals)
  BY RowsOf DEF ComesNext, PointedRows
<1> HIDE DEF gone, G, p
<1>10. A2 = Rest(local.apps, Apps, DeletedApps(local, F, Now), gone \cup {p})
  BY <1>1, <1>3, <1>9, RestOnce
<1>11. S2 = Rest(local.sessions, Sessions, DeletedSessions(local, F, Now), gone \cup {p})
  BY <1>1, <1>3, <1>9, RestOnce
<1>12. M2 = Rest(local.manuals, Manuals, DeletedManuals(local, F, Now), gone \cup {p})
  BY <1>1, <1>3, <1>9, RestOnce
<1>13. A2 = AppsLeft(local, G) /\ S2 = SessionsLeft(local, G) /\ M2 = ManualsLeft(local, G)
  <2> HIDE DEF A2, S2, M2
  <2>1. /\ AppsLeft(local, G) = Rest(local.apps, Apps, DeletedApps(local, G, Now), DeletedProjects(local, G))
        /\ SessionsLeft(local, G)
              = Rest(local.sessions, Sessions, DeletedSessions(local, G, Now), DeletedProjects(local, G))
        /\ ManualsLeft(local, G)
              = Rest(local.manuals, Manuals, DeletedManuals(local, G, Now), DeletedProjects(local, G))
    BY RestIs
  <2> QED BY <1>5, <1>6, <1>10, <1>11, <1>12, <2>1
<1> HIDE DEF P2, B2, A2, S2, M2
<1> DEFINE K == local.tombs \cup F
<1>14. Record(AllReplaced(tx, P2, B2, A2, S2, M2), t)
         = Tables(P2, B2, A2, S2, M2, K \cup {t}, local.markers)
  <2>1. AllReplaced(Tables(ProjectsLeft(local, F), NamesBanned(local, F), AppsLeft(local, F),
                           SessionsLeft(local, F), ManualsLeft(local, F), K, local.markers),
                    P2, B2, A2, S2, M2)
          = Tables(P2, B2, A2, S2, M2, K, local.markers)
    BY AllTables
  <2>2. Record(Tables(P2, B2, A2, S2, M2, K, local.markers), t)
          = Tables(P2, B2, A2, S2, M2, K \cup {t}, local.markers)
    BY RecordTables
  <2> QED BY <1>3, <2>1, <2>2
<1> QED BY <1>2, <1>3, <1>7, <1>8, <1>13, <1>14 DEF G

LEMMA DeleteApplicationApplies ==
  ASSUME NEW F, NEW t, ComesNext(F, t), DeleteApplication(t)
  PROVE  tx' = Applied(local, F \cup {t})
<1> DEFINE G == F \cup {t}
           k == t.key
           gone == DeletedProjects(local, F)
           dA == DeletedApps(local, F, Now)
           dS == DeletedSessions(local, F, Now)
           A2 == [tx.apps EXCEPT ![k] = None]
           S2 == [s \in Sessions |-> IF AppOf[s] = k THEN None ELSE tx.sessions[s]]
<1>1. /\ t.tab = "applications" /\ RowIn(tx.apps, k, t) /\ k \in Apps
      /\ \A s \in Sessions : AppOf[s] = k /\ tx.sessions[s] # None => tx.sessions[s].ts <= t.at
  BY DEF DeleteApplication, ComesNext, KeyFits
<1>2. tx' = Record(TimeReplaced(tx, A2, S2), t)
  BY DEF DeleteApplication, TimeReplaced
<1>3. /\ tx = Tables(ProjectsLeft(local, F), NamesBanned(local, F), AppsLeft(local, F),
                     SessionsLeft(local, F), ManualsLeft(local, F), local.tombs \cup F, local.markers)
      /\ Applied(local, G) = Tables(ProjectsLeft(local, G), NamesBanned(local, G), AppsLeft(local, G),
                                    SessionsLeft(local, G), ManualsLeft(local, G),
                                    (local.tombs \cup F) \cup {t}, local.markers)
      /\ tx.apps = Rest(local.apps, Apps, dA, gone)
      /\ tx.sessions = Rest(local.sessions, Sessions, dS, gone)
  BY TxRows
<1>4. /\ \A a \in Apps : local.apps[a] = None \/ local.apps[a] \in AppRow
      /\ \A s \in Sessions : local.sessions[s] = None \/ local.sessions[s] \in SessionRow
  BY RowsOf DEF ComesNext
<1>5. F \in SUBSET Tomb /\ t \in Tomb /\ Earlier(F, t) /\ t.at \in Nat
  BY Ranks DEF ComesNext
<1>6. k \notin dA /\ local.apps[k] # None
  BY <1>1, <1>3 DEF RowIn, Rest, Detach
<1>7. TsAt(local, F, local.apps[k], t.at, Now) <= t.at
  <2>1. tx.apps[k] = Detach(local.apps, k, gone, Now)
    BY <1>1, <1>3, <1>6 DEF Rest
  <2>2. Detach(local.apps, k, gone, Now).ts = TsAt(local, F, local.apps[k], t.at, Now)
    BY <1>1, <1>4, <1>5, <1>6, DetachedStamp
  <2> QED BY <1>1, <2>1, <2>2 DEF RowIn
<1>8. ASSUME NEW s \in Sessions, AppOf[s] = k, local.sessions[s] # None
      PROVE  \/ \E u \in F : u.at <= t.at /\ DeletesSession(local, F, u, s, Now)
             \/ TsAt(local, F, local.sessions[s], t.at, Now) <= t.at
  <2>1. CASE s \in dS
    <3>1. PICK u \in F : DeletesSession(local, F, u, s, Now)
      BY <1>6, <1>8, <2>1 DEF DeletedSessions
    <3> QED BY <1>5, <3>1 DEF Earlier
  <2>2. CASE s \notin dS
    <3>1. tx.sessions[s] = Detach(local.sessions, s, gone, Now)
      BY <1>3, <2>2 DEF Rest
    <3>2. /\ Detach(local.sessions, s, gone, Now).ts = TsAt(local, F, local.sessions[s], t.at, Now)
          /\ Detach(local.sessions, s, gone, Now) # None
      BY <1>1, <1>4, <1>5, <1>8, DetachedStamp
    <3> QED BY <1>1, <1>8, <3>1, <3>2
  <2> QED BY <2>1, <2>2
<1>9. DeletesApp(local, F, t, k, Now)
  BY <1>1, <1>7, <1>8 DEF DeletesApp
<1>10. DeletedApps(local, G, Now) = dA \cup {k}
  <2>1. DeletedApps(local, G, Now) = AppsWith(local, F, t)
    BY AlsoDeleted
  <2>2. \A a : DeletesApp(local, F, t, a, Now) => a = k
    BY DEF DeletesApp
  <2> QED BY <1>1, <1>6, <1>9, <2>1, <2>2 DEF AppsWith
<1>11. DeletedSessions(local, G, Now) = dS \cup {s \in Sessions : local.sessions[s] # None /\ AppOf[s] = k}
  <2>1. DeletedSessions(local, G, Now) = dS
          \cup {s \in Sessions : local.sessions[s] # None
                  /\ (AppOf[s] \in DeletedApps(local, G, Now) \/ DeletesSession(local, F, t, s, Now))}
    <3>1. DeletedSessions(local, G, Now) = SessionsWith(local, F, t)
      BY AlsoDeleted
    <3> QED BY <3>1 DEF SessionsWith
  <2>2. \A s : ~DeletesSession(local, F, t, s, Now)
    BY <1>1 DEF DeletesSession
  <2>3. \A s \in Sessions : local.sessions[s] # None /\ AppOf[s] \in dA => s \in dS
    BY DEF DeletedSessions
  <2> HIDE DEF dA, dS
  <2> QED BY <1>10, <2>1, <2>2, <2>3
<1>12. /\ DeletedProjects(local, G) = gone
       /\ DeletedManuals(local, G, Now) = DeletedManuals(local, F, Now)
  BY <1>1, OtherTables
<1> HIDE DEF dA, dS, gone, G, k
<1>13. A2 = Rest(local.apps, Apps, dA \cup {k}, gone)
  BY <1>1, <1>3 DEF Rest
<1>14. S2 = Rest(local.sessions, Sessions,
                 dS \cup {s \in Sessions : local.sessions[s] # None /\ AppOf[s] = k}, gone)
  BY <1>3 DEF Rest, Detach
<1> HIDE DEF A2, S2
<1>15. A2 = AppsLeft(local, G) /\ S2 = SessionsLeft(local, G)
  BY <1>10, <1>11, <1>12, <1>13, <1>14, RestIs
<1>16. /\ ProjectsLeft(local, G) = ProjectsLeft(local, F) /\ NamesBanned(local, G) = NamesBanned(local, F)
       /\ ManualsLeft(local, G) = ManualsLeft(local, F)
  BY <1>12 DEF ProjectsLeft, NamesBanned, ManualsLeft, gone
<1> DEFINE P == ProjectsLeft(local, F)
           B == NamesBanned(local, F)
           M == ManualsLeft(local, F)
           T == local.tombs \cup F
<1>17. TimeReplaced(Tables(P, B, AppsLeft(local, F), SessionsLeft(local, F), M, T, local.markers), A2, S2)
         = Tables(P, B, A2, S2, M, T, local.markers)
  BY TimeTables
<1>18. Record(Tables(P, B, A2, S2, M, T, local.markers), t)
         = Tables(P, B, A2, S2, M, T \cup {t}, local.markers)
  BY RecordTables
<1> QED BY <1>2, <1>3, <1>15, <1>16, <1>17, <1>18 DEF G

LEMMA DeleteSessionApplies ==
  ASSUME NEW F, NEW t, ComesNext(F, t), DeleteSession(t)
  PROVE  tx' = Applied(local, F \cup {t})
<1> DEFINE G == F \cup {t}
           k == t.key
           gone == DeletedProjects(local, F)
           dS == DeletedSessions(local, F, Now)
           S2 == [tx.sessions EXCEPT ![k] = None]
<1>1. t.tab = "sessions" /\ RowIn(tx.sessions, k, t) /\ k \in Sessions
  BY DEF DeleteSession, ComesNext, KeyFits
<1>2. tx' = Record(SessionsReplaced(tx, S2), t)
  BY DEF DeleteSession, SessionsReplaced
<1>3. /\ tx = Tables(ProjectsLeft(local, F), NamesBanned(local, F), AppsLeft(local, F),
                     SessionsLeft(local, F), ManualsLeft(local, F), local.tombs \cup F, local.markers)
      /\ Applied(local, G) = Tables(ProjectsLeft(local, G), NamesBanned(local, G), AppsLeft(local, G),
                                    SessionsLeft(local, G), ManualsLeft(local, G),
                                    (local.tombs \cup F) \cup {t}, local.markers)
      /\ tx.sessions = Rest(local.sessions, Sessions, dS, gone)
  BY TxRows
<1>4. \A s \in Sessions : local.sessions[s] = None \/ local.sessions[s] \in SessionRow
  BY RowsOf DEF ComesNext
<1>5. F \in SUBSET Tomb /\ t \in Tomb /\ Earlier(F, t)
  BY DEF ComesNext
<1>6. k \notin dS /\ local.sessions[k] # None
  BY <1>1, <1>3 DEF RowIn, Rest, Detach
<1>7. DeletesSession(local, F, t, k, Now)
  <2>1. tx.sessions[k] = Detach(local.sessions, k, gone, Now)
    BY <1>1, <1>3, <1>6 DEF Rest
  <2>2. Detach(local.sessions, k, gone, Now).ts = TsAt(local, F, local.sessions[k], t.at, Now)
    BY <1>1, <1>4, <1>5, <1>6, DetachedStamp
  <2> QED BY <1>1, <2>1, <2>2 DEF RowIn, DeletesSession
<1>8. DeletedSessions(local, G, Now) = DeletedSessions(local, F, Now)
        \cup {s \in Sessions : local.sessions[s] # None
                /\ (AppOf[s] \in DeletedApps(local, G, Now) \/ DeletesSession(local, F, t, s, Now))}
  <2>1. DeletedSessions(local, G, Now) = SessionsWith(local, F, t)
    BY AlsoDeleted
  <2> QED BY <2>1 DEF SessionsWith
<1>9. /\ DeletedProjects(local, G) = gone
      /\ DeletedApps(local, G, Now) = DeletedApps(local, F, Now)
      /\ DeletedManuals(local, G, Now) = DeletedManuals(local, F, Now)
  BY <1>1, OtherTables
<1>10. DeletedSessions(local, G, Now) = dS \cup {k}
  <2>1. \A s \in Sessions : local.sessions[s] # None /\ AppOf[s] \in DeletedApps(local, F, Now) => s \in dS
    BY DEF DeletedSessions
  <2>2. \A s : DeletesSession(local, F, t, s, Now) => s = k
    BY DEF DeletesSession
  <2> QED BY <1>1, <1>6, <1>7, <1>8, <1>9, <2>1, <2>2
<1> HIDE DEF dS, gone, G, k
<1>11. S2 = Rest(local.sessions, Sessions, dS \cup {k}, gone)
  BY <1>1, <1>3 DEF Rest
<1> HIDE DEF S2
<1>12. S2 = SessionsLeft(local, G)
  BY <1>9, <1>10, <1>11, RestIs
<1>13. /\ ProjectsLeft(local, G) = ProjectsLeft(local, F) /\ NamesBanned(local, G) = NamesBanned(local, F)
       /\ AppsLeft(local, G) = AppsLeft(local, F) /\ ManualsLeft(local, G) = ManualsLeft(local, F)
  BY <1>9 DEF ProjectsLeft, NamesBanned, AppsLeft, ManualsLeft, gone
<1> DEFINE P == ProjectsLeft(local, F)
           B == NamesBanned(local, F)
           A == AppsLeft(local, F)
           M == ManualsLeft(local, F)
           T == local.tombs \cup F
<1>14. SessionsReplaced(Tables(P, B, A, SessionsLeft(local, F), M, T, local.markers), S2)
         = Tables(P, B, A, S2, M, T, local.markers)
  BY SessionTables
<1>15. Record(Tables(P, B, A, S2, M, T, local.markers), t) = Tables(P, B, A, S2, M, T \cup {t}, local.markers)
  BY RecordTables
<1> QED BY <1>2, <1>3, <1>12, <1>13, <1>14, <1>15 DEF G

LEMMA DeleteManualApplies ==
  ASSUME NEW F, NEW t, ComesNext(F, t), DeleteManualSession(t)
  PROVE  tx' = Applied(local, F \cup {t})
<1> DEFINE G == F \cup {t}
           k == t.key
           gone == DeletedProjects(local, F)
           dM == DeletedManuals(local, F, Now)
           M2 == [tx.manuals EXCEPT ![k] = None]
<1>1. t.tab = "manual_sessions" /\ RowIn(tx.manuals, k, t) /\ k \in Manuals
  BY DEF DeleteManualSession, ComesNext, KeyFits
<1>2. tx' = Record(ManualsReplaced(tx, M2), t)
  BY DEF DeleteManualSession, ManualsReplaced
<1>3. /\ tx = Tables(ProjectsLeft(local, F), NamesBanned(local, F), AppsLeft(local, F),
                     SessionsLeft(local, F), ManualsLeft(local, F), local.tombs \cup F, local.markers)
      /\ Applied(local, G) = Tables(ProjectsLeft(local, G), NamesBanned(local, G), AppsLeft(local, G),
                                    SessionsLeft(local, G), ManualsLeft(local, G),
                                    (local.tombs \cup F) \cup {t}, local.markers)
      /\ tx.manuals = Rest(local.manuals, Manuals, dM, gone)
  BY TxRows
<1>4. \A m \in Manuals : local.manuals[m] = None \/ local.manuals[m] \in ManualRow
  BY RowsOf DEF ComesNext
<1>5. F \in SUBSET Tomb /\ t \in Tomb /\ Earlier(F, t)
  BY DEF ComesNext
<1>6. k \notin dM /\ local.manuals[k] # None
  BY <1>1, <1>3 DEF RowIn, Rest, Detach
<1>7. DeletesManual(local, F, t, k, Now)
  <2>1. tx.manuals[k] = Detach(local.manuals, k, gone, Now)
    BY <1>1, <1>3, <1>6 DEF Rest
  <2>2. Detach(local.manuals, k, gone, Now).ts = TsAt(local, F, local.manuals[k], t.at, Now)
    BY <1>1, <1>4, <1>5, <1>6, DetachedStamp
  <2> QED BY <1>1, <2>1, <2>2 DEF RowIn, DeletesManual
<1>8. DeletedManuals(local, G, Now) = DeletedManuals(local, F, Now)
        \cup {m \in Manuals : local.manuals[m] # None /\ DeletesManual(local, F, t, m, Now)}
  <2>1. DeletedManuals(local, G, Now) = ManualsWith(local, F, t)
    BY AlsoDeleted
  <2> QED BY <2>1 DEF ManualsWith
<1>9. /\ DeletedProjects(local, G) = gone
      /\ DeletedApps(local, G, Now) = DeletedApps(local, F, Now)
      /\ DeletedSessions(local, G, Now) = DeletedSessions(local, F, Now)
  BY <1>1, OtherTables
<1>10. DeletedManuals(local, G, Now) = dM \cup {k}
  <2>1. \A m : DeletesManual(local, F, t, m, Now) => m = k
    BY DEF DeletesManual
  <2> QED BY <1>1, <1>6, <1>7, <1>8, <2>1
<1> HIDE DEF dM, gone, G, k
<1>11. M2 = Rest(local.manuals, Manuals, dM \cup {k}, gone)
  BY <1>1, <1>3 DEF Rest
<1> HIDE DEF M2
<1>12. M2 = ManualsLeft(local, G)
  BY <1>9, <1>10, <1>11, RestIs
<1>13. /\ ProjectsLeft(local, G) = ProjectsLeft(local, F) /\ NamesBanned(local, G) = NamesBanned(local, F)
       /\ AppsLeft(local, G) = AppsLeft(local, F) /\ SessionsLeft(local, G) = SessionsLeft(local, F)
  BY <1>9 DEF ProjectsLeft, NamesBanned, AppsLeft, SessionsLeft, gone
<1> DEFINE P == ProjectsLeft(local, F)
           B == NamesBanned(local, F)
           A == AppsLeft(local, F)
           S == SessionsLeft(local, F)
           T == local.tombs \cup F
<1>14. ManualsReplaced(Tables(P, B, A, S, ManualsLeft(local, F), T, local.markers), M2)
         = Tables(P, B, A, S, M2, T, local.markers)
  BY ManualTables
<1>15. Record(Tables(P, B, A, S, M2, T, local.markers), t) = Tables(P, B, A, S, M2, T \cup {t}, local.markers)
  BY RecordTables
<1> QED BY <1>2, <1>3, <1>12, <1>13, <1>14, <1>15 DEF G

\* A tombstone that spares its row deletes no row of apply_tombstones either.
LEMMA SparedApplies ==
  ASSUME NEW F, NEW t, ComesNext(F, t), Spared(t)
  PROVE  tx' = Applied(local, F \cup {t})
<1> DEFINE G == F \cup {t}
           k == t.key
           gone == DeletedProjects(local, F)
           dA == DeletedApps(local, F, Now)
           dS == DeletedSessions(local, F, Now)
           dM == DeletedManuals(local, F, Now)
<1>1. tx' = Record(tx, t)
  BY DEF Spared
<1>2. F \in SUBSET Tomb /\ t \in Tomb /\ Earlier(F, t) /\ t.at \in Nat
      /\ t.tab \in {"projects", "applications", "sessions", "manual_sessions"}
  BY Ranks DEF ComesNext
<1>3. /\ tx = Tables(ProjectsLeft(local, F), NamesBanned(local, F), AppsLeft(local, F),
                     SessionsLeft(local, F), ManualsLeft(local, F), local.tombs \cup F, local.markers)
      /\ Applied(local, G) = Tables(ProjectsLeft(local, G), NamesBanned(local, G), AppsLeft(local, G),
                                    SessionsLeft(local, G), ManualsLeft(local, G),
                                    (local.tombs \cup F) \cup {t}, local.markers)
      /\ tx.projects = ProjectsLeft(local, F)
      /\ tx.apps = Rest(local.apps, Apps, dA, gone)
      /\ tx.sessions = Rest(local.sessions, Sessions, dS, gone)
      /\ tx.manuals = Rest(local.manuals, Manuals, dM, gone)
  BY TxRows
<1>4. /\ \A a \in Apps : local.apps[a] = None \/ local.apps[a] \in AppRow
      /\ \A s \in Sessions : local.sessions[s] = None \/ local.sessions[s] \in SessionRow
      /\ \A m \in Manuals : local.manuals[m] = None \/ local.manuals[m] \in ManualRow
  BY RowsOf DEF ComesNext
<1>5. /\ DeletedProjects(local, G) = ProjectsWith(local, F, t)
      /\ DeletedApps(local, G, Now) = AppsWith(local, F, t)
      /\ DeletedSessions(local, G, Now) = SessionsWith(local, F, t)
      /\ DeletedManuals(local, G, Now) = ManualsWith(local, F, t)
  BY AlsoDeleted
<1>6. /\ t.tab # "projects" => \A p : ~DeletesProject(local, t, p)
      /\ t.tab # "applications" => \A a : ~DeletesApp(local, F, t, a, Now)
      /\ t.tab # "sessions" => \A s : ~DeletesSession(local, F, t, s, Now)
      /\ t.tab # "manual_sessions" => \A m : ~DeletesManual(local, F, t, m, Now)
  BY DEF DeletesProject, DeletesApp, DeletesSession, DeletesManual
<1>7. \A p \in Projects : DeletesProject(local, t, p) => p \in gone
  <2> SUFFICES ASSUME NEW p \in Projects, DeletesProject(local, t, p), p \notin gone
               PROVE  FALSE
    OBVIOUS
  <2>1. t.tab = "projects" /\ k = p /\ ~RowIn(tx.projects, k, t)
    BY DEF DeletesProject, Spared
  <2>2. tx.projects[p] = local.projects[p]
    BY <1>3 DEF ProjectsLeft
  <2> QED BY <2>1, <2>2 DEF RowIn, DeletesProject
<1>8. \A m \in Manuals : local.manuals[m] # None /\ DeletesManual(local, F, t, m, Now) => m \in dM
  <2> SUFFICES ASSUME NEW m \in Manuals, local.manuals[m] # None,
                      DeletesManual(local, F, t, m, Now), m \notin dM
               PROVE  FALSE
    OBVIOUS
  <2>1. t.tab = "manual_sessions" /\ k = m /\ ~RowIn(tx.manuals, k, t)
    BY DEF DeletesManual, Spared
  <2>2. tx.manuals[m] = Detach(local.manuals, m, gone, Now)
    BY <1>3 DEF Rest
  <2>3. /\ Detach(local.manuals, m, gone, Now).ts = TsAt(local, F, local.manuals[m], t.at, Now)
        /\ Detach(local.manuals, m, gone, Now) # None
    BY <1>2, <1>4, <2>1, DetachedStamp
  <2> QED BY <2>1, <2>2, <2>3 DEF RowIn, DeletesManual
<1>9. \A s \in Sessions : local.sessions[s] # None /\ DeletesSession(local, F, t, s, Now) => s \in dS
  <2> SUFFICES ASSUME NEW s \in Sessions, local.sessions[s] # None,
                      DeletesSession(local, F, t, s, Now), s \notin dS
               PROVE  FALSE
    OBVIOUS
  <2>1. t.tab = "sessions" /\ k = s /\ ~RowIn(tx.sessions, k, t)
    BY DEF DeletesSession, Spared
  <2>2. tx.sessions[s] = Detach(local.sessions, s, gone, Now)
    BY <1>3 DEF Rest
  <2>3. /\ Detach(local.sessions, s, gone, Now).ts = TsAt(local, F, local.sessions[s], t.at, Now)
        /\ Detach(local.sessions, s, gone, Now) # None
    BY <1>2, <1>4, <2>1, DetachedStamp
  <2> QED BY <2>1, <2>2, <2>3 DEF RowIn, DeletesSession
<1>10. \A a \in Apps : local.apps[a] # None /\ DeletesApp(local, F, t, a, Now) => a \in dA
  <2> SUFFICES ASSUME NEW a \in Apps, local.apps[a] # None, DeletesApp(local, F, t, a, Now), a \notin dA
               PROVE  FALSE
    OBVIOUS
  <2>1. t.tab = "applications" /\ k = a
    BY DEF DeletesApp
  <2>2. \/ ~RowIn(tx.apps, a, t)
        \/ \E s \in Sessions : AppOf[s] = a /\ tx.sessions[s] # None /\ tx.sessions[s].ts > t.at
    BY <2>1 DEF Spared
  <2>3. tx.apps[a] = Detach(local.apps, a, gone, Now)
    BY <1>3 DEF Rest
  <2>4. /\ Detach(local.apps, a, gone, Now).ts = TsAt(local, F, local.apps[a], t.at, Now)
        /\ Detach(local.apps, a, gone, Now) # None
    BY <1>2, <1>4, <2>1, DetachedStamp
  <2>5. RowIn(tx.apps, a, t)
    BY <2>3, <2>4 DEF RowIn, DeletesApp
  <2>6. PICK s \in Sessions : AppOf[s] = a /\ tx.sessions[s] # None /\ tx.sessions[s].ts > t.at
    BY <2>2, <2>5
  <2>7. s \notin dS /\ local.sessions[s] # None /\ tx.sessions[s] = Detach(local.sessions, s, gone, Now)
    BY <1>3, <2>6 DEF Rest, Detach
  <2>8. Detach(local.sessions, s, gone, Now).ts = TsAt(local, F, local.sessions[s], t.at, Now)
    BY <1>2, <1>4, <2>1, <2>7, DetachedStamp
  <2>9. ~ \E u \in F : DeletesSession(local, F, u, s, Now)
    BY <2>7 DEF DeletedSessions
  <2>10. TsAt(local, F, local.sessions[s], t.at, Now) <= t.at
    BY <2>6, <2>7, <2>9 DEF DeletesApp
  <2>11. TsAt(local, F, local.sessions[s], t.at, Now) \in Nat
    BY <1>4, <2>7, ReplayAssumption DEF TsAt, SessionRow
  <2> QED BY <1>2, <2>6, <2>7, <2>8, <2>10, <2>11
<1>11. \A s \in Sessions : local.sessions[s] # None /\ AppOf[s] \in dA => s \in dS
  BY DEF DeletedSessions
<1>12. DeletedProjects(local, G) = gone /\ DeletedApps(local, G, Now) = dA
       /\ DeletedManuals(local, G, Now) = dM
  <2>1. DeletedProjects(local, G) = gone
    BY <1>5, <1>7 DEF ProjectsWith
  <2>2. DeletedApps(local, G, Now) = dA
    BY <1>5, <1>10 DEF AppsWith
  <2>3. DeletedManuals(local, G, Now) = dM
    BY <1>5, <1>8 DEF ManualsWith
  <2> QED BY <2>1, <2>2, <2>3
<1>13. DeletedSessions(local, G, Now) = dS
  <2>1. DeletedSessions(local, G, Now)
          = dS \cup {s \in Sessions : local.sessions[s] # None
                      /\ (AppOf[s] \in DeletedApps(local, G, Now) \/ DeletesSession(local, F, t, s, Now))}
    BY <1>5 DEF SessionsWith
  <2> HIDE DEF dA, dS, G
  <2> QED BY <1>9, <1>11, <1>12, <2>1
<1> HIDE DEF gone, dA, dS, dM, G
<1>14. /\ ProjectsLeft(local, G) = ProjectsLeft(local, F) /\ NamesBanned(local, G) = NamesBanned(local, F)
       /\ AppsLeft(local, G) = AppsLeft(local, F) /\ SessionsLeft(local, G) = SessionsLeft(local, F)
       /\ ManualsLeft(local, G) = ManualsLeft(local, F)
  BY <1>12, <1>13 DEF ProjectsLeft, NamesBanned, AppsLeft, SessionsLeft, ManualsLeft, gone, dA, dS, dM
<1> DEFINE P == ProjectsLeft(local, F)
           B == NamesBanned(local, F)
           A == AppsLeft(local, F)
           S == SessionsLeft(local, F)
           M == ManualsLeft(local, F)
           T == local.tombs \cup F
<1>15. Record(Tables(P, B, A, S, M, T, local.markers), t) = Tables(P, B, A, S, M, T \cup {t}, local.markers)
  BY RecordTables
<1> QED BY <1>1, <1>3, <1>14, <1>15 DEF G

\* The next tombstone comes after all that are replayed.
LEMMA FirstComesNext ==
  ASSUME ReplayInv, NEW t \in left, First(t)
  PROVE  /\ ComesNext(Done, t)
         /\ \A u \in Replayed : u \in Tomb /\ u.at \in Nat /\ t.at \in Nat /\ u.at <= t.at
<1>1. t \in Tomb /\ t \in sent /\ KeyFits(t) /\ sent \subseteq Tomb
  BY DEF ReplayInv
<1>2. \A u \in Replayed : u \in Tomb /\ u.at \in Nat /\ t.at \in Nat
                          /\ Rank(u) \in {0, 1, 2} /\ Rank(t) \in {0, 1, 2}
  BY <1>1, Ranks DEF Replayed
<1>3. \A u \in Replayed : u.at <= t.at /\ (u.at = t.at => Rank(u) <= Rank(t))
  <2> SUFFICES ASSUME NEW u \in Replayed
               PROVE  u.at <= t.at /\ (u.at = t.at => Rank(u) <= Rank(t))
    OBVIOUS
  <2>1. ~Before(t, u)
    BY DEF ReplayInv
  <2>2. u.at \in Nat /\ t.at \in Nat /\ Rank(u) \in {0, 1, 2} /\ Rank(t) \in {0, 1, 2}
    BY <1>2
  <2> QED BY <2>1, <2>2 DEF Before
<1>4. Done \subseteq Replayed
  BY DEF Done, Fresh
<1>5. Earlier(Done, t)
  BY <1>3, <1>4 DEF Earlier
<1>6. local \in Db /\ tx = Applied(local, Done) /\ Done \in SUBSET Tomb
  BY <1>1, <1>4 DEF ReplayInv, Replayed
<1> QED BY <1>1, <1>2, <1>3, <1>5, <1>6 DEF ComesNext

\* The tombstones that are recorded after t.
LEMMA FreshNext ==
  ASSUME ReplayInv, NEW t \in left, First(t), left' = left \ {t}, sent' = sent, local' = local
  PROVE  Done' = IF AlreadyRecorded(t) THEN Done ELSE Done \cup {t}
<1>1. /\ \A u \in Replayed : u \in Tomb /\ u.at \in Nat /\ t.at \in Nat /\ u.at <= t.at
      /\ t \in Tomb /\ t \in sent /\ t \notin Replayed /\ left \subseteq sent /\ t.at \in Nat
  BY FirstComesNext, Ranks DEF ReplayInv, Replayed
<1>2. Replayed' = Replayed \cup {t}
  BY <1>1 DEF Replayed
<1>3. Done' = {u \in Replayed \cup {t} : /\ \A v \in local.tombs : ~SameRecord(u, v)
                                         /\ \A v \in Replayed \cup {t} : SameRecord(u, v) => u.at <= v.at}
  BY <1>2 DEF Done, Fresh
<1>4. Done = {u \in Replayed : /\ \A v \in local.tombs : ~SameRecord(u, v)
                               /\ \A v \in Replayed : SameRecord(u, v) => u.at <= v.at}
  BY DEF Done, Fresh
<1>5. tx.tombs = local.tombs \cup Done
  BY AppliedFields DEF ReplayInv
<1>6. \A u \in Replayed : u \in Done' <=> u \in Done
  BY <1>1, <1>3, <1>4
<1>7. t \in Done' <=> ~AlreadyRecorded(t)
  <2>1. ASSUME t \in Done', NEW u \in tx.tombs, SameRecord(t, u)
        PROVE  FALSE
    <3>1. u \in Done /\ u \in Replayed
      BY <1>3, <1>4, <1>5, <2>1
    <3>2. t.at = u.at
      BY <1>1, <1>3, <2>1, <3>1
    <3>3. t = u
      BY <1>1, <2>1, <3>1, <3>2 DEF Tomb, SameRecord
    <3> QED BY <1>1, <3>1, <3>3
  <2>2. ASSUME ~AlreadyRecorded(t)
        PROVE  t \in Done'
    <3>1. \A v \in local.tombs : ~SameRecord(t, v)
      BY <1>5, <2>2 DEF AlreadyRecorded
    <3>2. \A v \in Replayed : ~SameRecord(t, v)
      <4> SUFFICES ASSUME NEW v \in Replayed, SameRecord(t, v) PROVE FALSE
        OBVIOUS
      <4>1. PICK w \in tx.tombs : SameRecord(v, w)
        BY DEF ReplayInv
      <4>2. SameRecord(t, w)
        BY <4>1 DEF SameRecord
      <4> QED BY <2>2, <4>1, <4>2 DEF AlreadyRecorded
    <3> QED BY <1>1, <1>3, <3>1, <3>2
  <2> QED BY <2>1, <2>2 DEF AlreadyRecorded
<1>8. Done' \subseteq Replayed \cup {t} /\ Done \subseteq Replayed
  BY <1>3, <1>4
<1>9. \A u : u \in Done' <=> u \in (IF AlreadyRecorded(t) THEN Done ELSE Done \cup {t})
  <2> TAKE u
  <2>1. CASE u \in Replayed
    BY <1>1, <1>6, <2>1
  <2>2. CASE u = t
    BY <1>1, <1>7, <1>8, <2>2
  <2>3. CASE u \notin Replayed /\ u # t
    BY <1>8, <2>3
  <2> QED BY <2>1, <2>2, <2>3
<1> QED BY <1>9

LEMMA ReplayStep ==
  ASSUME ReplayInv, NEW t \in left, Replay(t)
  PROVE  ReplayInv'
<1>1. First(t) /\ left' = left \ {t} /\ local' = local /\ sent' = sent
  BY DEF Replay
<1>2. ComesNext(Done, t) /\ \A u \in Replayed : u.at \in Nat /\ t.at \in Nat /\ u.at <= t.at
  BY <1>1, FirstComesNext
<1>3. Done' = IF AlreadyRecorded(t) THEN Done ELSE Done \cup {t}
  BY <1>1, FreshNext
<1>4. tx' = Applied(local, Done')
  <2>1. CASE AlreadyRecorded(t)
    BY <1>3, <2>1 DEF Replay, ReplayInv
  <2>2. CASE ~AlreadyRecorded(t)
    <3>1. \/ DeleteProject(t) \/ DeleteApplication(t) \/ DeleteSession(t)
          \/ DeleteManualSession(t) \/ Spared(t)
      BY <2>2 DEF Replay
    <3>2. tx' = Applied(local, Done \cup {t})
      BY <1>2, <3>1, DeleteProjectApplies, DeleteApplicationApplies, DeleteSessionApplies,
         DeleteManualApplies, SparedApplies
    <3> QED BY <1>3, <2>2, <3>2
  <2> QED BY <2>1, <2>2
<1>5. Replayed' = Replayed \cup {t} /\ left' \subseteq left
  BY <1>1 DEF Replayed, ReplayInv
<1>6. \A u \in Replayed', v \in left' : ~Before(v, u)
  BY <1>1, <1>5 DEF First, ReplayInv
<1>7. \A u \in Replayed' : \E w \in tx'.tombs : SameRecord(u, w)
  <2>1. local \in Db
    BY DEF ReplayInv
  <2>2. tx'.tombs = local.tombs \cup Done' /\ tx.tombs = local.tombs \cup Done
    BY <1>4, <2>1, AppliedFields DEF ReplayInv
  <2>3. tx.tombs \subseteq tx'.tombs
    BY <1>3, <2>2
  <2>4. \E w \in tx'.tombs : SameRecord(t, w)
    <3>1. SameRecord(t, t)
      BY DEF SameRecord
    <3>2. CASE AlreadyRecorded(t)
      BY <2>3, <3>2 DEF AlreadyRecorded
    <3>3. CASE ~AlreadyRecorded(t)
      BY <1>3, <2>2, <3>1, <3>3
    <3> QED BY <3>2, <3>3
  <2> QED BY <1>5, <2>3, <2>4 DEF ReplayInv
<1>8. local' \in Db /\ sent' \subseteq Tomb /\ left' \subseteq sent' /\ \A u \in sent' : KeyFits(u)
  BY <1>1 DEF ReplayInv
<1>9. tx' = Applied(local', Done')
  BY <1>1, <1>4
<1> QED BY <1>6, <1>7, <1>8, <1>9 DEF ReplayInv

LEMMA ReplayStarts == Init => ReplayInv
<1> SUFFICES ASSUME Init PROVE ReplayInv
  OBVIOUS
<1>1. local \in Db /\ sent \subseteq Tomb /\ tx = local /\ left = sent /\ \A t \in sent : KeyFits(t)
  BY ReplayAssumption DEF Init
<1>2. Replayed = {} /\ Done = {}
  BY <1>1 DEF Replayed, Done, Fresh
<1>3. tx = Applied(local, Done)
  BY <1>1, <1>2, NothingApplied
<1> QED BY <1>1, <1>2, <1>3 DEF ReplayInv

LEMMA ReplayUnchanged == ReplayInv /\ UNCHANGED vars => ReplayInv'
<1> SUFFICES ASSUME ReplayInv, UNCHANGED vars PROVE ReplayInv'
  OBVIOUS
<1>1. local' = local /\ sent' = sent /\ tx' = tx /\ left' = left
  BY DEF vars
<1>2. Replayed' = Replayed /\ Done' = Done
  BY <1>1 DEF Replayed, Done
<1> QED BY <1>1, <1>2 DEF ReplayInv

LEMMA ReplayMeans == ReplayInv => LoopIsApplyTombstones
<1> SUFFICES ASSUME ReplayInv, left = {}
             PROVE  tx = apply_tombstones(local, [tombs |-> sent], Now)
  BY DEF LoopIsApplyTombstones
<1>1. Done = Fresh(local, [tombs |-> sent])
  BY DEF Done, Replayed
<1> QED BY <1>1, AppliedIs DEF ReplayInv

\* The loop of merge_incoming_data over the tombstones of a payload, in any order that deleted_at
\* allows, ends with what apply_tombstones says of the database it started from, for any rows,
\* tombstones, stamps and keys.
THEOREM ReplayTheorem == Spec => []LoopIsApplyTombstones
<1>1. Init => ReplayInv
  BY ReplayStarts
<1>2. ReplayInv /\ [Next]_vars => ReplayInv'
  BY ReplayStep, ReplayUnchanged DEF Next
<1>3. ReplayInv => LoopIsApplyTombstones
  BY ReplayMeans
<1> QED BY <1>1, <1>2, <1>3, PTL DEF Spec
=============================================================================
