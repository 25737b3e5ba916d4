------------------------------- MODULE LanSync -------------------------------
(***************************************************************************)
(* The 13-step LAN sync between paired machines: the master's thread       *)
(* (run_sync_as_master_with_options and execute_master_sync,               *)
(* src/lan_sync_orchestrator.rs) against the slave's HTTP handlers         *)
(* (src/lan_server.rs), while the dashboards go on editing the databases   *)
(* and requests, answers, merges and daemons fail.                         *)
(*                                                                         *)
(* One sync is in flight at a time (SyncState is about the locks that are  *)
(* meant to ensure it).  The clock is shared and counts seconds.           *)
(***************************************************************************)
EXTENDS DashboardOps

CONSTANTS
  StartDbs,          \* databases the machines may start from
  UserOps,           \* dashboard commands the users issue
  EditsDuringSync,   \* do they issue them while a sync is running?
  Forces,            \* may a sync be forced (full transfer)? set of values of the flag
  MaxRetries,        \* attempts per sync (MAX_RETRIES = 3 in the code)
  DbReadyAttempts,   \* db-ready requests per attempt (3 in the code)
  MaxTime, MaxOps, MaxSyncs, MaxFaults   \* bounds on a behaviour

ASSUME BoundAssumption ==
  /\ MaxRetries \in Nat /\ DbReadyAttempts \in Nat /\ EditsDuringSync \in BOOLEAN /\ Forces \subseteq BOOLEAN
  /\ MaxTime \in Nat /\ MaxOps \in Nat /\ MaxSyncs \in Nat /\ MaxFaults \in Nat

\* The second a behaviour starts at, and the number of the last marker hash by
\* then; what the machines share is older.
StartTime == 2
StartHashes == 2

ASSUME StartAssumption ==
  \A f \in StartDbs :
    /\ f \in [Device -> Db]
    /\ \A d \in Device : DbOK(f[d]) /\ \A m \in f[d].markers : m.at <= StartTime /\ m.hash <= StartHashes

VARIABLES
  now,       \* current second
  db,        \* db[d]: dashboard database of d
  frozen,    \* db_frozen of each daemon
  busy,      \* sync_in_progress of each daemon
  ready,     \* last_db_ready of each daemon: master's marker and own marker
  sync,      \* the sync in flight, as the master's thread holds it
  hashes,    \* marker hashes generated so far (a digest, so always a new one)
  latest,    \* history: the last command on each row, by whom and what it left
  used       \* commands, syncs and faults so far; second of the last command

vars == <<now, db, frozen, busy, ready, sync, hashes, latest, used>>

Steps == {"idle", "negotiate", "freeze", "pull", "backup", "merge", "verify", "upload",
          "db_ready", "finish", "unfreeze_peer", "gc", "abort", "completed"}

NoSync == [pc |-> "idle", master |-> None, slave |-> None, force |-> FALSE, mode |-> "full",
           since |-> 0, payload |-> None, backup |-> None, file |-> None,
           marker |-> 0, own |-> 0, attempt |-> 1, tries |-> 0, quiet |-> TRUE]

Idle == sync.pc \in {"idle", "completed"}

SyncType ==
  [pc: Steps, master: Device \cup {None}, slave: Device \cup {None}, force: BOOLEAN,
   mode: {"full", "delta"}, since: Nat, payload: Payload \cup {None}, backup: Db \cup {None},
   file: Payload \cup {None}, marker: Nat, own: Nat, attempt: Nat, tries: Nat, quiet: BOOLEAN]

\* Contents of a row as the users see it: None when it is not there.
Content(row) == IF row = None THEN None ELSE row.val

Keys == Projects \cup Apps \cup Sessions \cup Manuals

Row(e, k) == CASE k \in Projects -> e.projects[k] [] k \in Apps -> e.apps[k]
               [] k \in Sessions -> e.sessions[k] [] OTHER -> e.manuals[k]

\* Every variable keeps its type, and the databases on either side of a running
\* sync are the well-typed results of the merges and commands.
TypeOK ==
  /\ now \in Nat /\ hashes \in Nat
  /\ db \in [Device -> Db]
  /\ frozen \in [Device -> BOOLEAN] /\ busy \in [Device -> BOOLEAN]
  /\ ready \in [Device -> [marker: Nat, own: Nat] \cup {None}]
  /\ sync \in SyncType
  /\ sync.pc \notin {"idle", "completed"} => sync.master \in Device /\ sync.slave \in Device
  /\ sync.pc \in {"backup", "merge", "upload"} => sync.payload \in Payload
  /\ sync.pc \in {"merge", "verify"} => sync.backup \in Db
  /\ used \in [ops: Nat, syncs: Nat, faults: Nat, opAt: Nat]

Init ==
  /\ now = StartTime
  /\ db \in StartDbs
  /\ frozen = [d \in Device |-> FALSE] /\ busy = [d \in Device |-> FALSE]
  /\ ready = [d \in Device |-> None]
  /\ sync = NoSync
  /\ hashes = StartHashes
  /\ latest = [k \in {} |-> None]
  /\ used = [ops |-> 0, syncs |-> 0, faults |-> 0, opAt |-> 1]

-----------------------------------------------------------------------------
(***************************************************************************)
(* Dashboard commands.  Commands are at least a second apart: timestamps   *)
(* have a resolution of one second, and rows edited on two machines within *)
(* one second tie.                                                         *)
(***************************************************************************)
Issue(d, op, new) ==
  /\ op \in UserOps
  /\ Idle \/ EditsDuringSync
  /\ used.ops < MaxOps /\ used.opAt < now
  /\ used' = [used EXCEPT !.ops = @ + 1, !.opAt = now]
  /\ db' = [db EXCEPT ![d] = new]
  /\ latest' = [k \in DOMAIN latest \cup {k \in Keys : Row(new, k) # Row(db[d], k)} |->
                  IF Row(new, k) # Row(db[d], k)
                  THEN [by |-> d, left |-> Content(Row(new, k))] ELSE latest[k]]
  /\ sync' = [sync EXCEPT !.quiet = FALSE]
  /\ UNCHANGED <<now, frozen, busy, ready, hashes>>

ProjectCommand(d) ==
  \E p \in Projects :
    \/ \E v \in Vals : /\ CanCreateProject(db[d], p)
                       /\ Issue(d, "create_project", create_project(db[d], p, v, now))
    \/ \E v \in Vals : /\ db[d].projects[p] # None
                       /\ Issue(d, "update_project", update_project(db[d], p, v, now))
    \/ /\ db[d].projects[p] # None
       /\ Issue(d, "exclude_project", exclude_project(db[d], p, now))
    \/ /\ CanRestoreProject(db[d], p)
       /\ Issue(d, "restore_project", restore_project(db[d], p, now))
    \/ /\ CanDeleteProject(db[d], p)
       /\ Issue(d, "delete_project", delete_project(db[d], d, p, now))
    \/ \E q \in Projects : /\ CanMergeProject(db[d], p, q)
                           /\ Issue(d, "merge_project", merge_project(db[d], p, q, now))
    \/ /\ CanUnmergeProject(db[d], p)
       /\ Issue(d, "unmerge_project", unmerge_project(db[d], p, now))

AppCommand(d) ==
  \E a \in Apps :
    /\ db[d].apps[a] # None
    /\ \/ \E p \in ProjectRef :
            /\ p = None \/ Active(db[d], p)
            /\ Issue(d, "assign_app_to_project", assign_app_to_project(db[d], a, p, now))
       \/ \E v \in Vals : Issue(d, "rename_application", rename_application(db[d], a, v, now))
       \/ Issue(d, "reset_app_time", reset_app_time(db[d], a, now))
       \/ Issue(d, "delete_app_and_data", delete_app_and_data(db[d], a, now))

SessionCommand(d) ==
  \E s \in Sessions :
    \/ \E v \in Vals : Issue(d, "upsert_daily_data", upsert_daily_data(db[d], s, v, now))
    \/ /\ db[d].sessions[s] # None
       /\ \/ \E p \in Projects :
               /\ db[d].projects[p] # None
               /\ Issue(d, "assign_session", assign_session_to_project(db[d], s, p, now))
          \/ Issue(d, "unassign_session", assign_session_to_project(db[d], s, None, now))
          \/ \E v \in Vals : Issue(d, "update_session", update_session(db[d], s, v, now))
          \/ Issue(d, "delete_session", delete_session(db[d], s))

ManualCommand(d) ==
  \E m \in Manuals :
    \/ \E p \in Projects, v \in Vals :
         /\ Active(db[d], p)
         /\ \/ /\ db[d].manuals[m] = None
               /\ Issue(d, "create_manual_session", create_manual_session(db[d], m, p, v, now))
            \/ \E n \in Manuals :
                 /\ db[d].manuals[m] # None /\ (n = m \/ db[d].manuals[n] = None)
                 /\ Issue(d, "update_manual_session",
                          update_manual_session(db[d], m, n, p, v, now))
    \/ /\ db[d].manuals[m] # None
       /\ Issue(d, "delete_manual_session", delete_manual_session(db[d], d, m, now))

Command(d) == ProjectCommand(d) \/ AppCommand(d) \/ SessionCommand(d) \/ ManualCommand(d)

Tick == /\ now < MaxTime /\ now' = now + 1
        /\ UNCHANGED <<db, frozen, busy, ready, sync, hashes, latest, used>>

-----------------------------------------------------------------------------
(***************************************************************************)
(* The master's steps.  A request may be lost, or be handled and its       *)
(* answer lost: the master sees the same error.                            *)
(***************************************************************************)
Fault == used.faults < MaxFaults /\ used' = [used EXCEPT !.faults = @ + 1]

At(step) == sync.pc = step

Goto(step) == sync' = [sync EXCEPT !.pc = step]

\* POST /lan/trigger-sync, discovery or the tray: the in-progress lock is taken.
StartSync(m, s, force) ==
  /\ Idle /\ m # s /\ ~busy[m] /\ ~frozen[m]
  /\ used.syncs < MaxSyncs
  /\ used' = [used EXCEPT !.syncs = @ + 1]
  /\ busy' = [busy EXCEPT ![m] = TRUE]
  /\ sync' = [NoSync EXCEPT !.pc = "negotiate", !.master = m, !.slave = s, !.force = force]
  /\ UNCHANGED <<now, db, frozen, ready, hashes, latest>>

HasMarkers(e) == e.markers # {}

\* handle_negotiate: delta when the slave knows the master's latest marker.
NegotiatedMode ==
  IF /\ HasMarkers(db[sync.master])
     /\ Known(db[sync.slave], LatestMarker(db[sync.master]).hash)
  THEN "delta" ELSE "full"

\* The slave reports the time of its own latest marker.
resolve_pull_since(mode) ==
  IF mode = "delta" /\ HasMarkers(db[sync.slave]) THEN LatestMarker(db[sync.slave]).at ELSE 0

\* Steps 2-4.
Negotiate ==
  /\ At("negotiate")
  /\ \/ /\ ~busy[sync.slave] /\ ~frozen[sync.slave]
        /\ LET mode == IF sync.force THEN "full" ELSE NegotiatedMode
           IN sync' = [sync EXCEPT !.pc = "freeze", !.mode = mode,
                                   !.since = resolve_pull_since(mode)]
        /\ UNCHANGED used
     \/ (busy[sync.slave] \/ frozen[sync.slave]) /\ Goto("abort") /\ UNCHANGED used
     \/ Fault /\ Goto("abort")
  /\ UNCHANGED <<now, db, frozen, busy, ready, hashes, latest>>

\* Step 5: freeze here, then /lan/freeze-ack; on an error unfreeze() here, which
\* also drops the in-progress lock.
Freeze ==
  /\ At("freeze")
  /\ \/ /\ frozen' = [frozen EXCEPT ![sync.master] = TRUE, ![sync.slave] = TRUE]
        /\ busy' = [busy EXCEPT ![sync.slave] = TRUE, ![sync.master] = TRUE]
        /\ Goto("pull") /\ UNCHANGED used
     \/ /\ Fault /\ Goto("abort")
        /\ \E reached \in BOOLEAN :
             /\ frozen' = [frozen EXCEPT ![sync.master] = FALSE, ![sync.slave] = @ \/ reached]
             /\ busy' = [busy EXCEPT ![sync.master] = FALSE, ![sync.slave] = @ \/ reached]
  /\ UNCHANGED <<now, db, ready, hashes, latest>>

\* Steps 6-7: the slave answers only while it is frozen.
Pull ==
  /\ At("pull")
  /\ \/ /\ frozen[sync.slave]
        /\ sync' = [sync EXCEPT !.pc = "backup",
                      !.payload = build_delta_for_pull(db[sync.slave], sync.since)]
        /\ UNCHANGED used
     \/ ~frozen[sync.slave] /\ Goto("abort") /\ UNCHANGED used
     \/ Fault /\ Goto("abort")
  /\ UNCHANGED <<now, db, frozen, busy, ready, hashes, latest>>

\* Mutant of Backup: the merge starts without one.
NoBackup ==
  /\ At("backup") /\ Goto("merge")
  /\ UNCHANGED <<now, db, frozen, busy, ready, hashes, latest, used>>

\* Step 8.
Backup ==
  /\ At("backup")
  /\ sync' = [sync EXCEPT !.pc = "merge", !.backup = db[sync.master]]
  /\ UNCHANGED <<now, db, frozen, busy, ready, hashes, latest, used>>

\* Step 9.
Merge ==
  /\ At("merge")
  /\ db' = [db EXCEPT ![sync.master] = merge_incoming_data(@, sync.payload, now)]
  /\ sync' = [sync EXCEPT !.pc = "verify", !.payload = None]
  /\ UNCHANGED <<now, frozen, busy, ready, hashes, latest, used>>

\* Step 9 or 10 fails: the backup replaces the whole database.
RestoreBackup ==
  /\ At("merge") \/ At("verify")
  /\ Fault
  /\ db' = [db EXCEPT ![sync.master] = sync.backup]
  /\ Goto("abort")
  /\ UNCHANGED <<now, frozen, busy, ready, hashes, latest>>

\* Step 10, the new marker, and the export that step 11 sends.
Verify ==
  /\ At("verify")
  /\ hashes' = hashes + 1
  /\ LET d1 == verify_merge_integrity(db[sync.master], now)
         d2 == insert_sync_marker_db(d1, hashes', now, sync.master, sync.slave)
     IN /\ db' = [db EXCEPT ![sync.master] = d2]
        /\ sync' = [sync EXCEPT !.pc = "upload", !.backup = None, !.marker = hashes',
                                !.payload = build_full_export(d2)]
  /\ UNCHANGED <<now, frozen, busy, ready, latest, used>>

\* Step 11: the slave stores the export in a file, only while it is frozen.
Upload ==
  /\ At("upload")
  /\ \/ /\ frozen[sync.slave]
        /\ sync' = [sync EXCEPT !.pc = "db_ready", !.file = sync.payload,
                                !.payload = None, !.tries = 0]
        /\ UNCHANGED used
     \/ ~frozen[sync.slave] /\ Goto("abort") /\ UNCHANGED used
     \/ Fault /\ Goto("abort")
  /\ UNCHANGED <<now, db, frozen, busy, ready, hashes, latest>>

\* handle_db_ready with a file to import: merge, verify, own marker, master's
\* marker, and the answer kept for a replay.  The file is removed.
Import ==
  /\ hashes' = hashes + 1
  /\ LET s  == sync.slave
         d1 == verify_merge_integrity(merge_incoming_data(db[s], sync.file, now), now)
         d2 == insert_sync_marker_db(d1, hashes', now, s, sync.master)
     IN /\ db' = [db EXCEPT ![s] =
                    insert_sync_marker_db(d2, sync.marker, now, sync.master, s)]
        /\ ready' = [ready EXCEPT ![s] = [marker |-> sync.marker, own |-> hashes']]

Replayed == ready[sync.slave] # None /\ ready[sync.slave].marker = sync.marker

\* Mutants of DbReadyError: the imported file is kept; the attempts are not counted.
DbReadyErrorKeepsFile(file) ==
  sync' = [sync EXCEPT !.tries = @ + 1,
                       !.pc = IF sync.tries + 1 < DbReadyAttempts THEN "db_ready" ELSE "abort"]
DbReadyErrorUncounted(file) == sync' = [sync EXCEPT !.file = file]

\* An error in step 12: asked again, DbReadyAttempts times in all.
DbReadyError(file) ==
  sync' = [sync EXCEPT !.file = file, !.tries = @ + 1,
                       !.pc = IF sync.tries + 1 < DbReadyAttempts THEN "db_ready" ELSE "abort"]

\* Step 12.
DbReady ==
  /\ At("db_ready")
  /\ \/ /\ Replayed
        /\ sync' = [sync EXCEPT !.pc = "finish", !.own = ready[sync.slave].own]
        /\ UNCHANGED <<db, ready, hashes, used>>
     \/ /\ ~Replayed /\ sync.file # None
        /\ Import
        /\ sync' = [sync EXCEPT !.pc = "finish", !.file = None, !.own = hashes']
        /\ UNCHANGED used
     \/ /\ ~Replayed /\ sync.file # None      \* imported, answer lost
        /\ Fault
        /\ Import
        /\ DbReadyError(None)
     \/ /\ ~Replayed /\ sync.file = None      \* no incoming data file
        /\ DbReadyError(None)
        /\ UNCHANGED <<db, ready, hashes, used>>
     \/ /\ Fault                              \* not reached, or failed and restored
        /\ DbReadyError(sync.file)
        /\ UNCHANGED <<db, ready, hashes>>
  /\ UNCHANGED <<now, frozen, busy, latest>>

\* The slave's marker is stored and the master unfreezes itself.
Finish ==
  /\ At("finish")
  /\ db' = [db EXCEPT ![sync.master] =
              insert_sync_marker_db(@, sync.own, now, sync.slave, sync.master)]
  /\ frozen' = [frozen EXCEPT ![sync.master] = FALSE]
  /\ busy' = [busy EXCEPT ![sync.master] = FALSE]
  /\ Goto("unfreeze_peer")
  /\ UNCHANGED <<now, ready, hashes, latest, used>>

PeersOf(d) == Device \ {d}

\* POST /lan/unfreeze: when it arrives the slave unfreezes, gives up its lock and
\* collects tombstones.  The master has cleared its own db_frozen before.
PostUnfreeze(held) ==
  \E arrives \in BOOLEAN :
    /\ IF arrives THEN UNCHANGED used ELSE Fault
    /\ frozen' = [frozen EXCEPT ![sync.master] = FALSE, ![sync.slave] = @ /\ ~arrives]
    /\ busy' = [busy EXCEPT ![sync.master] = held, ![sync.slave] = @ /\ ~arrives]
    /\ db' = IF arrives
             THEN [db EXCEPT ![sync.slave] = gc_tombstones(@, PeersOf(sync.slave))] ELSE db

\* The answer of this request is ignored: .ok()
UnfreezePeer ==
  /\ At("unfreeze_peer")
  /\ Goto("gc")
  /\ PostUnfreeze(FALSE)
  /\ UNCHANGED <<now, ready, hashes, latest>>

\* Step 13: run_gc_tombstones here, then the thread's closing unfreeze().
Complete ==
  /\ At("gc")
  /\ db' = [db EXCEPT ![sync.master] = gc_tombstones(@, PeersOf(sync.master))]
  /\ frozen' = [frozen EXCEPT ![sync.master] = FALSE]
  /\ busy' = [busy EXCEPT ![sync.master] = FALSE]
  /\ sync' = [NoSync EXCEPT !.pc = "completed", !.quiet = sync.quiet,
                            !.master = sync.master, !.slave = sync.slave]
  /\ UNCHANGED <<now, ready, hashes, latest, used>>

\* The failed attempt: db_frozen is cleared here, the slave is told to unfreeze,
\* and the next attempt begins, or the thread ends with its unfreeze().
Abort ==
  /\ At("abort")
  /\ LET again == sync.attempt < MaxRetries
     IN /\ sync' = IF again
                   THEN [NoSync EXCEPT !.pc = "negotiate", !.master = sync.master,
                           !.slave = sync.slave, !.force = sync.force,
                           !.attempt = sync.attempt + 1, !.quiet = sync.quiet]
                   ELSE NoSync
        /\ PostUnfreeze(busy[sync.master] /\ again)
  /\ UNCHANGED <<now, ready, hashes, latest>>

-----------------------------------------------------------------------------
(***************************************************************************)
(* The daemons.                                                            *)
(***************************************************************************)
InSync(d) == ~Idle /\ d \in {sync.master, sync.slave}

\* Mutant of AutoUnfreeze: only a machine that is not busy is unfrozen.
AutoUnfreezeUnlessBusy(d) ==
  /\ frozen[d] /\ ~InSync(d) /\ ~busy[d]
  /\ frozen' = [frozen EXCEPT ![d] = FALSE]
  /\ UNCHANGED <<now, db, busy, ready, sync, hashes, latest, used>>

\* check_auto_unfreeze: the timeout exceeds the longest sync, so it strikes a
\* slave whose master is gone.  Its phase is still that of a running sync, and
\* then the in-progress flag is kept.
AutoUnfreeze(d) ==
  /\ frozen[d] /\ ~InSync(d)
  /\ frozen' = [frozen EXCEPT ![d] = FALSE]
  /\ UNCHANGED <<now, db, busy, ready, sync, hashes, latest, used>>

\* The daemon is stopped and started: what it holds in memory is gone.
Restart(d) ==
  /\ Fault
  /\ frozen' = [frozen EXCEPT ![d] = FALSE]
  /\ busy' = [busy EXCEPT ![d] = FALSE]
  /\ ready' = [ready EXCEPT ![d] = None]
  /\ sync' = IF ~Idle /\ d = sync.master THEN NoSync ELSE sync
  /\ UNCHANGED <<now, db, hashes, latest>>

Step == \/ Negotiate \/ Freeze \/ Pull \/ Backup \/ Merge \/ RestoreBackup \/ Verify
        \/ Upload \/ DbReady \/ Finish \/ UnfreezePeer \/ Complete \/ Abort

Next == \/ Tick \/ Step
        \/ \E d \in Device : Command(d) \/ AutoUnfreeze(d) \/ Restart(d)
        \/ \E m, s \in Device, force \in Forces : StartSync(m, s, force)

Spec == Init /\ [][Next]_vars

\* The master's thread runs on, and the server loop polls check_auto_unfreeze.
FairSpec == Spec /\ WF_vars(Step) /\ \A d \in Device : WF_vars(AutoUnfreeze(d))

-----------------------------------------------------------------------------
(***************************************************************************)
(* Properties.                                                             *)
(***************************************************************************)

\* Whatever is merged, restored, edited or interrupted, no database holds a
\* session, manual session or application that refers to a project or an
\* application that is gone, and project_name_blacklist names exactly the excluded
\* projects: the daemon's connection has foreign keys off and deletes in the
\* order of the tombstones, the dashboard's relies on triggers and cascades.
RefIntegrity == \A d \in Device : DbOK(db[d])

\* A sync that has just completed, and during which nobody issued a command.
Settled == sync.pc = "completed" /\ sync.quiet

Pair == {sync.master, sync.slave}

\* "Conflicts are resolved by the most recent updated_at timestamp": after an
\* undisturbed sync both machines hold what the last command on any of them
\* left in the row.
LatestEditWins ==
  Settled => \A k \in DOMAIN latest, d \in Pair :
               latest[k].left # None => Content(Row(db[d], k)) = latest[k].left

\* After an undisturbed sync a row whose last command was a deletion is gone on
\* both machines, whichever of them was the master and however old the tombstone.
DeletionsReachBoth ==
  Settled => \A k \in DOMAIN latest, d \in Pair :
               latest[k].left = None => Row(db[d], k) = None

\* "A deletion is never resurrected by a peer that had not yet seen it": what a
\* user deleted, and nobody created or edited since, does not come back on that
\* user's machine, so gc_tombstones never drops a tombstone that is still needed.
NoResurrection ==
  \A k \in DOMAIN latest :
    latest[k].left = None => Row(db[latest[k].by], k) = None

\* Equal but for updated_at, and for what the merge does not carry over when it
\* is cleared or hidden: an application's project and is_hidden.
SameRow(r, t) ==
  \/ r = None /\ t = None
  \/ r # None /\ t # None /\ r.val = t.val

SameDatabase(e, f) ==
  /\ \A k \in Keys : SameRow(Row(e, k), Row(f, k))
  /\ \A p \in Projects : e.projects[p] # None =>
       e.projects[p].excl = f.projects[p].excl /\ e.projects[p].merged = f.projects[p].merged
  /\ \A s \in Sessions : e.sessions[s] # None => e.sessions[s].proj = f.sessions[s].proj
  /\ \A m \in Manuals : e.manuals[m] # None => e.manuals[m].proj = f.manuals[m].proj
  /\ e.blacklist = f.blacklist

\* "After a successful sync, both sides should have the same database, including
\* deletions": the rows, their projects, exclusions and merges agree.
PeersConverge ==
  Settled => \A d, e \in Pair : SameDatabase(db[d], db[e])

\* An export is imported at most once, however often db-ready is repeated after a
\* lost answer and whatever restarts in between.
ImportedOnce ==
  [][At("db_ready") /\ hashes' # hashes => ~Known(db[sync.slave], sync.marker)]_vars

\* Every sync ends, completed or given up.
SyncEnds == (~Idle) ~> Idle

\* A machine that was frozen is unfrozen again, also when the master that froze
\* it disappears.
NobodyStaysFrozen == \A d \in Device : frozen[d] ~> ~frozen[d]
=============================================================================
