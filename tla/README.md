# TIMEFLOW: a TLA+ model of its state, its sync and its stores

TIMEFLOW tracks working time. A tray daemon (`src/src`, Rust) watches the
foreground application and writes what it sees to a daily store; a dashboard
(`src/dashboard/src-tauri`, Rust behind a TypeScript user interface) imports the
days into its own SQLite database and lets the user assign, edit, split, merge
and delete what was tracked. Several machines of one user keep their databases
equal by *LAN sync* between the daemons, by *online sync* through a server, or
with archives carried by hand. None of this has a second copy: a mistake in any
of these places loses or doubles working time silently. That is what the
project models.

Paths below are relative to the root of the repository copy, `src/`: for
example `src/src/lan_server.rs`; `commands/` is
`src/dashboard/src-tauri/src/commands/`.

Contents: 1 inventory, 2 plan, 3 modules, 4 runs and bounds, 5 fairness,
6 proofs, 7 what is only model-checked, 8 findings and what no run checks,
9 what is not modelled.

## 1. Inventory

| component | state it keeps | operations | module |
|---|---|---|---|
| LAN merge (`sync_common.rs`, `tombstone_triggers.rs`, `schema.sql`) | projects, applications, sessions, manual sessions, `project_name_blacklist`, `tombstones`, `sync_markers` | `build_delta_for_pull`, `merge_incoming_data`, `verify_merge_integrity`, `gc_tombstones`, SQL triggers | `SyncMerge`, `TombstoneReplay` |
| Dashboard commands on the synchronised tables (`commands/projects.rs`, `manual_sessions.rs`, `settings.rs`, `import.rs`, `sessions/mutations.rs`) | the same database | create, edit, exclude, merge, delete, import | `DashboardOps` |
| LAN protocol (`lan_sync_orchestrator.rs`, `lan_server.rs`) | per sync: attempt, step, payload, marker, backup; per machine `last_db_ready`, freeze | `execute_master_sync` and the handlers it calls, retries, restore, auto-unfreeze | `LanSync` |
| `LanSyncState` (`lan_server.rs`, `sync_trigger.rs`, `platform/windows/tray.rs`) | lock, freeze, role, phase, cooldown, circuit breaker | triggers, master threads, handlers, polls | `SyncState` |
| Discovery and election (`lan_discovery.rs`) | role, peers, uptime | beacons, discovery, election, yielding, forced roles | `Discovery` |
| Pairing (`lan_pairing.rs`, `lan_pair_throttle.rs`) | code, throttle, `lan_paired_devices.json`, secrets | show code, pair, mark, clear, remove | `Pairing` |
| Online sync (`online_sync.rs`, `sftp_client.rs`) | session, packages, marker, backup | session sync, asynchronous push and pull, fallback | `OnlineSync` |
| Tracker (`tracker.rs`, `monitor.rs`, `activity.rs`, `storage.rs`) | the day in memory, open sessions, last foreground | tick, save unless frozen, change of date, sleep, shutdown | `Tracker` |
| Daily store (`shared/daily_store/*`) | tables of a day, revision | `replace_day_snapshot`, migration of a legacy file, `load_day_snapshot` | `DailyStore`, `DaySnapshot` |
| Sessions (`commands/sessions/*`, `import.rs`, `monitored.rs`) | sessions, manual overrides | repeated imports, rebuild, split, assign, boost, delete | `SessionEdits` |
| Assignment model (`commands/assignment_model/*`) | labels, feedback, runs, weights | auto-safe run, rollback, rule, training, resets | `AutoAssign` |
| Projects (`commands/projects.rs`) | rows, blacklist, folders, pins | create, freeze, exclude, restore, merge, unmerge, delete, rows from a sync | `ProjectTree` |
| Clients (`commands/clients.rs`, `pm_manager.rs`) | clients, links, PM's list | create, rename, archive, delete, sync from PM, summary | `Clients` |
| Archives (`commands/import_data.rs`, `export.rs`) | archive files, tombstones | export, import, repeated import | `Archive` |
| Reports and estimates (`commands/time_algorithm.rs`, `sql_fragments.rs`, `report.rs`, ...) | cache of resolved sessions, dirty days | refresh of the cache, wall-clock algorithm, views | `ProjectTime` |
| Database (`db.rs`, `db/pool.rs`, `db_migrations`, `commands/database.rs`, `settings.rs`) | primary and demo file, mode, pool, backups, watermark | open, switch, backup, restore, refresh, clear | `Database` |
| Web UI (`webui/*`, `webui_host_ctl.rs`, `shared/webui_host.rs`) | listening process, `webui_host.json`, codes, sessions of browsers | tray start and stop, redeem, revoke | `WebHost`, `WebLogin` |
| Front of LAN and online sync; platform layer, tray, entry points, configuration; TypeScript front end | none of their own that others rely on | proxies, operating-system I/O, screens | not modelled (section 9) |

They interact by function calls inside a process; by HTTP between daemons, from the
dashboard to its daemon, and from browsers; through files that several threads or
processes rewrite whole (`lan_paired_devices.json`, `webui_sessions.json`,
`webui_host.json`, the mode file); and through the SQLite database, which the
dashboard and the daemon write over separate connections with *different* settings:
`foreign_keys = ON` in the dashboard, `OFF` in the daemon (`lan_common.rs:170-195`).

### What is hard, and what must hold

* **The merge.** References are integers local to a machine, translated through
  names that may have been deleted or refused earlier in the same merge; deletions
  run with foreign keys off; every UPDATE fires a trigger that stamps `updated_at`,
  the very column that decides conflicts. Correct means: no dangling reference, the
  newest edit wins, a deletion stays deleted, both sides end equal.
* **The protocol.** A request can be lost, or be handled and its answer lost; merges
  fail and a backup is restored; daemons restart; there are retries at three levels.
  An export is imported once, every sync ends, every freeze ends.
* **The shared state.** Threads read, check and store the lock, the freeze, the phase
  and the role without a common mutex. One sync at a time, the lock is given back, the
  circuit breaker is not bypassed, daemons settle on one master.
* **Retention.** Markers decide what a delta contains and which tombstones may be
  dropped; both rest on wall-clock seconds.
* **Time itself.** The tracker credits seconds around changes of focus, sleep, idleness,
  midnight and frozen saves; the store is written statement by statement; the dashboard
  imports the same growing slices again and again between rebuilds and splits. No second
  is counted twice, none is lost without a reason.
* **Decisions of the user.** Overrides, exclusions, merges, clients and codes meet
  automatic runs, training, syncs and restores. What the user decided is not undone by
  a program.
* **Files rewritten whole**, without a lock, by two threads or processes.

`PROJECT.json` lists 40 hazards at their lines, with the properties that would catch
each of them.

## 2. Plan

| | modules | status |
|---|---|---|
| 1 | `SyncMerge`, `TombstoneReplay`, `DashboardOps`, `LanSync`, `SyncState` | modelled, checked; types, references, breaker, the once-only import and the replay proved |
| 2 | `Pairing`, `Discovery`, `OnlineSync` | modelled, checked, proved |
| 3 | `Tracker`, `DailyStore` over `DaySnapshot`, `SessionEdits` | modelled, checked, proved, with the refinement of `DaySnapshot` |
| 4 | `ProjectTree`, `Clients`, `AutoAssign`, `Archive`, `ProjectTime` | modelled, checked, proved; of `ProjectTime` the cache |
| 5 | `Database`, `WebHost`, `WebLogin` | modelled, checked, proved |

Theorems left: `TimeCountedOnce` and `ViewsAgree` (`ProjectTime`: sums over seconds; that the cache they
read is current is proved). Left to model: three machines in one LAN (the
slave's cutoff, `lan_server.rs:809`), `freeze()` and `unfreeze()` store by store, the
split analysis.

## 3. Modules

Each module is one component: its state as variables, one action per operation or
handler, a type invariant, and the properties. The map in `PROJECT.json` gives the lines
of the source behind every definition.

### LAN sync

`SyncMerge` is the database and the pure functions of one merge. Rows are functions
from the key by which the merge matches them (project name, executable, executable and
start, start and title) to a record or `None`; the integer ids that differ between
machines disappear, except that `Pid` keeps the one place where a local id leaks out: the
`sync_key` of a manual session's tombstone starts with the deleting machine's project id.
Columns that are only carried along are one value `val`. Whatever a trigger does to a
statement (stamping `updated_at`, copying `project_name`, keeping the blacklist, leaving a
tombstone) is part of the operator that models the statement. A merge is
`apply_tombstones`, `merge_projects`, `merge_applications`, `merge_sessions`,
`merge_manual_sessions`, in one transaction.

`TombstoneReplay` runs the loop at the head of `merge_incoming_data` one tombstone per
step, in the order of `deleted_at`; its end is proved to be what `apply_tombstones` says.

`DashboardOps` has one operator per command that writes a synchronised table, `CanXxx`
being its error return.

`LanSync` composes them: `db[d]` for each machine, the flags of each daemon,
`last_db_ready`, and the sync in flight as its master's thread holds it (step, payload,
backup, file on the slave, marker, attempt, db-ready tries). There is one action per step
of `execute_master_sync`, including the handler it calls; a request that is lost and one
whose answer is lost are separate outcomes where they differ. `RestoreBackup` is the error
arm of merge and verification, `Abort` that of the attempt with its `/lan/unfreeze`. The
commands run between any two steps when `EditsDuringSync` is set. A marker hash is the
number of the marker: the code's hashes are fresh because they contain the table contents,
the time and the machine. Authentication, version check and preflight are the refusal in
`Negotiate`. One sync is in flight at a time; what happens when that fails is the subject
of `SyncState`.

`SyncState` is `LanSyncState` of one daemon with everything that writes it but online sync:
three kinds of trigger, the master threads, the handlers serving remote masters, the
auto-unfreeze poll and elapsing time. A thread's `pc` is where it is in
`run_sync_as_master_with_options`; `guard` is the `SyncGuard` of the Windows tray's helper
thread. A window or a cooldown elapses at some moment; durations are not counted.

`Discovery` is the discovery thread of every daemon: election at the start, beacons with
delays and losses, `handle_packet`, yielding between two masters, expiry of peers, restarts,
a role forced by the settings. Time is counted in ticks; a device id is a number.

`Pairing` has the code of the host, the throttle per address, the handshake with lost
messages and, for `lan_paired_devices.json`, the load, the write and the end of each
read-modify-write of several threads, with a file that reads as empty while it is written.

`OnlineSync` has two machines, the server's session and packages and the storage, modelled
from how `online_sync.rs` uses them. An edit is the second it was made in, a marker the
second it stands for, merging is union; the steps of the session sync and of the
asynchronous packages are actions, each with its failures.

### Tracking and sessions

`Tracker` is `run_loop`: `LoopTop` (stop, change of date, detected sleep) and `LoopBottom`
(record the foreground and background, save), with freezes, settings and sleep in between.
`credit` is the history of what was added to memory, `used` the seconds the user was there,
`away` the moments nobody was, `excuse` the days with a recorded reason for a loss.

`DailyStore` runs the statements of `replace_day_snapshot` one by one inside a transaction
that may fail or be cut off, for two writers, and the four SELECTs of `load_day_snapshot`,
which run outside a transaction. `DaySnapshot` is what it promises: a day that is replaced
in one step. `StoreImplementsDay` is the refinement, under the mapping that reads the
committed tables as a snapshot.

`SessionEdits` is the sessions of one application: slices that the daemon still extends,
`refresh_today`, `refresh_missing_days`, `rebuild_sessions`, splits, assignments, boosts,
deletions, and the overrides that an import reapplies. The loops over slices, sorted sessions and
overrides are recursive functions on `0..n`; `sort_by` is the place `Turn` that project and start
give a session. `upsert_manual_session_override` keeps the two unique keys of its table: an override
that cannot be recorded fails an assignment and is logged by a split (`OverrideFails`).

### What the dashboard makes of it

`AutoAssign`: auto-safe runs with batches and late counts, rollback, the deterministic
rule, training with its guard and resets, between the user's assignments and crashes. The
scoring is abstract: a lone path fact wins, otherwise any candidate may.

`ProjectTime`: the cache of resolved sessions, the triggers that make days dirty, the
wall-clock algorithm that divides a second among the projects that share it, and the
views built from it (seconds, counts, bars, estimates).

`ProjectTree`: the life of project rows and the blacklist, folders, freezing, exclusion,
merging into a parent, deletion, pins and file hints, rows a sync brings, and a restore that
is cut off half-way.

`Clients`: the table, links by name, PM's live list laid over it, spellings.

`Archive`: two databases and archive files that may be old, repeated, or return to the
machine they come from; import is the replay of tombstones, then the rows one by one.

`Database`: the primary and the demo file, the switch between them in its three steps, the
pool keyed by path, backups, a restore that drops and recreates triggers around its
transaction, the refresh that looks, loads and writes, and clearing.

`WebHost`: the tray that starts and stops a headless dashboard through
`webui_host.json`, process ids that are reused, windows that share the port. `WebLogin`:
codes, browsers, connections in threads, and one file of sessions written by two
processes.

`MCLanSync`, `MCSyncState`, `MCTombstoneReplay` and `MCParts` are the instances for TLC,
`*Proofs` the theorems (section 6).

## 4. Runs

Six runs pass:

| run | question | instance |
|---|---|---|
| `lan_integrity` | do references and blacklist survive commands, merge, restore, failure and restart? | 2 machines, 2 projects (one merged into the other before, its sessions still pointing at it), 1 application, 1 session, 2 interchangeable manual keys; 2 commands of every kind that creates, moves, hides or deletes a row (`StructuralOps`), also during the sync; 1 sync of 1 attempt, 1 fault |
| `lan_converge` | after undisturbed syncs: newest edit, deletions, equality | 2 machines, 2 values, 2 commands, 2 syncs in either direction |
| `lan_faults` | once-only import, termination, freeze lifted | no commands, 2 syncs, 3 faults, 2 attempts of 2 db-ready requests, forced or not |
| `sync_breaker` | types, breaker | 2 interchangeable threads, 1 remote, opens at the second failure, capped at the third, 3 failures in a row |
| `sync_release` | lock and freeze given back | 2 threads, 1 remote, unforced, breaker opens at the first failure |
| `parts` | the properties of the fifteen modules that share no variables with the LAN sync | one of the fifteen, chosen in the initial state (see below); 0.69 million distinct states |

`parts` is one run for many modules: `MCParts` names one of them in its initial state, only
its actions are taken, and the variables of the others keep their initial values. The state
space is therefore the sum of the parts and not their product, and each property speaks of
its own part.

| part | properties | instance |
|---|---|---|
| replay | `LoopIsApplyTombstones` | one row per table, every combination of rows, references and tombstones stamped 1..3 around rows stamped 1..3 |
| pairing | `CodeGuarded`, `PairingsStay` | 2 guests, 2 threads, 2 codes of 1 wrong guess, 2 posts, 1 lost and remade secret, 1 upset |
| tracker | `TrackedTimeIsReal`, `LossHasAReason` | 1 application and the rest, days of 6 s, seconds 4 to 8, 1 upset, ticks up to 3 s apart |
| store | `ReadsAreCommitted`, `StoreImplementsDay` | 2 applications, 2 files, 4 snapshots, 2 saves, 1 failure, 2 writers, 1 reader |
| sessions | `ClosedTimeIsKept`, `ChoiceReapplied` | 1 project, days of 4, clock to 5, 3 rows, 2 commands |
| online | `SessionMeansSame`, `NothingForgotten` | 2 machines, each with or without the marker of an earlier LAN sync, seconds to 4, 2 edits, 1 session, 1 package, 2 triggers, 1 fault |
| discovery | `RolesSettle` | 2 devices, 3 ticks, 2 packets under way, 1 oddity |
| archive | `DeletionsAreReal`, `ImportKeepsWork` | 2 machines, sessions of 2 starts and 2 ends, 3 changes, 1 archive, 2 imports |
| assign | `AutomationKeepsChoices`, `AutoRunsCanBeUndone`, `LearnsOnlyFromTheUser` | 2 sessions, 2 projects, 3 acts, runs, trainings and mishaps in all |
| time | `TimeCountedOnce`, `ViewsAgree` | 2 days, 2 sessions that overlap and may cross midnight, 2 projects, 1 file row, 1 manual session, 2 changes |
| tree | `TimeHasAHome`, `NamesCanComeBack` | 3 names, 3 changes, 1 row from a peer |
| clients | `ClientsHoldTogether` | 2 projects, 3 names of which two are one in lower case, 5 changes |
| webhost | `HostCanBeStopped` | 3 process ids, 3 starts, 2 mishaps |
| weblogin | `LoginsAreKept` | 2 processes, 2 connections, 2 codes, 2 wrong guesses, 2 upsets |
| database | `RestoreIsWhole`, `ModesStayApart` | 2 threads, 3 days, 3 commands, 1 backup |

`TypesOK` is the type invariant of whichever part runs.

Six runs show the code disagreeing with what it says of itself; TLC finds the violation
and section 8 says what it means: `lan_project_delete`, `lan_lost_upload`,
`lan_lost_tombstone`, `sync_backoff`, `sync_tray`, `sessions_lost_time`.

**Why the bounds are enough.** A conflict needs two writers of one row: two commands make
every such pair, and two syncs let a marker of the first decide the delta of the second and
its tombstones be collected. References break between a row and its parent, so one child of
each kind with two projects (one of which can be created, merged into, or deleted) covers
each edge. A lost answer needs one fault, a lost answer followed by a restart two, and the
failure of the retry three. Two attempts and two db-ready requests exercise "again" and "no
more". A read-modify-write of a whole file goes wrong with two threads; the limit of a code with
two connections at it; a switch of databases with one switch and one refresh, or two
switches. A chain of merged projects needs three names. A sum over sessions needs two that
overlap and one that crosses midnight. Commands of `LanSync` are at least one second apart
(`used.opAt`): within one second two edits of a row tie, and the code lets each machine
keep its own. Where a theorem covers the property (section 6) the bounds do not matter for
its truth. The bounds stop the behaviours, so deadlock is not checked.

**What `lan_converge` leaves out on purpose.** Its `UserOps` omits commands whose effect the
code does not carry to the peer, or carries with the defects of section 8; each of them is a
hazard in `PROJECT.json` and all of them are in `lan_integrity`: un-assigning a session or an
application and excluding or unmerging a project (`COALESCE` keeps the peer's local project),
hiding a session (`is_hidden` does not touch `updated_at`), deleting a project
(`lan_project_delete`), deleting an application (a newer session spares it on one side only),
re-importing daily data (stamps unchanged sessions). It has one manual key, so a manual session
is not moved to another key: the code then leaves no tombstone for the old one. Commands during
the sync are left out because the four properties speak of undisturbed syncs. The positive
result is therefore: *for the commands it lists*, two machines converge, edits win by time and
deletions stay.

**Properties with exceptions.** Several properties name the circumstances in which the code
does not keep the promise (`excuse`, `clash`, `crossed`, `cut`, `lost`, `loose`, `late`,
`mixed`, `cutOff`, ...). Each is a history variable that is set by exactly the event it is
named for; the event is a real one, and the property says that there is no other.

## 5. Fairness

Safety is checked and proved without fairness. `FairSpec` of `LanSync`: the master's thread
runs on (`WF_vars(Step)`: it is a thread whose requests have timeouts, so each step ends) and
the server loop polls `check_auto_unfreeze` (every 5 s). Nothing is assumed of commands,
triggers, faults or restarts, which are bounded. `FairSpec` of `SyncState`: threads run on, a
remote master that is alive goes on to its `/lan/unfreeze` (it sends one on success and on
every failed attempt), and the poll runs. The dropped `SyncGuard` and elapsing windows have no
fairness. `check_auto_unfreeze` is enabled only when nobody is in the middle of a sync,
because its timeout of 1200 s exceeds the longest sync; the repository has a test for that
relation (`auto_unfreeze_exceeds_db_ready_budget`).

`LockReleased` exempts a lock that a dead master left behind: auto-unfreeze lifts the freeze
but keeps `sync_in_progress` while the phase is that of a running sync
(`lan_server.rs:336`).

## 6. Proofs

Eight modules hold theorems, all checked by TLAPS to the last leaf, for every value of the
constants that satisfies the assumptions: any number of machines, rows, threads, processes,
sessions, days and codes, and any bounds. Each follows the same plan: an inductive
invariant, a lemma for the initial states, one lemma or step for each action, and PTL for
the temporal conclusion. The invariants were given to TLC before they were proved.

| module | theorem | states |
|---|---|---|
| `PeerProofs` | `TypeCorrect`, `BreakerTheorem`, `OnlineTypes`, `OnlineSameAfterSession`, `OnlineNothingForgotten` | `TypeOK`, `BreakerHolds`, `SessionMeansSame`, `NothingForgotten` |
| `SyncMergeProofs` | `MergeKeepsDb`, `VerifyRestoresRefs`, `MergeDoesNotResurrect` | facts about one merge |
| `LanSyncProofs` | `TypeCorrect`, `RefIntegrityTheorem`, `ImportedOnceTheorem` | `TypeOK`, `RefIntegrity`, `ImportedOnce` |
| `TrackerProofs` | `TrackerInvariant`, `LossTheorem`, `TrackedTheorem` | `LossHasAReason`, `TrackedTimeIsReal` |
| `StoreProofs` | `ReadTheorem`, `StoreRefines`, `SesTypeTheorem`, `TimeTheorem`, `ChoiceTheorem` | `ReadsAreCommitted`, `StoreImplementsDay`, `ClosedTimeIsKept`, `ChoiceReapplied` |
| `ProjectProofs` | `NamesTheorem`, `HomeTheorem`, `ClientTheorem`, `AssignTypes`, `UndoTheorem`, `LearningTheorem`, `ChoicesTheorem`, `CacheTheorem` | `NamesCanComeBack`, `TimeHasAHome`, `ClientsHoldTogether`, `AutoRunsCanBeUndone`, `LearnsOnlyFromTheUser`, `AutomationKeepsChoices`, `CacheIsCurrent` |
| `AccessProofs` | `CodeTheorem`, `PairingTheorem`, `HostTheorem`, `LoginTheorem`, `WrongCodesBounded`, `RolesTheorem` | `CodeGuarded`, `PairingsStay`, `HostCanBeStopped`, `LoginsAreKept`, `RolesSettle` |
| `DatabaseProofs` | `RestoreTheorem`, `ModesTheorem`, `ArcTypeTheorem`, `DeletionsAreRealTheorem`, `ImportTheorem`, `ReplayTheorem` | `RestoreIsWhole`, `ModesStayApart`, `DeletionsAreReal`, `ImportKeepsWork`, `LoopIsApplyTombstones` |

**`SyncState`.** The invariant is `TypeOK /\ RetryBound /\ WindowOpen`: once the threshold is
reached a window is open until one has elapsed, and a thread past its first attempt has
`attempt > 0`, so a cycle begins only in `Begin`, which looks at the window.

**`OnlineSync`.** `OnInv` has five parts beyond the types, because neither property is inductive
and each part leans on the one before. `Roles`: a machine that is in the session the server has
is its master or its slave, and the step the server has been told fits the place where the
machine's thread is; a machine that has completed the session left the server at step 12 or
beyond. `Carried`: what the slave uploaded and what the master sent back are with the machine
that they came from, in its database or, while a failed merge may still put the backup back,
in the backup (`Sure`); `SessionMeansSame` follows. `Told`: edits and markers lie in the
past, the markers of the two machines differ unless they stem from an earlier LAN sync (`Holds`
names every place a marker may be in: database, backup, a package, the push on its way), and a
backup that may be put back has either the present marker or only edits a marker has overtaken
already. `Packed`: the edits of a package are with the machine that made it, a full package
holds what the earlier ones of that machine hold, and a package that a machine has seen stays
until it answers it. `Covered`: an edit the other machine is not *sure* to keep is newer than
the marker, overtaken, in an uploaded package, or `Doomed`: the other machine has it, may lose
it again with a failed merge, and then every package that can make it do so carries the edit,
so that the rejection records it as overtaken. Without `Doomed` the invariant does not hold:
TLC finds the restore that takes away an edit of a package acknowledged just before.
`NothingForgotten` follows, since a doomed edit is in the other machine's database.

**`SyncMerge` and `LanSync`.** `MergeKeepsDb` gives the types, `VerifyRestoresRefs` says that
verification leaves no dangling reference whatever was merged, and `MergeDoesNotResurrect`
that a row covered by a recorded tombstone is not re-created. `RefIntegrity` alone is not
inductive: a restore puts back the backup, so the backup must be consistent too, and the
newest marker must exist and lie in the past. The invariant is
`TypeOK /\ DbsSound /\ BackupSound`; the first part of `LanSyncProofs` shows that each
command of the dashboard keeps `Sound`.

`ImportedOnce` is an action property: a db-ready that imports does so on a slave that does
not know the marker. It needs `Hashed`: no database, backup, answer or sync in flight holds a
hash that has not been made yet, and from the upload until the import (`Awaited`) the slave
does not know the marker of the export. The backup is in it because a restore must not bring
back a hash; the answers stored in `last_db_ready` because a repeated one goes into the master's
database in `Finish`.

**`TombstoneReplay`.** `ReplayInv`: after each iteration the transaction holds what
`apply_tombstones` makes of the database it began with and the tombstones `Done`, those replayed
so far whose key was not recorded; no tombstone that is left comes before one that is replayed,
and each replayed one has a record of its key. The step needs the order. Deleting a project
stamps the rows it detaches with the time of the merge, and the next comparison sees that stamp;
`apply_tombstones` looks for an earlier tombstone of the row's project instead (`TsAt`). The two
agree (`DetachedStamp`) because a tombstone is replayed after all older ones, and projects come
last among those of one second. `SameDeletions` is the same point from the other side: a later
tombstone does not change what an earlier one deletes. There is one lemma for each kind of
tombstone, and one for those that spare their row.

**`Tracker`.** `TrkInv` has four parts beyond the types. `Bounds` keeps the tick inside the
clock. `Ledger`: what memory holds of the current day and the store of every other day is
what was credited to it, but for days with an excuse; `LossHasAReason` follows. `Spans`: the
sessions of an application do not overlap, none runs over an absent moment, an open session
(`active`) ends at its last record and saw no absence, and while the loop is between its two
halves everything that is not open ended before the tick. `Counted`: summed over all days, the
seconds credited do not exceed the ticks with the user there. Memory may fall *behind* the
store when a day cannot be read at a restart, and the next save then replaces the larger
snapshot by the smaller; the sum therefore takes the larger of the two for the current day.
The sum is a recursive function over the days, `OverAllDays`; that it exists, and what
changing one day does to it, is proved by a minimal counterexample (`WFMin`), because
the induction theorems of the library take an operator as a parameter.

**`DailyStore`.** `StoreInv` is `DsTypeOK /\ Read /\ Agree`. `Agree` says, for each place in
`replace_day_snapshot`, which tables are already those of the snapshot; when the last
statement has run they all are (`CommitSaves`), and no other statement touches the committed
tables (`OnlyCommitWrites`): these two are the step simulation of `StoreRefines`. Files are
stored once per key with the ordinal of their last entry and read back in that order;
`FilesRead` proves, by ranks of positions, that this is the order of the last entries. `Read`
says that each SELECT of a reader saw tables that were committed since it began.

**`SessionEdits`.** Neither property is inductive. `SesShape` adds to the types that no two sessions
begin together, that a session begins before it ends, in the past, and counts no more than its
length; `AbsorbIs` and `SplitNumbers` show that for a merge, where only what lies beyond the end
counts, and for the rounding of a split. `ClosedTimeIsKept` needs `Covered`: what a session that
`rebuild_sessions` hid covered is shown by another one or was deleted by the user, and the daemon is
not extending its slice. Without it an import after a rebuild could be lost: the import only grows a
hidden row when the slice had gone on (`ImportShows`). `MergedKeeps` carries along the walk that what was
shown is shown, and that the sessions it has hidden are covered by those that are left, which needs the
order of the walk: a session is merged into one that begins no later. `ChoiceReapplied` needs `Chosen`: every recorded choice has an override with its interval and
project, and no other override leads to the session that begins there (`Decides`), by its id or by
its interval, so it does not matter that a later one of the loop wins. That two overrides
never have one interval (`IntervalsApart`) is what the unique keys give, and `MovedIs` that merging
only moves overrides of sessions whose choices it ends. The loops are followed with `Counting` and
`Recursion`.

**`Projects`, `Clients`, `AutoAssign`.** `NamesCanComeBack` is inductive with the types and says
that the blacklist bans names of excluded rows only. `TimeHasAHome` needs `Staged` (a merged
stage is excluded, and its parent exists and is no stage while no row came from a peer) and
`Pinned` (a pin leads to a project that may collect, while neither auto-freezing nor a peer
met it). `ClientsHoldTogether` needs `LinksHeld`. `LearnsOnlyFromTheUser` needs `Taught`: weights, lessons
*and every label that counts as the user's* name only what the user taught. `AutoRunsCanBeUndone`
needs `RunFits` and `CountsFollow`: the count in memory is the count written, between batches.

**`ProjectTime`.** `CacheIsCurrent` says that the rows an answer is computed from are, for all of its
days, what `rebuild_session_project_cache_day` would make of the tables now. No run lists it: it is
what `TimeCountedOnce`, which a run checks, depends on. It is not inductive, because it speaks of days a
query has just read; `CacheInv` adds that a day which is not dirty has either the rows of a rebuild
(`UpToDate`) or none, and in the second case `NotCached` makes a query rebuild it. One lemma,
`ChangeKeepsInv`, covers every change of the tables: a day that it leaves clean must be
`DayUntouched`, with the same sessions that resolve to the same projects (`ResolvedSame`). For an
edit of a session or a file that is what the triggers mark; for excluding and merging it is that
the resolution asks only whether a project exists; and for `delete_project`, which rewrites cached
rows without marking anything itself, that a row which resolves to the project either has it as its own
(the update of the session marks the day) or has it from a file of that day (the cascade on the
file's row does). A deletion by LAN sync cascades to no file, so the theorem ends there
(`history.orphans`).

**`Pairing`, `WebHost`, `WebLogin`.** `Guard`: the code that is shown is the last one made, it has
admitted nobody, and its wrong guesses are those it counted. `Alone`: unless two overlapped, one
thread is in the file, it knows what the file holds, and the file is torn only between the
halves of a write. `HostListens`: a headless host is the one that has the port. `OnePlace`: a
code is pending in one process, taken by one connection, or used. `FileKept`: the file is what
was admitted and not revoked. `TriesBounded`: wrong guesses already counted, and those of
connections that have passed the check, together exceed the limit by less than the number of
threads, which is why the limit holds only up to concurrency.

**`Database`.** `Covered`: every trigger is there or some restore on its way owes it. `Kept`: a
restored file has its watermark, or the restore is about to write it, and a refresh on its way
holds no older day unless it had looked before. `PoolInv`: a connection returns to the pool of
its own file. `ApartInv`: path and flag of the mode agree unless a switch is on its way, and a
refresh that no switch met writes to the file of the mode it loaded for.

**`Discovery`.** `DiscInv` has five parts beyond the types. `Unforced`: who has set no role forces
none. `Timely`: packets are not older than `MAX_DELAY`, and what they say of their sender's start is
not later than the start of the daemon that runs there now. `Settling`: some daemon is master, is a
slave for a reason `RolesSettle` names, or is before the end of its election with no packet of a
master on its way to it, so that it will lead. That two masters never yield to each other is
`Ranked`: as long as no daemon has stopped, a daemon that has yielded has done so to one before it
in the order of `handle_packet` (the earlier start, then the smaller id), and one that leads or has
yielded itself; the first one in that order (`FirstLeads`) has not yielded. `MetClose`: of two masters, the one that kept its role when it handled the other's beacon
did not start more than `MAX_DELAY` later.

**`Archive`.** What an import computes are four recursions: over the tombstones to record and to
apply, over the rows to merge, and over the growth of one interval. They are recursive functions
on `0..n`. `Recursion` shows that such a function exists, by a minimal counterexample (`WFMin`),
`Counting` that what holds of 0 and of each next number holds of all of them: the facts that the
induction theorems of the library would give. `TombKeeps` and `ApplyTombsKeeps` say that a manual
session which disappears is covered by a tombstone of the archive that is not older. `WholeIs` says
that the interval of `merge_or_insert_session` is closed after at most `SLOTS` rounds: it touches
only sessions that lie in it, because a round that changes the interval absorbs one more session.
From this `MergeKeeps` and `MergedKeeps` follow: a merge of one row, and of all rows in any order, hides no
visible instant. `ArcInv` is that every database and archive is `Truthful`: it has its foreign keys, its
tombstones are deletions of users, and its manual session is not newer than the clock. The last part
is needed because `DropsManual` stamps its tombstone with the clock, and `ImportKeepsWork` asks that
it is not older than the row.

### Assumptions

Every assumption is named in the module that declares the constant, and TLC evaluates it.
`None`, `NoDay`, `NoRow`, `NoTask` and the like are no value of the type they extend. Keys and
tables given as constants are typed. Start databases of `LanSync` satisfy `DbOK` and their
markers are not newer than the start. Parameters of the breaker are positive with base <=
maximum, as the constants of `lan_server.rs` are. `SESSION_GAP` is positive: `config.rs:568-576`
clamps the setting to 10 s and more. The tries of codes and throttle are positive. PM's client
names are upper case, so two of them never differ in case only (`ClientAssumption`). `OnAssumption`: online sync has two
machines, the bounds on seconds and sessions are numbers, and `NoMark` is none. `DiscAssumption`: there
is a device, ids are natural numbers, and so are the ticks of an election and of a delay.
`ArcAssumption`: the bounds are numbers and `Absent` is no row. `ReplayAssumption`: the start
databases and the tombstones of a payload are typed, and the key of a tombstone is one of its
table. `SesAssumption`: project ids, the gap, the length of a day, which is not 0, and the bounds are
numbers. `PtAssumption`: no project is named like the
state of a deleted one, or like none. The
applications, files, sessions and connections are finite sets where they are counted.
`PowerAssumption` says that 2^n is positive for n up to 20: exponentiation is out of the provers'
reach.

## 7. Only model-checked

* **Liveness** (`SyncEnds`, `NobodyStaysFrozen`, `LockReleased`, `FreezeEnds`): fairness and ENABLED
  are out of the provers' reach.
* **`LatestEditWins`, `DeletionsReachBoth`, `NoResurrection`, `PeersConverge`**: they hold for the
  commands and the undisturbed syncs of `lan_converge` and not in general: outside those limits three
  of them are refuted by the runs that end in a violation, and a row that is deleted twice under one
  key escapes the second one (`sync_common.rs:384`). A theorem for all values of the constants would be
  false.
* **Sums over seconds** (`TimeCountedOnce`, `ViewsAgree`): what a fold over sessions or seconds computes
  needs induction over data, and the library's induction theorems cannot be instantiated. For
  `Tracker`, `Archive` and `SessionEdits` their instances are proved by hand (`OverAllDays`,
  `Recursion`); the sums of `ProjectTime` are over seconds shared among sessions, and are left to TLC; only
  that they are taken over a current cache is proved (`CacheTheorem`).
* **`TypesOK`** in `parts`: the type invariants of `Tracker`, `DailyStore`, `AutoAssign`, `ProjectTree`,
  `Clients`, `Pairing`, `WebHost`, `WebLogin`, `OnlineSync`, `Discovery`, `Archive`, `SessionEdits` and
  `Database` are proved as part of the invariants above. Of `ProjectTime` the shape of the rows is
  proved (`PtRowsOK`); that every moment has its date is a sum over the lengths of days, and checked.

## 8. Findings, and what no run checks

The six disagreements that a run shows:

| run | shows |
|---|---|
| `lan_project_delete` | the replay of a project's tombstone re-stamps its sessions, and an older row beats a newer edit |
| `lan_lost_upload` | a marker stored before a failed upload makes the next delta start too late: after a successful sync the databases differ |
| `lan_lost_tombstone` | the unfreeze of a failed sync lets the slave drop a tombstone the peer never imported; the row comes back |
| `sync_backoff` | the lock of a thread that waits for its next attempt is taken for stale, and a second thread syncs |
| `sync_tray` | on Windows a second click in the tray starts a second sync |
| `sessions_lost_time` | a rebuild hides the slice the daemon still extends, and what it gains is in no view |

Met while reading, and not the subject of a run:

*Time and projects*
* Daylight saving (`time_algorithm.rs:345`): a day of 25 hours drops time after 23:00, one of 23 hours
  shares an hour twice (`en/common.json:1647`).
* The daemon's replay of tombstones leaves `file_activities` and `session_project_cache` with a project
  id that is gone (`sync_common.rs:479`), and `build_estimate_rows` drops that time.
* Sessions that cross midnight are loaded by their start date only; sessions of excluded projects get
  seconds while `session_count` leaves them out; report sessions omit merged children that the extra
  information counts.
* `blacklist_project_names` inserts nothing: the schema's `name` is NOT NULL and the insert is
  OR IGNORE. A deleted excluded project is re-created by the next folder sync.
* After a LAN sync of A merged into B there and B into C here, a parent is itself merged, contrary to
  `time_algorithm.rs:444-445`; older peers may clear `excluded_at` while `merged_into` is kept, contrary
  to `projects.rs:408-410`. Auto-freezing leaves the pins that freezing by hand removes.
* `create_project_from_folder` answers an `assigned_folder_path` that it did not store.

*Assignment*
* The rollback of a run reverts assignments the user has confirmed since (`auto_safe.rs:44`);
  `AutomationKeepsChoices` names it as its exception.
* Assigning a session fails when its id and its interval have one override each: the UPDATE would give
  two rows one id (`manual_overrides.rs:43-61`, `mutations.rs:100`). It takes a purge and a re-import
  that has grown. A split in that state only logs it (`split.rs:145-153`), and the next import takes
  the first part's project away; `ChoiceReapplied` excepts that part.
* Incremental training compares `created_at` and `last_train_at` in different formats; a crash leaves
  `is_training` set.

*Clients*
* `clients_sync_from_pm` stamps `updated_at` of every active project, so stale rows win the next sync.
* `clients_update` renames links by exact match while delete ignores case; `clients_sync` drops a
  row that differs in case, with its rates; excluded and merged projects keep names of deleted
  clients; `get_clients_summary` filters on `client_name` before PM's names are laid over
  (`clients.rs:36`).

*Web UI*
* The pid of a stale `webui_host.json` may belong to the window or to the daemon
  (`comm_matches_dashboard` accepts "timeflow-demon"), and `stop()` kills it (`webui_host_ctl.rs:206`).
* Disabling the setting leaves a running headless host that the tray cannot stop any more; the window
  and the headless dashboard each have an `AuthState` over one `webui_sessions.json`;
  `webserver_status` reports running as enabled.

*Database*
* A restore drops the triggers outside its transaction: a crash there loses for good those that only
  a migration creates (`trg_sessions_tombstone`, `trg_applications_tombstone`, the name triggers of
  m20), and deletions before they are back leave no tombstone.
* `daily_backfill_min_date` is written after the commit, and as a UTC date while days are local.
* `clear_all_data` sets no watermark, so `refresh_missing_days` brings the days back at the next start,
  and deletes tombstones, so peers bring rows back.
* `cleanup_data_folder` deletes every `.json` of the data folder, among them the mode, the paired
  devices, the browsers' sessions and the sync settings, while `en/common.json:922` and `:928` speak of
  archived imports and legacy files.
* `refresh_today` and `refresh_missing_days` read the demo flag, wait, and take a connection by the
  path of that later moment; two overlapping `set_demo_mode` leave path and flag disagreeing. Both are
  in the model, as the exceptions of `ModesStayApart`.
* Restoring an old backup resets `schema_version`, and migrations run again at the next start.

*LAN sync*
* A comment in `build_delta_for_pull` ("Tombstones are delta-only events", `lan_server.rs:1549`)
  disagrees with the full snapshot, which includes them. The models follow the code.
* `restore_database_backup_typed` puts the whole database back, with whatever the user did since the
  backup. The model does the same.

## 9. Not modelled

* The front of LAN and online sync in the dashboard (`commands/lan_sync.rs`, `online_sync.rs`, ...):
  proxies to the daemon's endpoints, which are modelled. The platform layer, tray menus, entry points
  and configuration: operating-system I/O; what the tray starts is in `SyncState` and `WebHost`. The
  TypeScript front end.
* In LAN sync: `manual_sessions.app_id`, clients, the sync log, table hashes (the negotiated mode
  depends on markers only), backup files beyond the last, `stop_signal` (a restart covers the loss of
  the thread), authentication, endpoints of older peers. Machines have one clock; the code documents
  that it relies on that (`lan_server.rs:710`, `lan_sync_orchestrator.rs:804`). Two machines; with three
  the cutoff of a slave is its latest marker with *any* peer.
* `freeze()` and `unfreeze()` are single steps in `SyncState`; their stores can interleave and leave a
  freeze without a time.
* `Database` has one dashboard process; the daemon and a headless dashboard use the same file.
* Numbers of the assignment model, rates and money, labels, wording, layout; encryption, compression
  and credentials of online sync.

`PROJECT.json` says for each component what is left out.
