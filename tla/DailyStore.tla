----------------------------- MODULE DailyStore -----------------------------
(***************************************************************************)
(* The tables of the daily store for one day (shared/daily_store): the     *)
(* statements of replace_day_snapshot, one by one, inside a transaction    *)
(* that may fail or be cut off at each of them; the daemon's saves and the *)
(* dashboard's migration of a legacy JSON file as two writers; and the     *)
(* four SELECTs of load_day_snapshot, which run outside a transaction.     *)
(* A snapshot maps applications to totals, sessions and files.             *)
(***************************************************************************)
EXTENDS Naturals, Sequences, FiniteSets

CONSTANTS
  DsApps, DsFiles,      \* executables; keys (name, detected path) of files
  Snapshots,            \* snapshots that are saved
  NoSnapshot, NoRow,
  Daemon, Legacy,       \* the two writers
  MaxSaves, MaxFaults   \* bounds: commits, failures

\* What a snapshot has of an application.
SnapshotFile == [file: DsFiles, v: Nat]
AppSnapshot == [total: Nat, ses: Seq(Nat), files: Seq(SnapshotFile)]
FileRow == [ordinal: Nat, v: Nat]

ASSUME StoreAssumption ==
  /\ IsFiniteSet(DsFiles) /\ MaxFaults \in Nat /\ Daemon # Legacy
  /\ NoRow \notin Nat \cup FileRow
  /\ \A s \in Snapshots : s \in [DOMAIN s -> AppSnapshot] /\ DOMAIN s \subseteq DsApps

VARIABLES
  base,    \* the committed tables and the revision
  work,    \* per writer, the tables as its transaction sees them
  w,       \* per writer, where it is in replace_day_snapshot
  reader,  \* load_day_snapshot: statements done, and what they have returned
  faults,
  since    \* history: tables that were committed while the reader reads

dsVars == <<base, work, w, reader, faults, since>>

Writers == {Daemon, Legacy}

NoTables == [rev  |-> 0,
             apps |-> [x \in DsApps |-> NoRow],
             ses  |-> [x \in DsApps |-> <<>>],
             files |-> [x \in DsApps |-> [f \in DsFiles |-> NoRow]]]

Resting == [pc |-> "rest", snap |-> NoSnapshot, left |-> {}, rev |-> 0]
NotReading == [n |-> 0, apps |-> NoTables.apps, ses |-> NoTables.ses, files |-> NoTables.files]

DsInit ==
  /\ base = NoTables
  /\ work = [d \in Writers |-> NoTables]
  /\ w = [d \in Writers |-> Resting]
  /\ reader = NotReading /\ faults = 0 /\ since = {}

StoredApps == [DsApps -> Nat \cup {NoRow}]
StoredSes == [DsApps -> Seq(Nat)]
StoredFiles == [DsApps -> [DsFiles -> FileRow \cup {NoRow}]]
Tables == [rev: Nat, apps: StoredApps, ses: StoredSes, files: StoredFiles]
Saver ==
  [pc: {"rest", "checked", "header", "removed", "app", "sessions", "files", "stale", "commit"},
   snap: Snapshots \cup {NoSnapshot}, left: SUBSET DsApps, rev: Nat]
Reader == [n: 0..4, apps: StoredApps, ses: StoredSes, files: StoredFiles]

DsTypeOK ==
  /\ base \in Tables /\ work \in [Writers -> Tables] /\ w \in [Writers -> Saver]
  /\ reader \in Reader /\ faults \in 0..MaxFaults /\ since \in SUBSET Tables

-----------------------------------------------------------------------------
(* replace_day_snapshot. *)

At(d, pc) == w[d].pc = pc
Goto(d, pc) == w' = [w EXCEPT ![d].pc = pc]

\* BEGIN, and the previous revision is read: the transaction sees the tables of now.
BeginSave(d, s) ==
  /\ base.rev < MaxSaves
  /\ w' = [w EXCEPT ![d] = [pc |-> "header", snap |-> s, left |-> DOMAIN s, rev |-> base.rev]]
  /\ work' = [work EXCEPT ![d] = base]
  /\ UNCHANGED <<base, reader, faults, since>>

save(d) == d = Daemon /\ At(d, "rest") /\ \E s \in Snapshots : BeginSave(d, s)

\* migrate_legacy_json_files: the day is looked for, and saved later.
already_exists(d) ==
  /\ d = Legacy /\ At(d, "rest") /\ base.rev = 0
  /\ Goto(d, "checked")
  /\ UNCHANGED <<base, work, reader, faults, since>>

migrate_legacy_json_files(d) ==
  /\ At(d, "checked") /\ \E s \in Snapshots : BeginSave(d, s)

\* The header takes the write lock: SQLite refuses it to a transaction whose view
\* is no longer the newest, or while another one holds it.
Locked(d) == \E o \in Writers \ {d} : ~(At(o, "rest") \/ At(o, "checked") \/ At(o, "header"))

UpsertHeader(d) ==
  /\ At(d, "header")
  /\ IF base.rev # w[d].rev \/ Locked(d)
     THEN w' = [w EXCEPT ![d] = Resting] /\ UNCHANGED work
     ELSE Goto(d, "removed") /\ work' = [work EXCEPT ![d].rev = @ + 1]
  /\ UNCHANGED <<base, reader, faults, since>>

\* Applications that the snapshot does not have; sessions and files cascade.
DeleteRemoved(d) ==
  /\ At(d, "removed")
  /\ LET Gone(x) == x \notin DOMAIN w[d].snap IN
     work' = [work EXCEPT ![d].apps  = [x \in DsApps |-> IF Gone(x) THEN NoRow ELSE @[x]],
                          ![d].ses   = [x \in DsApps |-> IF Gone(x) THEN <<>> ELSE @[x]],
                          ![d].files = [x \in DsApps |-> IF Gone(x) THEN NoTables.files[x] ELSE @[x]]]
  /\ Goto(d, IF w[d].left = {} THEN "commit" ELSE "app")
  /\ UNCHANGED <<base, reader, faults, since>>

\* The application that is next.
Current(d) == CHOOSE x \in w[d].left : TRUE
Wanted(d) == w[d].snap[Current(d)]

UpsertApp(d) ==
  /\ At(d, "app")
  /\ work' = [work EXCEPT ![d].apps[Current(d)] = Wanted(d).total]
  /\ Goto(d, "sessions")
  /\ UNCHANGED <<base, reader, faults, since>>

\* Mutant of WithSessions: sessions the snapshot has no more are not trimmed.
WithSessionsUntrimmed(old, new) ==
  [i \in 1..(IF Len(old) > Len(new) THEN Len(old) ELSE Len(new)) |->
     IF i <= Len(new) THEN new[i] ELSE old[i]]

\* Sessions are upserted by index, and those beyond the last index deleted.
WithSessions(old, new) == [i \in 1..Len(new) |-> new[i]]

UpsertSessions(d) ==
  /\ At(d, "sessions")
  /\ work' = [work EXCEPT ![d].ses[Current(d)] = WithSessions(@, Wanted(d).ses)]
  /\ Goto(d, "files")
  /\ UNCHANGED <<base, reader, faults, since>>

\* dedupe_files_preserving_last: the indices that stay.
dedupe_files_preserving_last(files) ==
  {i \in 1..Len(files) : ~\E j \in (i + 1)..Len(files) : files[j].file = files[i].file}

\* The row of f: the place of its entry among those that stay, and its value.
RowOf(files, f) ==
  LET stay == dedupe_files_preserving_last(files)
      i == CHOOSE k \in stay : files[k].file = f
  IN [ordinal |-> Cardinality({j \in stay : j < i}), v |-> files[i].v]

Mentions(files, f) == \E i \in DOMAIN files : files[i].file = f

\* INSERT OR REPLACE of the files that stay, with their ordinals.
UpsertFiles(d) ==
  /\ At(d, "files")
  /\ work' = [work EXCEPT ![d].files[Current(d)] =
                [f \in DsFiles |-> IF Mentions(Wanted(d).files, f) THEN RowOf(Wanted(d).files, f) ELSE @[f]]]
  /\ Goto(d, "stale")
  /\ UNCHANGED <<base, reader, faults, since>>

\* Files whose key is not in the temporary table of retained keys.
DeleteStaleFiles(d) ==
  /\ At(d, "stale")
  /\ work' = [work EXCEPT ![d].files[Current(d)] =
                [f \in DsFiles |-> IF Mentions(Wanted(d).files, f) THEN @[f] ELSE NoRow]]
  /\ w' = [w EXCEPT ![d].left = @ \ {Current(d)},
                    ![d].pc = IF w[d].left = {Current(d)} THEN "commit" ELSE "app"]
  /\ UNCHANGED <<base, reader, faults, since>>

Commit(d) ==
  /\ At(d, "commit")
  /\ base' = work[d]
  /\ w' = [w EXCEPT ![d] = Resting] /\ work' = [work EXCEPT ![d] = NoTables]
  /\ since' = IF reader.n = 0 THEN since ELSE since \cup {work[d]}
  /\ UNCHANGED <<reader, faults>>

\* Mutant of AfterFailure: what was written before the failure stays (no transaction).
AfterFailureKept(d) == IF At(d, "checked") \/ At(d, "header") THEN base ELSE work[d]

AfterFailure(d) == base

\* A statement fails, or the process dies: the transaction is rolled back.
Rollback(d) ==
  /\ ~At(d, "rest") /\ faults < MaxFaults /\ faults' = faults + 1
  /\ base' = AfterFailure(d)
  /\ w' = [w EXCEPT ![d] = Resting] /\ work' = [work EXCEPT ![d] = NoTables]
  /\ UNCHANGED <<reader, since>>

-----------------------------------------------------------------------------
(* load_day_snapshot: header, applications, sessions, files, each SELECT with *)
(* the tables of its moment.  Rows of unknown applications are dropped.       *)

SelectHeader ==
  /\ reader.n = 0 /\ base.rev > 0
  /\ reader' = [NotReading EXCEPT !.n = 1] /\ since' = {base}
  /\ UNCHANGED <<base, work, w, faults>>

SelectRows ==
  /\ reader.n \in 1..3
  /\ reader' = CASE reader.n = 1 -> [reader EXCEPT !.n = 2, !.apps = base.apps]
                 [] reader.n = 2 -> [reader EXCEPT !.n = 3, !.ses =
                      [x \in DsApps |-> IF reader.apps[x] = NoRow THEN <<>> ELSE base.ses[x]]]
                 [] reader.n = 3 -> [reader EXCEPT !.n = 4, !.files =
                      [x \in DsApps |-> IF reader.apps[x] = NoRow THEN NoTables.files[x] ELSE base.files[x]]]
  /\ UNCHANGED <<base, work, w, faults, since>>

Returned ==
  /\ reader.n = 4 /\ reader' = NotReading /\ since' = {}
  /\ UNCHANGED <<base, work, w, faults>>

DsNext ==
  \/ \E d \in Writers : \/ save(d) \/ already_exists(d) \/ migrate_legacy_json_files(d)
                        \/ UpsertHeader(d) \/ DeleteRemoved(d) \/ UpsertApp(d) \/ UpsertSessions(d)
                        \/ UpsertFiles(d) \/ DeleteStaleFiles(d) \/ Commit(d) \/ Rollback(d)
  \/ SelectHeader \/ SelectRows \/ Returned

DsSpec == DsInit /\ [][DsNext]_dsVars

-----------------------------------------------------------------------------
\* The sequence of files that load_day_snapshot makes of the rows (ORDER BY ordinal).
FilesOf(rows) ==
  LET there == {f \in DsFiles : rows[f] # NoRow} IN
  [i \in 1..Cardinality(there) |->
     LET f == CHOOSE f \in there : Cardinality({g \in there : rows[g].ordinal < rows[f].ordinal}) = i - 1
     IN [file |-> f, v |-> rows[f].v]]

\* The day as a reader of one moment sees it.
Loaded ==
  IF base.rev = 0 THEN NoSnapshot
  ELSE [x \in {y \in DsApps : base.apps[y] # NoRow} |->
          [total |-> base.apps[x], ses |-> base.ses[x], files |-> FilesOf(base.files[x])]]

Day == INSTANCE DaySnapshot WITH snapshot <- Loaded

\* The tables implement a day that is replaced in one step: however the upserts
\* meet the rows of the previous snapshot, and wherever a save is cut off, a reader
\* of one moment sees exactly the last snapshot whose save was completed.
StoreImplementsDay == Day!SnapSpec

\* load_day_snapshot mixes the states of several moments, but whatever it returns
\* for an application was committed while it ran: nothing of a transaction that
\* was rolled back, no session of an application that it does not return.
ReadsAreCommitted ==
  reader.n = 4 =>
    \A x \in DsApps :
      /\ \E t \in since : reader.apps[x] = t.apps[x]
      /\ \E t \in since : reader.ses[x] \in {t.ses[x], <<>>}
      /\ \E t \in since : reader.files[x] \in {t.files[x], NoTables.files[x]}
      /\ reader.apps[x] = NoRow => reader.ses[x] = <<>> /\ reader.files[x] = NoTables.files[x]
=============================================================================
