------------------------------ MODULE SyncMerge ------------------------------
(***************************************************************************)
(* The dashboard database as LAN sync sees it, and what the daemon does to *)
(* it during one sync: build_delta_for_pull, merge_incoming_data,          *)
(* verify_merge_integrity and gc_tombstones (src/sync_common.rs,           *)
(* src/lan_server.rs), together with the SQL triggers that fire under      *)
(* them (dashboard/src-tauri/resources/sql/schema.sql and the migrations). *)
(*                                                                         *)
(* Rows are identified by the keys the merge uses to match them across     *)
(* machines: a project by name, an application by executable, a session    *)
(* by (application, start), a manual session by (start, title).  Integer   *)
(* ids are local to a machine; the merge translates every reference        *)
(* through the names, so a reference is modelled by the name.  The columns *)
(* that are only carried along are one value, "val".  Times are seconds,   *)
(* the resolution of every timestamp the code compares.                    *)
(***************************************************************************)
EXTENDS Integers, FiniteSets

CONSTANTS
  Device,      \* paired machines
  Projects,    \* project names
  Apps,        \* executable names
  Sessions,    \* (executable, start_time) keys
  Manuals,     \* (start_time, title) keys of manual sessions
  AppOf,       \* application of each session key
  Vals,        \* contents of the plain columns
  Pid,         \* Pid[d][p]: local project id of p on d; Pid[d][None]: sentinel 0
  None         \* SQL NULL, "no row", and the sentinel project 0

ASSUME NoneAssumption ==
  /\ None \notin Projects
  /\ None \notin [ts: Nat, val: Vals, excl: BOOLEAN, merged: Projects \cup {None}]
  /\ None \notin [ts: Nat, val: Vals, proj: Projects \cup {None}]
  /\ None \notin [ts: Nat, val: Vals, hidden: BOOLEAN,
                  proj: Projects \cup {None}, label: Projects \cup {None}]

ASSUME KeyAssumption ==
  /\ AppOf \in [Sessions -> Apps]
  /\ Pid \in [Device -> [Projects \cup {None} -> Nat]]

ProjectRef == Projects \cup {None}

ProjectRow == [ts: Nat, val: Vals, excl: BOOLEAN, merged: ProjectRef]
AppRow     == [ts: Nat, val: Vals, proj: ProjectRef]
SessionRow == [ts: Nat, val: Vals, hidden: BOOLEAN, proj: ProjectRef, label: ProjectRef]
ManualRow  == [ts: Nat, val: Vals, proj: ProjectRef]

\* A tombstone names a table and a sync_key.  The sync_key of a manual session
\* starts with the deleting machine's local project id ("qual"); it is 0 for
\* the other tables.
Tomb == [tab: {"projects", "applications", "sessions", "manual_sessions"},
         key: Projects \cup Apps \cup Sessions \cup Manuals,
         qual: Nat, at: Nat]

\* A row of sync_markers: device_id, peer_id, created_at; the hash is unique.
Marker == [hash: Nat, at: Nat, dev: Device, peer: Device]

Db == [projects: [Projects -> ProjectRow \cup {None}],
       blacklist: SUBSET Projects,
       apps: [Apps -> AppRow \cup {None}],
       sessions: [Sessions -> SessionRow \cup {None}],
       manuals: [Manuals -> ManualRow \cup {None}],
       tombs: SUBSET Tomb,
       markers: SUBSET Marker]

\* What /lan/pull answers and /lan/upload-db carries.
Payload == [projects: [Projects -> ProjectRow \cup {None}],
            apps: [Apps -> AppRow \cup {None}],
            sessions: [Sessions -> SessionRow \cup {None}],
            manuals: [Manuals -> ManualRow \cup {None}],
            tombs: SUBSET Tomb]

-----------------------------------------------------------------------------
(***************************************************************************)
(* Export: projects and applications always whole, sessions, manual        *)
(* sessions and tombstones from "since" on (inclusive).  A full snapshot   *)
(* is the export since the epoch.                                          *)
(***************************************************************************)
\* Mutant of Since: rows of the marker's own second are left out.
SinceExclusive(rows, K, since) ==
  [k \in K |-> IF rows[k] # None /\ rows[k].ts > since THEN rows[k] ELSE None]

Since(rows, K, since) ==
  [k \in K |-> IF rows[k] # None /\ rows[k].ts >= since THEN rows[k] ELSE None]

\* Mutant of build_delta_for_pull: a delta without the deletions.
delta_without_tombstones(db, since) ==
  [projects |-> db.projects, apps |-> db.apps,
   sessions |-> Since(db.sessions, Sessions, since),
   manuals  |-> Since(db.manuals, Manuals, since), tombs |-> {}]

build_delta_for_pull(db, since) ==
  [projects |-> db.projects, apps |-> db.apps,
   sessions |-> Since(db.sessions, Sessions, since),
   manuals  |-> Since(db.manuals, Manuals, since),
   tombs    |-> {t \in db.tombs : t.at >= since}]

build_full_export(db) == build_delta_for_pull(db, 0)

-----------------------------------------------------------------------------
(***************************************************************************)
(* Tombstones first.  They are replayed in the order of deleted_at; one is *)
(* ignored when any tombstone with the same table and sync_key is already  *)
(* recorded, so of several with the same key only the oldest counts.       *)
(* Rows written in one transaction carry the same second and are replayed  *)
(* in the order they were written: sessions and manual sessions before     *)
(* their application or project.                                           *)
(*                                                                         *)
(* Deleting a project clears the references to it, and the updated_at      *)
(* triggers then stamp each of those rows with the time of the merge: a    *)
(* tombstone that is replayed later compares with that new stamp (TsAt).   *)
(***************************************************************************)
SameRecord(t, u) == t.tab = u.tab /\ t.key = u.key /\ t.qual = u.qual

Fresh(db, in) ==
  {t \in in.tombs : /\ \A u \in db.tombs : ~SameRecord(t, u)
                    /\ \A u \in in.tombs : SameRecord(t, u) => t.at <= u.at}

DeletesProject(db, t, p) ==
  /\ t.tab = "projects" /\ t.key = p
  /\ db.projects[p] # None /\ db.projects[p].ts <= t.at

DeletedProjects(db, F) == {p \in Projects : \E t \in F : DeletesProject(db, t, p)}

\* Mutant of TsAt: the updated_at triggers forgotten.
TsAtUnstamped(db, F, row, at, now) == row.ts

\* updated_at of a row when the tombstone with deleted_at = at is replayed
TsAt(db, F, row, at, now) ==
  IF \E t \in F : row.proj # None /\ DeletesProject(db, t, row.proj) /\ t.at < at
  THEN now ELSE row.ts

DeletesSession(db, F, t, s, now) ==
  /\ t.tab = "sessions" /\ t.key = s
  /\ TsAt(db, F, db.sessions[s], t.at, now) <= t.at

DeletesManual(db, F, t, m, now) ==
  /\ t.tab = "manual_sessions" /\ t.key = m
  /\ TsAt(db, F, db.manuals[m], t.at, now) <= t.at

\* An application's tombstone is spared when the application, or any session
\* of it that is still there, is newer than the deletion.
DeletesApp(db, F, t, a, now) ==
  /\ t.tab = "applications" /\ t.key = a
  /\ TsAt(db, F, db.apps[a], t.at, now) <= t.at
  /\ \A s \in Sessions :
       (AppOf[s] = a /\ db.sessions[s] # None) =>
         \/ \E u \in F : u.at <= t.at /\ DeletesSession(db, F, u, s, now)
         \/ TsAt(db, F, db.sessions[s], t.at, now) <= t.at

DeletedApps(db, F, now) ==
  {a \in Apps : db.apps[a] # None /\ \E t \in F : DeletesApp(db, F, t, a, now)}

DeletedSessions(db, F, now) ==
  {s \in Sessions : db.sessions[s] # None /\
      (AppOf[s] \in DeletedApps(db, F, now) \/ \E t \in F : DeletesSession(db, F, t, s, now))}

DeletedManuals(db, F, now) ==
  {m \in Manuals : db.manuals[m] # None /\ \E t \in F : DeletesManual(db, F, t, m, now)}

\* UPDATE ... SET project_id = p: the updated_at trigger stamps the row.
Point(row, p, now) == [row EXCEPT !.proj = p, !.ts = now]

\* The row after its project is gone: reference cleared, stamped by the trigger.
\* A session keeps its project_name label.
Detach(rows, k, gone, now) ==
  IF rows[k] # None /\ rows[k].proj \in gone
  THEN Point(rows[k], None, now) ELSE rows[k]

apply_tombstones(db, in, now) ==
  LET F    == Fresh(db, in)
      gone == DeletedProjects(db, F)
      dA   == DeletedApps(db, F, now)
      dS   == DeletedSessions(db, F, now)
      dM   == DeletedManuals(db, F, now)
  IN [db EXCEPT
        !.projects  = [p \in Projects |-> IF p \in gone THEN None ELSE db.projects[p]],
        !.blacklist = {p \in @ : ~(p \in gone /\ db.projects[p].excl)},
        !.apps      = [a \in Apps |-> IF a \in dA THEN None ELSE Detach(db.apps, a, gone, now)],
        !.sessions  = [s \in Sessions |->
                         IF s \in dS THEN None ELSE Detach(db.sessions, s, gone, now)],
        !.manuals   = [m \in Manuals |->
                         IF m \in dM THEN None ELSE Detach(db.manuals, m, gone, now)],
        !.tombs     = @ \cup F]

-----------------------------------------------------------------------------
(***************************************************************************)
(* Then the rows, table by table, newest updated_at wins and the local row *)
(* wins a tie.  A row is skipped when a recorded tombstone is at least as  *)
(* new as it.                                                              *)
(***************************************************************************)
local_tombstone_covers(db, tab, key, ts) ==
  \E t \in db.tombs : t.tab = tab /\ t.key = key /\ t.at >= ts

\* Mutant of Newer: the incoming row always wins.
IncomingWins(local, remote) == TRUE

Newer(local, remote) == local = None \/ remote.ts > local.ts

\* Mutant of Takes: recorded deletions are not consulted.
TakesUncovered(db, tab, k, local, remote) == remote # None /\ Newer(local, remote)

Takes(db, tab, k, local, remote) ==
  /\ remote # None
  /\ ~local_tombstone_covers(db, tab, k, remote.ts)
  /\ Newer(local, remote)

\* An accepted active project is taken off the blacklist first, so that the
\* BEFORE triggers do not abort the merge; an excluded one is put on it.
merge_projects(db, in) ==
  LET taken == {p \in Projects :
                  Takes(db, "projects", p, db.projects[p], in.projects[p])}
  IN [db EXCEPT
        !.projects  = [p \in Projects |-> IF p \in taken THEN in.projects[p] ELSE db.projects[p]],
        !.blacklist = (@ \ {p \in taken : ~in.projects[p].excl})
                        \cup {p \in taken : in.projects[p].excl}]

\* Mutant of Resolve: the local project is not looked up.
ResolveInPayload(db, in, p) == IF p # None /\ in.projects[p] # None THEN p ELSE None

\* remote project id -> name (from the payload) -> local id
Resolve(db, in, p) ==
  IF p # None /\ in.projects[p] # None /\ db.projects[p] # None THEN p ELSE None

Coalesce(x, y) == IF x # None THEN x ELSE y

LocalProj(row) == IF row = None THEN None ELSE row.proj

merge_applications(db, in) ==
  [db EXCEPT !.apps = [a \in Apps |->
     IF Takes(db, "applications", a, db.apps[a], in.apps[a])
     THEN [in.apps[a] EXCEPT
             !.proj = Coalesce(Resolve(db, in, @), LocalProj(db.apps[a]))]
     ELSE db.apps[a]]]

\* project_name: the peer's label, else the name of the peer's project, else the
\* local label; the name trigger overrides it when project_id changes.
SessionLabel(in, local, remote, proj) ==
  LET peer == Coalesce(remote.label,
                       IF remote.proj # None /\ in.projects[remote.proj] # None
                       THEN remote.proj ELSE None)
  IN IF local = None THEN Coalesce(peer, proj)
     ELSE IF proj # None /\ proj # local.proj THEN proj
     ELSE Coalesce(peer, local.label)

merge_sessions(db, in) ==
  [db EXCEPT !.sessions = [s \in Sessions |->
     LET local  == db.sessions[s]
         remote == in.sessions[s]
         proj   == Coalesce(Resolve(db, in, remote.proj), LocalProj(local))
     IN IF /\ Takes(db, "sessions", s, local, remote)
           /\ in.apps[AppOf[s]] # None /\ db.apps[AppOf[s]] # None
        THEN [remote EXCEPT !.proj = proj,
                            !.label = SessionLabel(in, local, remote, proj)]
        ELSE local]]

\* A manual session takes the peer's project or none at all.  When that sets or
\* changes project_id, the project_name trigger updates the row and the
\* updated_at trigger then stamps it with the time of the merge.
merge_manual_sessions(db, in, now) ==
  [db EXCEPT !.manuals = [m \in Manuals |->
     LET local  == db.manuals[m]
         remote == in.manuals[m]
         proj   == Resolve(db, in, remote.proj)
     IN IF Takes(db, "manual_sessions", m, local, remote)
        THEN [remote EXCEPT
                !.proj = proj,
                !.ts   = IF proj # None /\ proj # LocalProj(local) THEN now ELSE @]
        ELSE local]]

\* One transaction: committed whole or rolled back.
merge_incoming_data(db, in, now) ==
  LET d1 == apply_tombstones(db, in, now)
      d2 == merge_projects(d1, in)
      d3 == merge_applications(d2, in)
      d4 == merge_sessions(d3, in)
  IN merge_manual_sessions(d4, in, now)

-----------------------------------------------------------------------------
(***************************************************************************)
(* verify_merge_integrity: re-attach sessions by label, clear references   *)
(* to missing projects, clear merge markers whose parent is missing, drop  *)
(* sessions whose application is missing.  Every UPDATE stamps its rows.   *)
(***************************************************************************)
Missing(db, p) == p # None /\ db.projects[p] = None

ClearMissing(db, rows, k, now) ==
  IF rows[k] # None /\ Missing(db, rows[k].proj)
  THEN Point(rows[k], None, now) ELSE rows[k]

Reattach(db, row, now) ==
  IF /\ row.label # None /\ db.projects[row.label] # None
     /\ row.proj = None \/ db.projects[row.proj] = None
  THEN Point(row, row.label, now) ELSE row

verify_merge_integrity(db, now) ==
  LET re == [s \in Sessions |-> IF db.sessions[s] = None THEN None
                                ELSE Reattach(db, db.sessions[s], now)]
  IN [db EXCEPT
        !.sessions = [s \in Sessions |-> IF db.apps[AppOf[s]] = None THEN None
                                         ELSE ClearMissing(db, re, s, now)],
        !.manuals  = [m \in Manuals |-> ClearMissing(db, db.manuals, m, now)],
        !.apps     = [a \in Apps |-> ClearMissing(db, db.apps, a, now)],
        !.projects = [p \in Projects |->
                        IF db.projects[p] # None /\ Missing(db, db.projects[p].merged)
                        THEN [db.projects[p] EXCEPT !.merged = None, !.ts = now]
                        ELSE db.projects[p]]]

-----------------------------------------------------------------------------
(***************************************************************************)
(* Tombstone garbage collection: the cutoff is the oldest "last sync" over *)
(* the paired peers, none while a paired peer has no marker yet.  (Without *)
(* any paired peer the code collects by age; the machines here are always  *)
(* paired.)                                                                *)
(***************************************************************************)
MarkersWith(db, peer) == {m \in db.markers : m.dev = peer \/ m.peer = peer}

\* t lies before MAX(created_at) of the markers with every peer
BeforeCutoff(db, peers, at) ==
  \A q \in peers : \E m \in MarkersWith(db, q) : at < m.at

gc_tombstones(db, peers) ==
  [db EXCEPT !.tombs = {t \in @ : ~BeforeCutoff(db, peers, t.at)}]

\* The row of sync_markers with the newest created_at.  The two markers of one
\* sync may share a second; a machine that knows one of them knows the other.
LatestMarker(db) == CHOOSE m \in db.markers : \A n \in db.markers : m.at >= n.at

Known(db, hash) == \E m \in db.markers : m.hash = hash

insert_sync_marker_db(db, hash, at, dev, peer) ==
  [db EXCEPT !.markers = @ \cup {[hash |-> hash, at |-> at, dev |-> dev, peer |-> peer]}]

-----------------------------------------------------------------------------
(***************************************************************************)
(* What a database must satisfy whatever is merged into it.                *)
(***************************************************************************)

\* The daemon's connection runs with foreign_keys = OFF and keeps the references
\* by hand: no row refers to a project or an application that is not there.
ProjectRefsOK(db) ==
  /\ \A a \in Apps : db.apps[a] # None => ~Missing(db, db.apps[a].proj)
  /\ \A s \in Sessions : db.sessions[s] # None => ~Missing(db, db.sessions[s].proj)
  /\ \A m \in Manuals : db.manuals[m] # None => ~Missing(db, db.manuals[m].proj)

AppRefsOK(db) ==
  \A s \in Sessions : db.sessions[s] # None => db.apps[AppOf[s]] # None

\* project_name_blacklist holds exactly the names of the excluded projects.
BlacklistOK(db) ==
  db.blacklist = {p \in Projects : db.projects[p] # None /\ db.projects[p].excl}

DbOK(db) == ProjectRefsOK(db) /\ AppRefsOK(db) /\ BlacklistOK(db)
=============================================================================
