---------------------------- MODULE DashboardOps ----------------------------
(***************************************************************************)
(* What the dashboard's commands do to the synchronised tables             *)
(* (dashboard/src-tauri/src/commands), with the triggers of schema.sql and *)
(* the tombstone triggers: every UPDATE of a watched column stamps its row *)
(* with the current second, every DELETE leaves a tombstone.  The          *)
(* dashboard's connection runs with foreign_keys = ON.  Each command is    *)
(* one transaction; CanXxx is its precondition (an Err in the code).       *)
(***************************************************************************)
EXTENDS SyncMerge

Active(db, p) == p # None /\ db.projects[p] # None /\ ~db.projects[p].excl

Children(db, p) == {q \in Projects : db.projects[q] # None /\ db.projects[q].merged = p}

Tombstone(tab, key, qual, now) == [tab |-> tab, key |-> key, qual |-> qual, at |-> now]

ManualTombs(db, d, M, now) ==
  {Tombstone("manual_sessions", m, Pid[d][db.manuals[m].proj], now) : m \in M}

SessionTombs(S, now) == {Tombstone("sessions", s, 0, now) : s \in S}

Repoint(rows, k, p, q, now) ==
  IF rows[k] # None /\ rows[k].proj = p
  THEN Point(rows[k], q, now) ELSE rows[k]

-----------------------------------------------------------------------------
(* commands/projects.rs *)

CanCreateProject(db, p) == p \notin db.blacklist /\ db.projects[p] = None

create_project(db, p, v, now) ==
  [db EXCEPT !.projects[p] = [ts |-> now, val |-> v, excl |-> FALSE, merged |-> None]]

update_project(db, p, v, now) ==
  [db EXCEPT !.projects[p] = [@ EXCEPT !.val = v, !.ts = now]]

exclude_project(db, p, now) ==
  [db EXCEPT !.apps = [a \in Apps |-> Repoint(db.apps, a, p, None, now)],
             !.projects[p] = [@ EXCEPT !.excl = TRUE, !.ts = now],
             !.blacklist = @ \cup {p}]

CanRestoreProject(db, p) == db.projects[p] # None /\ db.projects[p].merged = None

restore_project(db, p, now) ==
  [db EXCEPT !.blacklist = @ \ {p},
             !.projects[p] = [@ EXCEPT !.excl = FALSE, !.ts = now]]

CanDeleteProject(db, p) == db.projects[p] # None /\ Children(db, p) = {}

\* Manual sessions go with their project (ON DELETE CASCADE).
delete_project(db, d, p, now) ==
  LET M == {m \in Manuals : db.manuals[m] # None /\ db.manuals[m].proj = p}
  IN [db EXCEPT
        !.apps      = [a \in Apps |-> Repoint(db.apps, a, p, None, now)],
        !.sessions  = [s \in Sessions |-> Repoint(db.sessions, s, p, None, now)],
        !.manuals   = [m \in Manuals |-> IF m \in M THEN None ELSE db.manuals[m]],
        !.projects[p] = None,
        !.blacklist = IF db.projects[p].excl THEN @ \ {p} ELSE @,
        !.tombs     = @ \cup ManualTombs(db, d, M, now)
                        \cup {Tombstone("projects", p, 0, now)}]

CanMergeProject(db, p, q) ==
  /\ p # q /\ Active(db, q) /\ db.projects[q].merged = None
  /\ db.projects[p] # None /\ db.projects[p].merged = None

\* p becomes a child of q, and so do the children of p.
merge_project(db, p, q, now) ==
  [db EXCEPT
     !.projects  = [r \in Projects |->
                      IF r = p THEN [db.projects[p] EXCEPT !.merged = q, !.excl = TRUE, !.ts = now]
                      ELSE IF r \in Children(db, p)
                           THEN [db.projects[r] EXCEPT !.merged = q, !.ts = now]
                           ELSE db.projects[r]],
     !.apps      = [a \in Apps |-> Repoint(db.apps, a, p, q, now)],
     !.blacklist = @ \cup {p}]

CanUnmergeProject(db, p) == db.projects[p] # None /\ db.projects[p].merged # None

unmerge_project(db, p, now) ==
  [db EXCEPT !.blacklist = @ \ {p},
             !.projects[p] = [@ EXCEPT !.merged = None, !.excl = FALSE, !.ts = now]]

assign_app_to_project(db, a, p, now) ==
  [db EXCEPT !.apps[a] = Point(@, p, now)]

-----------------------------------------------------------------------------
(* commands/sessions/mutations.rs, commands/import.rs, commands/settings.rs *)

\* Clearing the project leaves the label; the name trigger sets it otherwise.
assign_session_to_project(db, s, p, now) ==
  [db EXCEPT !.sessions[s] =
     [@ EXCEPT !.proj = p, !.ts = now,
               !.label = IF p # None /\ p # db.sessions[s].proj THEN p
                         ELSE db.sessions[s].label]]

update_session(db, s, v, now) ==
  [db EXCEPT !.sessions[s] = [@ EXCEPT !.val = v, !.ts = now]]

\* "Deleting" one session hides it; is_hidden is not a column the updated_at
\* trigger watches.
delete_session(db, s) == [db EXCEPT !.sessions[s].hidden = TRUE]

\* Import of the tracker's daily data: creates what is missing; a session that
\* is already there is stamped even when the import changes nothing in it.
upsert_daily_data(db, s, v, now) ==
  LET a   == AppOf[s]
      app == IF db.apps[a] = None THEN [ts |-> now, val |-> v, proj |-> None] ELSE db.apps[a]
  IN [db EXCEPT
        !.apps[a] = app,
        !.sessions[s] = IF @ = None
                        THEN [ts |-> now, val |-> v, hidden |-> FALSE,
                              proj |-> app.proj, label |-> app.proj]
                        ELSE [@ EXCEPT !.ts = now]]

rename_application(db, a, v, now) ==
  [db EXCEPT !.apps[a] = [@ EXCEPT !.val = v, !.ts = now]]

SessionsOf(db, a) == {s \in Sessions : AppOf[s] = a /\ db.sessions[s] # None}

reset_app_time(db, a, now) ==
  [db EXCEPT
     !.sessions = [s \in Sessions |-> IF AppOf[s] = a THEN None ELSE db.sessions[s]],
     !.tombs    = @ \cup SessionTombs(SessionsOf(db, a), now)]

delete_app_and_data(db, a, now) ==
  [reset_app_time(db, a, now) EXCEPT
     !.apps[a] = None,
     !.tombs   = @ \cup {Tombstone("applications", a, 0, now)}]

-----------------------------------------------------------------------------
(* commands/manual_sessions.rs *)

create_manual_session(db, m, p, v, now) ==
  [db EXCEPT !.manuals[m] = [ts |-> now, val |-> v, proj |-> p]]

\* A new start or title gives the row the key n; the old key leaves no tombstone.
update_manual_session(db, m, n, p, v, now) ==
  [create_manual_session(db, n, p, v, now) EXCEPT !.manuals[m] = IF m = n THEN @ ELSE None]

delete_manual_session(db, d, m, now) ==
  [db EXCEPT !.manuals[m] = None,
             !.tombs = @ \cup ManualTombs(db, d, {m}, now)]
=============================================================================
