---------------------------- MODULE LanSyncProofs ----------------------------
(***************************************************************************)
(* Spec => []TypeOK, Spec => []RefIntegrity and Spec => ImportedOnce, for  *)
(* any machines, rows, bounds and starting databases.  The argument: every *)
(* operation on a database keeps DbOK (SyncMergeProofs for the merge; the  *)
(* first part here for the commands of the dashboard), a backup is a copy  *)
(* of a database that had it, and a marker is never newer than the clock,  *)
(* so that the newest one exists.  The last part follows the hashes: no    *)
(* database, backup or answer holds one that was not made yet, and the     *)
(* slave does not know that of an export that waits for it.                *)
(***************************************************************************)
EXTENDS LanSync, SyncMergeProofs

\* A command, issued when its precondition holds, keeps the shape of the database,
\* DbOK and the history of syncs.
Keeps(e, new) == new \in Db /\ (DbOK(e) => DbOK(new)) /\ new.markers = e.markers

-----------------------------------------------------------------------------
(* Changes of one table. *)

\* Project rows are rewritten, none appears or disappears.
LEMMA ProjectsRewritten ==
  ASSUME NEW e \in Db, NEW P \in [Projects -> ProjectRow \cup {None}],
         NEW B \in SUBSET Projects,
         \A p \in Projects : e.projects[p] # None => P[p] # None,
         BlacklistOK(e) => B = {p \in Projects : P[p] # None /\ P[p].excl}
  PROVE  Keeps(e, [e EXCEPT !.projects = P, !.blacklist = B])
<1> DEFINE new == [e EXCEPT !.projects = P, !.blacklist = B]
<1>1. /\ new \in Db /\ new.markers = e.markers
      /\ new.projects = P /\ new.blacklist = B /\ new.apps = e.apps
      /\ new.sessions = e.sessions /\ new.manuals = e.manuals
  BY DEF Db
<1> HIDE DEF new
<1>2. ASSUME DbOK(e) PROVE DbOK(new)
  <2>1. \A p \in ProjectRef : ~Missing(e, p) => ~Missing(new, p)
    BY <1>1 DEF Missing, ProjectRef
  <2>2. /\ \A a \in Apps : e.apps[a] # None => e.apps[a].proj \in ProjectRef
        /\ \A s \in Sessions : e.sessions[s] # None => e.sessions[s].proj \in ProjectRef
        /\ \A m \in Manuals : e.manuals[m] # None => e.manuals[m].proj \in ProjectRef
    BY DbFields DEF AppRow, SessionRow, ManualRow
  <2>3. ProjectRefsOK(new)
    BY <1>1, <1>2, <2>1, <2>2 DEF DbOK, ProjectRefsOK
  <2>4. AppRefsOK(new)
    BY <1>1, <1>2 DEF DbOK, AppRefsOK
  <2>5. BlacklistOK(new)
    BY <1>1, <1>2 DEF DbOK, BlacklistOK
  <2> QED BY <2>3, <2>4, <2>5 DEF DbOK
<1> QED BY <1>1, <1>2 DEF Keeps, new

\* Rows of applications, sessions and manual sessions are rewritten or dropped.
\* Every row that stays or appears refers to projects and applications that are
\* there.
LEMMA RowsRewritten ==
  ASSUME NEW e \in Db,
         NEW A \in [Apps -> AppRow \cup {None}],
         NEW S \in [Sessions -> SessionRow \cup {None}],
         NEW M \in [Manuals -> ManualRow \cup {None}],
         NEW T \in SUBSET Tomb,
         DbOK(e) =>
           /\ \A a \in Apps : A[a] # None => ~Missing(e, A[a].proj)
           /\ \A s \in Sessions : S[s] # None => ~Missing(e, S[s].proj) /\ A[AppOf[s]] # None
           /\ \A m \in Manuals : M[m] # None => ~Missing(e, M[m].proj)
  PROVE  Keeps(e, [e EXCEPT !.apps = A, !.sessions = S, !.manuals = M, !.tombs = T])
<1> DEFINE new == [e EXCEPT !.apps = A, !.sessions = S, !.manuals = M, !.tombs = T]
<1>1. /\ new \in Db /\ new.markers = e.markers
      /\ new.projects = e.projects /\ new.blacklist = e.blacklist /\ new.apps = A
      /\ new.sessions = S /\ new.manuals = M
  BY DEF Db
<1> HIDE DEF new
<1>2. ASSUME DbOK(e) PROVE DbOK(new)
  BY <1>1, <1>2 DEF DbOK, ProjectRefsOK, AppRefsOK, BlacklistOK, Missing
<1> QED BY <1>1, <1>2 DEF Keeps, new

\* The references of the rows that a command leaves alone.
LEMMA RefsHold ==
  ASSUME NEW e \in Db, DbOK(e)
  PROVE  /\ \A a \in Apps : e.apps[a] # None => ~Missing(e, e.apps[a].proj)
         /\ \A s \in Sessions : e.sessions[s] # None =>
              ~Missing(e, e.sessions[s].proj) /\ e.apps[AppOf[s]] # None
         /\ \A m \in Manuals : e.manuals[m] # None => ~Missing(e, e.manuals[m].proj)
BY DEF DbOK, ProjectRefsOK, AppRefsOK

\* Repoint changes the project and the stamp of the rows of p, and nothing else.
LEMMA RepointFacts ==
  ASSUME NEW R \in RowSet, NEW rows, NEW k, rows[k] \in R \cup {None},
         NEW p, NEW q \in ProjectRef, NEW time \in Nat
  PROVE  /\ Repoint(rows, k, p, q, time) \in R \cup {None}
         /\ Repoint(rows, k, p, q, time) = None <=> rows[k] = None
         /\ rows[k] # None =>
              Repoint(rows, k, p, q, time).proj = IF rows[k].proj = p THEN q ELSE rows[k].proj
<1>1. CASE rows[k] # None /\ rows[k].proj = p
  <2>1. rows[k] \in R /\ Repoint(rows, k, p, q, time) = Point(rows[k], q, time)
    BY <1>1 DEF Repoint
  <2> QED BY <1>1, <2>1, RowFacts
<1>2. CASE ~(rows[k] # None /\ rows[k].proj = p)
  BY <1>2, RowFacts DEF Repoint
<1> QED BY <1>1, <1>2

\* A table of applications or manual sessions with the rows of p repointed is a table.
LEMMA RepointAll ==
  ASSUME NEW e \in Db, NEW p \in Projects, NEW q \in ProjectRef, NEW time \in Nat
  PROVE  /\ \A a \in Apps :
              LET r == Repoint(e.apps, a, p, q, time)
              IN /\ r \in AppRow \cup {None} /\ (r = None <=> e.apps[a] = None)
                 /\ r # None => r.proj = IF e.apps[a].proj = p THEN q ELSE e.apps[a].proj
         /\ \A s \in Sessions :
              LET r == Repoint(e.sessions, s, p, q, time)
              IN /\ r \in SessionRow \cup {None} /\ (r = None <=> e.sessions[s] = None)
                 /\ r # None => r.proj = IF e.sessions[s].proj = p THEN q
                                         ELSE e.sessions[s].proj
<1>1. ASSUME NEW a \in Apps
      PROVE  LET r == Repoint(e.apps, a, p, q, time)
             IN /\ r \in AppRow \cup {None} /\ (r = None <=> e.apps[a] = None)
                /\ r # None => r.proj = IF e.apps[a].proj = p THEN q ELSE e.apps[a].proj
  <2>1. e.apps[a] \in AppRow \cup {None} /\ AppRow \in RowSet
    BY DbFields DEF RowSet
  <2> QED BY <2>1, RepointFacts
<1>2. ASSUME NEW s \in Sessions
      PROVE  LET r == Repoint(e.sessions, s, p, q, time)
             IN /\ r \in SessionRow \cup {None} /\ (r = None <=> e.sessions[s] = None)
                /\ r # None => r.proj = IF e.sessions[s].proj = p THEN q ELSE e.sessions[s].proj
  <2>1. e.sessions[s] \in SessionRow \cup {None} /\ SessionRow \in RowSet
    BY DbFields DEF RowSet
  <2> QED BY <2>1, RepointFacts
<1> QED BY <1>1, <1>2

-----------------------------------------------------------------------------
(* commands/projects.rs *)

\* create_project keeps the database sound.
LEMMA CreateProjectKeeps ==
  ASSUME NEW e \in Db, NEW p \in Projects, NEW v \in Vals, NEW time \in Nat,
         CanCreateProject(e, p)
  PROVE  Keeps(e, create_project(e, p, v, time))
<1> DEFINE row == [ts |-> time, val |-> v, excl |-> FALSE, merged |-> None]
           P == [e.projects EXCEPT ![p] = row]
<1>1. create_project(e, p, v, time) = [e EXCEPT !.projects = P, !.blacklist = e.blacklist]
  BY DEF create_project, Db
<1>2. row \in ProjectRow /\ row # None /\ row.excl = FALSE
  <2>1. row \in ProjectRow /\ row.excl = FALSE
    BY DEF ProjectRow, ProjectRef
  <2> HIDE DEF row
  <2> QED BY <2>1, RowsAreNotNone
<1> HIDE DEF row
<1>3. P \in [Projects -> ProjectRow \cup {None}]
      /\ \A q \in Projects : e.projects[q] # None => P[q] # None
  BY <1>2, DbFields
<1>4. BlacklistOK(e) => e.blacklist = {q \in Projects : P[q] # None /\ P[q].excl}
  BY <1>2, DbFields DEF BlacklistOK, CanCreateProject
<1> HIDE DEF P
<1>5. Keeps(e, [e EXCEPT !.projects = P, !.blacklist = e.blacklist])
  <2>1. e.blacklist \in SUBSET Projects
    BY DbFields
  <2> QED BY <1>3, <1>4, <2>1, ProjectsRewritten
<1> QED BY <1>1, <1>5

\* update_project, exclude's row, restore_project and unmerge_project rewrite one row.
LEMMA OneProjectRewritten ==
  ASSUME NEW e \in Db, NEW p \in Projects, e.projects[p] # None, NEW row \in ProjectRow,
         NEW B \in SUBSET Projects,
         B = IF row.excl THEN e.blacklist \cup {p} ELSE e.blacklist \ {p}
  PROVE  Keeps(e, [e EXCEPT !.projects = [e.projects EXCEPT ![p] = row], !.blacklist = B])
<1> DEFINE P == [e.projects EXCEPT ![p] = row]
<1>1. P \in [Projects -> ProjectRow \cup {None}]
      /\ \A q \in Projects : e.projects[q] # None => P[q] # None
  BY DbFields, RowsAreNotNone
<1>2. BlacklistOK(e) => B = {q \in Projects : P[q] # None /\ P[q].excl}
  BY DbFields, RowsAreNotNone DEF BlacklistOK
<1> QED BY <1>1, <1>2, ProjectsRewritten

\* update_project keeps the database sound.
LEMMA UpdateProjectKeeps ==
  ASSUME NEW e \in Db, NEW p \in Projects, NEW v \in Vals, NEW time \in Nat,
         e.projects[p] # None
  PROVE  Keeps(e, update_project(e, p, v, time))
<1> DEFINE row == [e.projects[p] EXCEPT !.val = v, !.ts = time]
           P == [e.projects EXCEPT ![p] = row]
<1>1. update_project(e, p, v, time) = [e EXCEPT !.projects = P, !.blacklist = e.blacklist]
  BY DEF update_project, Db
<1>2. row \in ProjectRow /\ row.excl = e.projects[p].excl /\ row # None
  <2>1. e.projects[p] \in ProjectRow
    BY DbFields
  <2>2. row \in ProjectRow /\ row.excl = e.projects[p].excl
    BY <2>1 DEF ProjectRow
  <2> HIDE DEF row
  <2> QED BY <2>2, RowsAreNotNone
<1> HIDE DEF row
<1>3. P \in [Projects -> ProjectRow \cup {None}]
      /\ \A q \in Projects : e.projects[q] # None => P[q] # None
  BY <1>2, DbFields
<1>4. BlacklistOK(e) => e.blacklist = {q \in Projects : P[q] # None /\ P[q].excl}
  BY <1>2, DbFields DEF BlacklistOK
<1> HIDE DEF P
<1>5. Keeps(e, [e EXCEPT !.projects = P, !.blacklist = e.blacklist])
  <2>1. e.blacklist \in SUBSET Projects
    BY DbFields
  <2> QED BY <1>3, <1>4, <2>1, ProjectsRewritten
<1> QED BY <1>1, <1>5

\* restore_project keeps the database sound: the row and the blacklist change together.
LEMMA RestoreProjectKeeps ==
  ASSUME NEW e \in Db, NEW p \in Projects, NEW time \in Nat, CanRestoreProject(e, p)
  PROVE  Keeps(e, restore_project(e, p, time))
<1> DEFINE row == [e.projects[p] EXCEPT !.excl = FALSE, !.ts = time]
           P == [e.projects EXCEPT ![p] = row]
<1>1. restore_project(e, p, time) = [e EXCEPT !.projects = P, !.blacklist = e.blacklist \ {p}]
  BY DEF restore_project, Db
<1>2. row \in ProjectRow /\ row.excl = FALSE
  <2>1. e.projects[p] \in ProjectRow
    BY DbFields DEF CanRestoreProject
  <2> QED BY <2>1 DEF ProjectRow, ProjectRef
<1>3. e.blacklist \ {p} \in SUBSET Projects
  BY DbFields
<1> HIDE DEF row
<1>4. Keeps(e, [e EXCEPT !.projects = P, !.blacklist = e.blacklist \ {p}])
  BY <1>2, <1>3, OneProjectRewritten DEF CanRestoreProject
<1> QED BY <1>1, <1>4

\* unmerge_project keeps the database sound.
LEMMA UnmergeProjectKeeps ==
  ASSUME NEW e \in Db, NEW p \in Projects, NEW time \in Nat, CanUnmergeProject(e, p)
  PROVE  Keeps(e, unmerge_project(e, p, time))
<1> DEFINE row == [e.projects[p] EXCEPT !.merged = None, !.excl = FALSE, !.ts = time]
           P == [e.projects EXCEPT ![p] = row]
<1>1. unmerge_project(e, p, time) = [e EXCEPT !.projects = P, !.blacklist = e.blacklist \ {p}]
  BY DEF unmerge_project, Db
<1>2. row \in ProjectRow /\ row.excl = FALSE
  <2>1. e.projects[p] \in ProjectRow
    BY DbFields DEF CanUnmergeProject
  <2> QED BY <2>1 DEF ProjectRow, ProjectRef
<1>3. e.blacklist \ {p} \in SUBSET Projects
  BY DbFields
<1> HIDE DEF row
<1>4. Keeps(e, [e EXCEPT !.projects = P, !.blacklist = e.blacklist \ {p}])
  BY <1>2, <1>3, OneProjectRewritten DEF CanUnmergeProject
<1> QED BY <1>1, <1>4

\* Two changes that keep a database sound keep it sound one after the other.
LEMMA KeepsTwice ==
  ASSUME NEW d1, NEW d2, NEW d3, Keeps(d1, d2), Keeps(d2, d3)
  PROVE  Keeps(d1, d3)
BY DEF Keeps

\* The applications of p are given to q, which is there or no project at all.
LEMMA AppsRepointed ==
  ASSUME NEW e \in Db, NEW p \in Projects, NEW q \in ProjectRef, ~Missing(e, q), NEW time \in Nat
  PROVE  Keeps(e, [e EXCEPT !.apps = [a \in Apps |-> Repoint(e.apps, a, p, q, time)]])
<1> DEFINE A == [a \in Apps |-> Repoint(e.apps, a, p, q, time)]
           new == [e EXCEPT !.apps = A]
<1>1. ASSUME NEW a \in Apps
      PROVE  /\ A[a] \in AppRow \cup {None} /\ (A[a] = None <=> e.apps[a] = None)
             /\ A[a] # None => A[a].proj = IF e.apps[a].proj = p THEN q ELSE e.apps[a].proj
  BY RepointAll
<1>2. A \in [Apps -> AppRow \cup {None}]
  BY <1>1
<1> HIDE DEF A
<1>3. /\ new \in Db /\ new.markers = e.markers
      /\ new.projects = e.projects /\ new.blacklist = e.blacklist /\ new.apps = A
      /\ new.sessions = e.sessions /\ new.manuals = e.manuals
  BY <1>2 DEF Db
<1> HIDE DEF new
<1>4. ASSUME DbOK(e) PROVE DbOK(new)
  <2>1. ProjectRefsOK(new)
    BY <1>1, <1>3, <1>4 DEF DbOK, ProjectRefsOK, Missing
  <2>2. AppRefsOK(new)
    BY <1>1, <1>3, <1>4, KeyAssumption DEF DbOK, AppRefsOK
  <2> QED BY <1>3, <1>4, <2>1, <2>2 DEF DbOK, BlacklistOK
<1> QED BY <1>3, <1>4 DEF Keeps, A, new

\* exclude_project keeps the database sound.
LEMMA ExcludeProjectKeeps ==
  ASSUME NEW e \in Db, NEW p \in Projects, NEW time \in Nat, e.projects[p] # None
  PROVE  Keeps(e, exclude_project(e, p, time))
<1> DEFINE A == [a \in Apps |-> Repoint(e.apps, a, p, None, time)]
           d1 == [e EXCEPT !.apps = A]
           row == [e.projects[p] EXCEPT !.excl = TRUE, !.ts = time]
           B == e.blacklist \cup {p}
<1>1. Keeps(e, d1)
  <2>1. None \in ProjectRef /\ ~Missing(e, None)
    BY DEF ProjectRef, Missing
  <2> QED BY <2>1, AppsRepointed
<1> HIDE DEF A
<1>2. d1 \in Db /\ d1.projects = e.projects /\ d1.blacklist = e.blacklist
  BY <1>1 DEF Keeps, Db
<1>3. exclude_project(e, p, time)
        = [d1 EXCEPT !.projects = [d1.projects EXCEPT ![p] = row], !.blacklist = B]
  BY DEF exclude_project, Db, A
<1>4. row \in ProjectRow /\ row.excl = TRUE
  <2>1. e.projects[p] \in ProjectRow
    BY DbFields
  <2> QED BY <2>1 DEF ProjectRow
<1>5. B \in SUBSET Projects /\ B = d1.blacklist \cup {p}
  BY <1>2, DbFields
<1> HIDE DEF d1, row, B
<1>6. Keeps(d1, [d1 EXCEPT !.projects = [d1.projects EXCEPT ![p] = row], !.blacklist = B])
  BY <1>2, <1>4, <1>5, OneProjectRewritten
<1> QED BY <1>1, <1>3, <1>6, KeepsTwice

\* merge_project keeps the database sound: the parent it points to is active.
LEMMA MergeProjectKeeps ==
  ASSUME NEW e \in Db, NEW p \in Projects, NEW q \in Projects, NEW time \in Nat,
         CanMergeProject(e, p, q)
  PROVE  Keeps(e, merge_project(e, p, q, time))
<1> DEFINE A == [a \in Apps |-> Repoint(e.apps, a, p, q, time)]
           d1 == [e EXCEPT !.apps = A]
           child(r) == [e.projects[r] EXCEPT !.merged = q, !.ts = time]
           row == [e.projects[p] EXCEPT !.merged = q, !.excl = TRUE, !.ts = time]
           P == [r \in Projects |-> IF r = p THEN row
                                    ELSE IF r \in Children(e, p) THEN child(r)
                                    ELSE e.projects[r]]
           B == e.blacklist \cup {p}
<1>1. Keeps(e, d1)
  <2>1. q \in ProjectRef /\ ~Missing(e, q)
    BY DEF ProjectRef, Missing, CanMergeProject, Active
  <2> QED BY <2>1, AppsRepointed
<1> HIDE DEF A
<1>2. d1 \in Db /\ d1.projects = e.projects /\ d1.blacklist = e.blacklist
  BY <1>1 DEF Keeps, Db
<1>3. merge_project(e, p, q, time) = [d1 EXCEPT !.projects = P, !.blacklist = B]
  BY DEF merge_project, Db, A
<1>4. \A r \in Projects : e.projects[r] # None =>
        /\ [e.projects[r] EXCEPT !.merged = q, !.ts = time] \in ProjectRow
        /\ [e.projects[r] EXCEPT !.merged = q, !.ts = time].excl = e.projects[r].excl
  <2> SUFFICES ASSUME NEW r \in Projects, e.projects[r] # None
               PROVE  /\ [e.projects[r] EXCEPT !.merged = q, !.ts = time] \in ProjectRow
                      /\ [e.projects[r] EXCEPT !.merged = q, !.ts = time].excl
                           = e.projects[r].excl
    OBVIOUS
  <2>1. e.projects[r] \in ProjectRow
    BY DbFields
  <2> QED BY <2>1 DEF ProjectRow, ProjectRef
<1>5. row \in ProjectRow /\ row.excl = TRUE
  <2>1. e.projects[p] \in ProjectRow
    BY DbFields DEF CanMergeProject
  <2> QED BY <2>1 DEF ProjectRow, ProjectRef
<1>6. \A r \in Projects : r \in Children(e, p) => e.projects[r] # None
  BY DEF Children
<1>7. ASSUME NEW r \in Projects
      PROVE  /\ P[r] \in ProjectRow \cup {None}
             /\ P[r] = None => e.projects[r] = None
             /\ e.projects[r] = None => P[r] = None \/ r = p
             /\ P[r] # None => P[r].excl = IF r = p THEN TRUE ELSE e.projects[r].excl
  <2> HIDE DEF row
  <2>1. CASE r = p
    BY <1>5, <2>1, RowsAreNotNone
  <2>2. CASE r # p /\ r \in Children(e, p)
    BY <1>4, <1>6, <2>2, RowsAreNotNone
  <2>3. CASE r # p /\ r \notin Children(e, p)
    BY <2>3, DbFields
  <2> QED BY <2>1, <2>2, <2>3
<1> HIDE DEF child, row
<1>8. P \in [Projects -> ProjectRow \cup {None}] /\ B \in SUBSET Projects
  BY <1>7, DbFields
<1>9. P[p] # None
  BY <1>5, RowsAreNotNone
<1> HIDE DEF P
<1>10. BlacklistOK(d1) => B = {r \in Projects : P[r] # None /\ P[r].excl}
  <2> HIDE DEF d1
  <2>1. ASSUME NEW r \in Projects
        PROVE  (r = p \/ (e.projects[r] # None /\ e.projects[r].excl))
                 <=> (P[r] # None /\ P[r].excl)
    BY <1>7, <1>9
  <2> QED BY <1>2, <2>1 DEF BlacklistOK
<1> HIDE DEF d1, B
<1>11. Keeps(d1, [d1 EXCEPT !.projects = P, !.blacklist = B])
  BY <1>2, <1>7, <1>8, <1>10, ProjectsRewritten
<1> QED BY <1>1, <1>3, <1>11, KeepsTwice

\* A tombstone written now is a tombstone.
LEMMA TombstonesTyped ==
  /\ \A p \in Projects, time \in Nat : Tombstone("projects", p, 0, time) \in Tomb
  /\ \A a \in Apps, time \in Nat : Tombstone("applications", a, 0, time) \in Tomb
  /\ \A S \in SUBSET Sessions, time \in Nat : SessionTombs(S, time) \in SUBSET Tomb
BY DEF Tombstone, SessionTombs, Tomb

\* The tombstones of manual sessions are tombstones.
LEMMA ManualTombsTyped ==
  ASSUME NEW e \in Db, NEW d \in Device, NEW M \in SUBSET Manuals, NEW time \in Nat,
         \A m \in M : e.manuals[m] # None
  PROVE  ManualTombs(e, d, M, time) \in SUBSET Tomb
<1> SUFFICES ASSUME NEW m \in M
             PROVE  Tombstone("manual_sessions", m, Pid[d][e.manuals[m].proj], time) \in Tomb
  BY DEF ManualTombs
<1>1. e.manuals[m] \in ManualRow
  BY DbFields
<1>2. e.manuals[m].proj \in Projects \cup {None}
  BY <1>1 DEF ManualRow, ProjectRef
<1>3. Pid[d][e.manuals[m].proj] \in Nat
  BY <1>2, KeyAssumption
<1> QED BY <1>3 DEF Tombstone, Tomb

\* Nothing refers to the deleted project afterwards.
LEMMA DeleteProjectKeeps ==
  ASSUME NEW e \in Db, NEW d \in Device, NEW p \in Projects, NEW time \in Nat,
         CanDeleteProject(e, p)
  PROVE  Keeps(e, delete_project(e, d, p, time))
<1> DEFINE X == {m \in Manuals : e.manuals[m] # None /\ e.manuals[m].proj = p}
           A == [a \in Apps |-> Repoint(e.apps, a, p, None, time)]
           S == [s \in Sessions |-> Repoint(e.sessions, s, p, None, time)]
           M == [m \in Manuals |-> IF m \in X THEN None ELSE e.manuals[m]]
           P == [e.projects EXCEPT ![p] = None]
           B == IF e.projects[p].excl THEN e.blacklist \ {p} ELSE e.blacklist
           T == e.tombs \cup ManualTombs(e, d, X, time) \cup {Tombstone("projects", p, 0, time)}
           new == delete_project(e, d, p, time)
<1>1. new = [e EXCEPT !.apps = A, !.sessions = S, !.manuals = M, !.projects = P,
                       !.blacklist = B, !.tombs = T]
  BY DEF delete_project
<1>2. None \in ProjectRef
  BY DEF ProjectRef
<1>3. ASSUME NEW a \in Apps
      PROVE  /\ A[a] \in AppRow \cup {None} /\ (A[a] = None <=> e.apps[a] = None)
             /\ A[a] # None => A[a].proj = IF e.apps[a].proj = p THEN None ELSE e.apps[a].proj
  BY <1>2, RepointAll
<1>4. ASSUME NEW s \in Sessions
      PROVE  /\ S[s] \in SessionRow \cup {None} /\ (S[s] = None <=> e.sessions[s] = None)
             /\ S[s] # None =>
                  S[s].proj = IF e.sessions[s].proj = p THEN None ELSE e.sessions[s].proj
  BY <1>2, RepointAll
<1>5. /\ A \in [Apps -> AppRow \cup {None}] /\ S \in [Sessions -> SessionRow \cup {None}]
      /\ M \in [Manuals -> ManualRow \cup {None}] /\ P \in [Projects -> ProjectRow \cup {None}]
  <2> HIDE DEF X
  <2> QED BY <1>3, <1>4, DbFields
<1>6. B \in SUBSET Projects
  BY DbFields
<1>7. T \in SUBSET Tomb
  <2>1. ManualTombs(e, d, X, time) \in SUBSET Tomb
    BY ManualTombsTyped
  <2> QED BY <2>1, DbFields, TombstonesTyped
<1>8. ASSUME NEW m \in Manuals, M[m] # None PROVE M[m] = e.manuals[m] /\ e.manuals[m].proj # p
  BY <1>8
<1> HIDE DEF A, S, M, T, B
<1>9. new \in Db
  <2> HIDE DEF P, new
  <2> QED BY <1>1, <1>5, <1>6, <1>7 DEF Db
<1>10. /\ new.projects = P /\ new.blacklist = B /\ new.apps = A
       /\ new.sessions = S /\ new.manuals = M /\ new.markers = e.markers
  <2> HIDE DEF P, new
  <2> QED BY <1>1 DEF Db
<1> HIDE DEF new
<1>11. ASSUME DbOK(e) PROVE DbOK(new)
  <2>1. \A q \in ProjectRef : q # p /\ ~Missing(e, q) => ~Missing(new, q)
    BY <1>10, DbFields DEF Missing, ProjectRef
  <2>2. ~Missing(new, None)
    BY DEF Missing
  <2>3. /\ \A a \in Apps : A[a] # None => A[a].proj \in ProjectRef
        /\ \A s \in Sessions : S[s] # None => S[s].proj \in ProjectRef
        /\ \A m \in Manuals : M[m] # None => M[m].proj \in ProjectRef
    BY <1>5 DEF AppRow, SessionRow, ManualRow
  <2>4. ASSUME NEW a \in Apps, A[a] # None PROVE ~Missing(new, A[a].proj)
    <3>1. ~Missing(e, e.apps[a].proj)
      BY <1>3, <1>11, <2>4, RefsHold
    <3> QED BY <1>3, <2>1, <2>2, <2>3, <2>4, <3>1
  <2>5. ASSUME NEW s \in Sessions, S[s] # None PROVE ~Missing(new, S[s].proj)
    <3>1. ~Missing(e, e.sessions[s].proj)
      BY <1>4, <1>11, <2>5, RefsHold
    <3> QED BY <1>4, <2>1, <2>2, <2>3, <2>5, <3>1
  <2>6. ASSUME NEW m \in Manuals, M[m] # None PROVE ~Missing(new, M[m].proj)
    <3>1. ~Missing(e, e.manuals[m].proj)
      BY <1>8, <1>11, <2>6, RefsHold
    <3> QED BY <1>8, <2>1, <2>3, <2>6, <3>1
  <2>7. AppRefsOK(new)
    BY <1>3, <1>4, <1>10, <1>11, KeyAssumption DEF DbOK, AppRefsOK
  <2>8. BlacklistOK(new)
    <3>1. B = {q \in Projects : P[q] # None /\ P[q].excl}
      BY <1>11, DbFields DEF DbOK, BlacklistOK, B, CanDeleteProject
    <3> QED BY <1>10, <3>1 DEF BlacklistOK
  <2> QED BY <1>10, <2>4, <2>5, <2>6, <2>7, <2>8 DEF DbOK, ProjectRefsOK
<1> QED BY <1>9, <1>10, <1>11 DEF Keeps, new

-----------------------------------------------------------------------------
(* One row. *)

\* One application rewritten, to a project that is there.
LEMMA OneAppRewritten ==
  ASSUME NEW e \in Db, NEW a \in Apps, NEW row \in AppRow,
         DbOK(e) => ~Missing(e, row.proj)
  PROVE  Keeps(e, [e EXCEPT !.apps = [e.apps EXCEPT ![a] = row]])
<1> DEFINE A == [e.apps EXCEPT ![a] = row]
           new == [e EXCEPT !.apps = A]
<1>1. A \in [Apps -> AppRow \cup {None}] /\ A[a] = row /\ row # None
      /\ \A b \in Apps : b # a => A[b] = e.apps[b]
  BY DbFields, RowsAreNotNone
<1> HIDE DEF A
<1>2. /\ new \in Db /\ new.markers = e.markers
      /\ new.projects = e.projects /\ new.blacklist = e.blacklist /\ new.apps = A
      /\ new.sessions = e.sessions /\ new.manuals = e.manuals
  BY <1>1 DEF Db
<1> HIDE DEF new
<1>3. ASSUME DbOK(e) PROVE DbOK(new)
  <2>1. ProjectRefsOK(new)
    BY <1>1, <1>2, <1>3 DEF DbOK, ProjectRefsOK, Missing
  <2>2. AppRefsOK(new)
    BY <1>1, <1>2, <1>3, KeyAssumption DEF DbOK, AppRefsOK
  <2> QED BY <1>2, <1>3, <2>1, <2>2 DEF DbOK, BlacklistOK
<1> QED BY <1>2, <1>3 DEF Keeps, A, new

\* One session rewritten, to a project that is there.
LEMMA OneSessionRewritten ==
  ASSUME NEW e \in Db, NEW s \in Sessions, NEW row \in SessionRow,
         DbOK(e) => ~Missing(e, row.proj) /\ e.apps[AppOf[s]] # None
  PROVE  Keeps(e, [e EXCEPT !.sessions = [e.sessions EXCEPT ![s] = row]])
<1> DEFINE S == [e.sessions EXCEPT ![s] = row]
           new == [e EXCEPT !.sessions = S]
<1>1. S \in [Sessions -> SessionRow \cup {None}] /\ S[s] = row
      /\ \A t \in Sessions : t # s => S[t] = e.sessions[t]
  BY DbFields
<1> HIDE DEF S
<1>2. /\ new \in Db /\ new.markers = e.markers
      /\ new.projects = e.projects /\ new.blacklist = e.blacklist /\ new.apps = e.apps
      /\ new.sessions = S /\ new.manuals = e.manuals
  BY <1>1 DEF Db
<1> HIDE DEF new
<1>3. ASSUME DbOK(e) PROVE DbOK(new)
  BY <1>1, <1>2, <1>3 DEF DbOK, ProjectRefsOK, AppRefsOK, BlacklistOK, Missing
<1> QED BY <1>2, <1>3 DEF Keeps, S, new

\* One manual session rewritten to a project that is there, or deleted.
LEMMA OneManualRewritten ==
  ASSUME NEW e \in Db, NEW m \in Manuals, NEW row \in ManualRow \cup {None},
         NEW T \in SUBSET Tomb,
         row # None => ~Missing(e, row.proj)
  PROVE  Keeps(e, [e EXCEPT !.manuals = [e.manuals EXCEPT ![m] = row], !.tombs = T])
<1> DEFINE M == [e.manuals EXCEPT ![m] = row]
           new == [e EXCEPT !.manuals = M, !.tombs = T]
<1>1. M \in [Manuals -> ManualRow \cup {None}] /\ M[m] = row
      /\ \A t \in Manuals : t # m => M[t] = e.manuals[t]
  BY DbFields
<1> HIDE DEF M
<1>2. /\ new \in Db /\ new.markers = e.markers
      /\ new.projects = e.projects /\ new.blacklist = e.blacklist /\ new.apps = e.apps
      /\ new.sessions = e.sessions /\ new.manuals = M
  BY <1>1 DEF Db
<1> HIDE DEF new
<1>3. ASSUME DbOK(e) PROVE DbOK(new)
  BY <1>1, <1>2, <1>3 DEF DbOK, ProjectRefsOK, AppRefsOK, BlacklistOK, Missing
<1> QED BY <1>2, <1>3 DEF Keeps, M, new

-----------------------------------------------------------------------------
(* commands/sessions, import.rs, settings.rs and manual_sessions.rs *)

\* assign_app_to_project keeps the database sound.
LEMMA AssignAppKeeps ==
  ASSUME NEW e \in Db, NEW a \in Apps, NEW p \in ProjectRef, NEW time \in Nat,
         e.apps[a] # None, p = None \/ Active(e, p)
  PROVE  Keeps(e, assign_app_to_project(e, a, p, time))
<1> DEFINE row == Point(e.apps[a], p, time)
<1>1. assign_app_to_project(e, a, p, time) = [e EXCEPT !.apps = [e.apps EXCEPT ![a] = row]]
  BY DEF assign_app_to_project, Db
<1>2. e.apps[a] \in AppRow /\ AppRow \in RowSet
  BY DbFields DEF RowSet
<1>3. row \in AppRow /\ row.proj = p
  BY <1>2, RowFacts
<1>4. ~Missing(e, p)
  BY DEF Missing, Active
<1> HIDE DEF row
<1>5. Keeps(e, [e EXCEPT !.apps = [e.apps EXCEPT ![a] = row]])
  BY <1>3, <1>4, OneAppRewritten
<1> QED BY <1>1, <1>5

\* rename_application keeps the database sound.
LEMMA RenameApplicationKeeps ==
  ASSUME NEW e \in Db, NEW a \in Apps, NEW v \in Vals, NEW time \in Nat, e.apps[a] # None
  PROVE  Keeps(e, rename_application(e, a, v, time))
<1> DEFINE row == [e.apps[a] EXCEPT !.val = v, !.ts = time]
<1>1. rename_application(e, a, v, time) = [e EXCEPT !.apps = [e.apps EXCEPT ![a] = row]]
  BY DEF rename_application, Db
<1>2. e.apps[a] \in AppRow
  BY DbFields
<1>3. row \in AppRow /\ row.proj = e.apps[a].proj
  BY <1>2 DEF AppRow
<1>4. DbOK(e) => ~Missing(e, row.proj)
  BY <1>3, RefsHold
<1> HIDE DEF row
<1>5. Keeps(e, [e EXCEPT !.apps = [e.apps EXCEPT ![a] = row]])
  BY <1>3, <1>4, OneAppRewritten
<1> QED BY <1>1, <1>5

\* assign_session_to_project keeps the database sound.
LEMMA AssignSessionKeeps ==
  ASSUME NEW e \in Db, NEW s \in Sessions, NEW p \in ProjectRef, NEW time \in Nat,
         e.sessions[s] # None, ~Missing(e, p)
  PROVE  Keeps(e, assign_session_to_project(e, s, p, time))
<1> DEFINE label == IF p # None /\ p # e.sessions[s].proj THEN p ELSE e.sessions[s].label
           row == [e.sessions[s] EXCEPT !.proj = p, !.ts = time, !.label = label]
<1>1. assign_session_to_project(e, s, p, time)
        = [e EXCEPT !.sessions = [e.sessions EXCEPT ![s] = row]]
  <2>1. assign_session_to_project(e, s, p, time) = [e EXCEPT !.sessions[s] = row]
    BY DEF assign_session_to_project
  <2> HIDE DEF row
  <2> QED BY <2>1 DEF Db
<1>2. e.sessions[s] \in SessionRow
  BY DbFields
<1>3. label \in ProjectRef
  BY <1>2 DEF SessionRow
<1> HIDE DEF label
<1>4. row \in SessionRow /\ row.proj = p
  BY <1>2, <1>3 DEF SessionRow
<1>5. DbOK(e) => e.apps[AppOf[s]] # None
  BY RefsHold
<1> HIDE DEF row
<1>6. Keeps(e, [e EXCEPT !.sessions = [e.sessions EXCEPT ![s] = row]])
  BY <1>4, <1>5, OneSessionRewritten
<1> QED BY <1>1, <1>6

\* A change of a session's rate or comment keeps the database sound.
LEMMA UpdateSessionKeeps ==
  ASSUME NEW e \in Db, NEW s \in Sessions, NEW v \in Vals, NEW time \in Nat,
         e.sessions[s] # None
  PROVE  Keeps(e, update_session(e, s, v, time))
<1> DEFINE row == [e.sessions[s] EXCEPT !.val = v, !.ts = time]
<1>1. update_session(e, s, v, time) = [e EXCEPT !.sessions = [e.sessions EXCEPT ![s] = row]]
  BY DEF update_session, Db
<1>2. e.sessions[s] \in SessionRow
  BY DbFields
<1>3. row \in SessionRow /\ row.proj = e.sessions[s].proj
  BY <1>2 DEF SessionRow
<1>4. DbOK(e) => ~Missing(e, e.sessions[s].proj) /\ e.apps[AppOf[s]] # None
  BY RefsHold
<1> HIDE DEF row
<1>5. Keeps(e, [e EXCEPT !.sessions = [e.sessions EXCEPT ![s] = row]])
  BY <1>3, <1>4, OneSessionRewritten
<1> QED BY <1>1, <1>5

\* Hiding a session keeps the database sound.
LEMMA DeleteSessionKeeps ==
  ASSUME NEW e \in Db, NEW s \in Sessions, e.sessions[s] # None
  PROVE  Keeps(e, delete_session(e, s))
<1> DEFINE row == [e.sessions[s] EXCEPT !.hidden = TRUE]
<1>1. delete_session(e, s) = [e EXCEPT !.sessions = [e.sessions EXCEPT ![s] = row]]
  BY DEF delete_session, Db
<1>2. e.sessions[s] \in SessionRow
  BY DbFields
<1>3. row \in SessionRow /\ row.proj = e.sessions[s].proj
  BY <1>2 DEF SessionRow
<1>4. DbOK(e) => ~Missing(e, e.sessions[s].proj) /\ e.apps[AppOf[s]] # None
  BY RefsHold
<1> HIDE DEF row
<1>5. Keeps(e, [e EXCEPT !.sessions = [e.sessions EXCEPT ![s] = row]])
  BY <1>3, <1>4, OneSessionRewritten
<1> QED BY <1>1, <1>5

\* A missing application is created first; the session takes its project.
LEMMA UpsertKeeps ==
  ASSUME NEW e \in Db, NEW s \in Sessions, NEW v \in Vals, NEW time \in Nat
  PROVE  Keeps(e, upsert_daily_data(e, s, v, time))
<1> DEFINE a   == AppOf[s]
           app == IF e.apps[a] = None THEN [ts |-> time, val |-> v, proj |-> None] ELSE e.apps[a]
           d1  == [e EXCEPT !.apps = [e.apps EXCEPT ![a] = app]]
           fresh == [ts |-> time, val |-> v, hidden |-> FALSE, proj |-> app.proj, label |-> app.proj]
           row == IF e.sessions[s] = None THEN fresh ELSE [e.sessions[s] EXCEPT !.ts = time]
           d2  == [d1 EXCEPT !.sessions = [d1.sessions EXCEPT ![s] = row]]
<1>1. upsert_daily_data(e, s, v, time) = d2
  <2> HIDE DEF app
  <2> QED BY DEF upsert_daily_data, Db, app
<1>2. a \in Apps /\ e.apps[a] \in AppRow \cup {None} /\ e.sessions[s] \in SessionRow \cup {None}
  BY KeyAssumption, DbFields
<1>3. app \in AppRow /\ app.proj \in ProjectRef /\ (DbOK(e) => ~Missing(e, app.proj))
  <2>1. CASE e.apps[a] = None
    BY <2>1 DEF AppRow, ProjectRef, Missing
  <2>2. CASE e.apps[a] # None
    <3>1. e.apps[a] \in AppRow
      BY <1>2, <2>2
    <3>2. DbOK(e) => ~Missing(e, e.apps[a].proj)
      BY <1>2, <2>2, RefsHold
    <3> QED BY <2>2, <3>1, <3>2 DEF AppRow
  <2> QED BY <2>1, <2>2
<1> HIDE DEF app, a
<1>4. Keeps(e, d1)
  BY <1>2, <1>3, OneAppRewritten
<1>5. /\ d1 \in Db /\ d1.projects = e.projects /\ d1.sessions = e.sessions
      /\ d1.apps[a] = app
  BY <1>2, <1>4, DbFields DEF Keeps, Db
<1>6. row \in SessionRow /\ row.proj = IF e.sessions[s] = None THEN app.proj ELSE e.sessions[s].proj
  <2>1. CASE e.sessions[s] = None
    BY <1>3, <2>1 DEF SessionRow
  <2>2. CASE e.sessions[s] # None
    <3>1. e.sessions[s] \in SessionRow
      BY <1>2, <2>2
    <3> QED BY <2>2, <3>1 DEF SessionRow
  <2> QED BY <2>1, <2>2
<1> HIDE DEF row
<1>7. ASSUME DbOK(d1) PROVE ~Missing(d1, row.proj) /\ d1.apps[AppOf[s]] # None
  <2> HIDE DEF d1
  <2>1. d1.apps[AppOf[s]] # None
    BY <1>3, <1>5, RowsAreNotNone DEF a
  <2>2. ~Missing(d1, app.proj)
    BY <1>2, <1>3, <1>5, <1>7, <2>1, RefsHold DEF a
  <2>3. d1.sessions[s] # None => ~Missing(d1, d1.sessions[s].proj)
    BY <1>5, <1>7, RefsHold
  <2> QED BY <1>5, <1>6, <2>1, <2>2, <2>3
<1> HIDE DEF d1
<1>8. Keeps(d1, [d1 EXCEPT !.sessions = [d1.sessions EXCEPT ![s] = row]])
  BY <1>5, <1>6, <1>7, OneSessionRewritten
<1> QED BY <1>1, <1>4, <1>8, KeepsTwice

\* reset_app_time keeps the database sound.
LEMMA ResetAppTimeKeeps ==
  ASSUME NEW e \in Db, NEW a \in Apps, NEW time \in Nat
  PROVE  /\ Keeps(e, reset_app_time(e, a, time))
         /\ Keeps(e, delete_app_and_data(e, a, time))
<1> DEFINE S == [s \in Sessions |-> IF AppOf[s] = a THEN None ELSE e.sessions[s]]
           T1 == e.tombs \cup SessionTombs(SessionsOf(e, a), time)
           A == [e.apps EXCEPT ![a] = None]
           T2 == T1 \cup {Tombstone("applications", a, 0, time)}
<1>1. reset_app_time(e, a, time) = [e EXCEPT !.apps = e.apps, !.sessions = S,
                                              !.manuals = e.manuals, !.tombs = T1]
  BY DEF reset_app_time, Db
<1>2. delete_app_and_data(e, a, time) = [e EXCEPT !.apps = A, !.sessions = S,
                                                   !.manuals = e.manuals, !.tombs = T2]
  BY DEF delete_app_and_data, reset_app_time, Db
<1>3. T1 \in SUBSET Tomb /\ T2 \in SUBSET Tomb
  <2>1. SessionsOf(e, a) \in SUBSET Sessions
    BY DEF SessionsOf
  <2> QED BY <2>1, DbFields, TombstonesTyped
<1>4. /\ S \in [Sessions -> SessionRow \cup {None}]
      /\ A \in [Apps -> AppRow \cup {None}]
      /\ e.apps \in [Apps -> AppRow \cup {None}]
      /\ e.manuals \in [Manuals -> ManualRow \cup {None}]
  BY DbFields
<1>5. ASSUME DbOK(e)
      PROVE  /\ \A b \in Apps : e.apps[b] # None => ~Missing(e, e.apps[b].proj)
             /\ \A b \in Apps : A[b] # None => ~Missing(e, A[b].proj)
             /\ \A s \in Sessions : S[s] # None => /\ ~Missing(e, S[s].proj)
                                                   /\ e.apps[AppOf[s]] # None
                                                   /\ A[AppOf[s]] # None
             /\ \A m \in Manuals : e.manuals[m] # None => ~Missing(e, e.manuals[m].proj)
  BY <1>5, RefsHold, DbFields, KeyAssumption
<1> HIDE DEF S, A, T1, T2
<1>6. Keeps(e, [e EXCEPT !.apps = e.apps, !.sessions = S, !.manuals = e.manuals, !.tombs = T1])
  BY <1>3, <1>4, <1>5, RowsRewritten
<1>7. Keeps(e, [e EXCEPT !.apps = A, !.sessions = S, !.manuals = e.manuals, !.tombs = T2])
  BY <1>3, <1>4, <1>5, RowsRewritten
<1> QED BY <1>1, <1>2, <1>6, <1>7

\* create_manual_session keeps the database sound.
LEMMA CreateManualKeeps ==
  ASSUME NEW e \in Db, NEW m \in Manuals, NEW p \in Projects, NEW v \in Vals, NEW time \in Nat,
         Active(e, p)
  PROVE  Keeps(e, create_manual_session(e, m, p, v, time))
<1> DEFINE row == [ts |-> time, val |-> v, proj |-> p]
<1>1. create_manual_session(e, m, p, v, time)
        = [e EXCEPT !.manuals = [e.manuals EXCEPT ![m] = row], !.tombs = e.tombs]
  BY DEF create_manual_session, Db
<1>2. row \in ManualRow /\ row.proj = p /\ ~Missing(e, p) /\ e.tombs \in SUBSET Tomb
  BY DbFields DEF ManualRow, ProjectRef, Active, Missing
<1> HIDE DEF row
<1>3. Keeps(e, [e EXCEPT !.manuals = [e.manuals EXCEPT ![m] = row], !.tombs = e.tombs])
  BY <1>2, OneManualRewritten
<1> QED BY <1>1, <1>3

\* update_manual_session keeps the database sound, also when the row moves to a new key.
LEMMA UpdateManualKeeps ==
  ASSUME NEW e \in Db, NEW m \in Manuals, NEW n \in Manuals, NEW p \in Projects,
         NEW v \in Vals, NEW time \in Nat, Active(e, p)
  PROVE  Keeps(e, update_manual_session(e, m, n, p, v, time))
<1> DEFINE new == create_manual_session(e, n, p, v, time)
<1>1. Keeps(e, new)
  BY CreateManualKeeps
<1>2. new \in Db
  BY <1>1 DEF Keeps
<1>3. CASE m = n
  <2>1. update_manual_session(e, m, n, p, v, time) = new
    BY <1>2, <1>3 DEF update_manual_session, Db
  <2> QED BY <1>1, <2>1
<1>4. CASE m # n
  <2>1. update_manual_session(e, m, n, p, v, time)
          = [new EXCEPT !.manuals = [new.manuals EXCEPT ![m] = None], !.tombs = new.tombs]
    BY <1>2, <1>4 DEF update_manual_session, Db
  <2>2. new.tombs \in SUBSET Tomb
    BY <1>2, DbFields
  <2> HIDE DEF new
  <2>3. Keeps(new, [new EXCEPT !.manuals = [new.manuals EXCEPT ![m] = None], !.tombs = new.tombs])
    BY <1>2, <2>2, OneManualRewritten
  <2> QED BY <1>1, <2>1, <2>3, KeepsTwice
<1> QED BY <1>3, <1>4

\* delete_manual_session keeps the database sound.
LEMMA DeleteManualKeeps ==
  ASSUME NEW e \in Db, NEW d \in Device, NEW m \in Manuals, NEW time \in Nat,
         e.manuals[m] # None
  PROVE  Keeps(e, delete_manual_session(e, d, m, time))
<1> DEFINE T == e.tombs \cup ManualTombs(e, d, {m}, time)
<1>1. delete_manual_session(e, d, m, time)
        = [e EXCEPT !.manuals = [e.manuals EXCEPT ![m] = None], !.tombs = T]
  BY DEF delete_manual_session, Db
<1>2. T \in SUBSET Tomb
  <2>1. ManualTombs(e, d, {m}, time) \in SUBSET Tomb
    BY ManualTombsTyped
  <2> QED BY <2>1, DbFields
<1> HIDE DEF T
<1>3. Keeps(e, [e EXCEPT !.manuals = [e.manuals EXCEPT ![m] = None], !.tombs = T])
  BY <1>2, OneManualRewritten
<1> QED BY <1>1, <1>3

-----------------------------------------------------------------------------
MarkersPast(e, t) == \A m \in e.markers : m.at <= t

\* A database that a machine, or the backup of one, may hold at time t.
Sound(e, t) == e \in Db /\ DbOK(e) /\ MarkersPast(e, t)

BackupSound == sync.pc \in {"merge", "verify"} => Sound(sync.backup, now)

DbsSound == \A d \in Device : Sound(db[d], now)

IInv == TypeOK /\ DbsSound /\ BackupSound

-----------------------------------------------------------------------------
(* Operations on one database. *)

\* What keeps a database sound leaves it sound and its markers in the past.
LEMMA KeepsSound ==
  ASSUME NEW e, NEW new, NEW t, Sound(e, t), Keeps(e, new)
  PROVE  Sound(new, t)
BY DEF Sound, Keeps, MarkersPast

\* A merge leaves a sound database sound.
LEMMA MergeSound ==
  ASSUME NEW e, NEW in \in Payload, NEW t \in Nat, Sound(e, t)
  PROVE  Sound(merge_incoming_data(e, in, t), t)
BY MergeKeepsDb, MergeKeepsMarkers DEF Sound, MarkersPast

\* verify_merge_integrity leaves a sound database sound.
LEMMA VerifySound ==
  ASSUME NEW e, NEW t \in Nat, Sound(e, t)
  PROVE  Sound(verify_merge_integrity(e, t), t)
<1>1. e \in Db
  BY DEF Sound
<1>2. PICK in \in Payload : TRUE
  BY <1>1, ExportTyped
<1>3. verify_merge_integrity(e, t).markers = e.markers
  BY <1>1, <1>2, MergeKeepsMarkers
<1> QED BY <1>1, <1>3, VerifyKeepsDb DEF Sound, MarkersPast

\* A new marker of this second leaves a sound database sound.
LEMMA MarkerSound ==
  ASSUME NEW e, NEW t \in Nat, Sound(e, t), NEW hash \in Nat, NEW dev \in Device, NEW peer \in Device
  PROVE  Sound(insert_sync_marker_db(e, hash, t, dev, peer), t)
<1> DEFINE new == insert_sync_marker_db(e, hash, t, dev, peer)
<1>1. /\ new \in Db /\ (DbOK(e) => DbOK(new))
      /\ new.markers = e.markers \cup {[hash |-> hash, at |-> t, dev |-> dev, peer |-> peer]}
  BY MarkerKeepsDb DEF Sound
<1> HIDE DEF new
<1>2. \A m \in new.markers : m.at <= t
  BY <1>1 DEF Sound, MarkersPast
<1> QED BY <1>1, <1>2 DEF Sound, MarkersPast, new

\* Collecting tombstones leaves a sound database sound.
LEMMA GcSound ==
  ASSUME NEW e, NEW t, Sound(e, t), NEW peers
  PROVE  Sound(gc_tombstones(e, peers), t)
BY GcKeepsDb DEF Sound, MarkersPast

\* One machine's database changes and the clock does not.
LEMMA OneDbSound ==
  ASSUME IInv, NEW d \in Device, NEW e, Sound(e, now), now' = now, db' = [db EXCEPT ![d] = e]
  PROVE  db' \in [Device -> Db] /\ DbsSound'
BY DEF IInv, TypeOK, DbsSound, Sound

\* Time alone makes no database unsound.
LEMMA SameDbSound ==
  ASSUME IInv, UNCHANGED <<now, db>>
  PROVE  db' \in [Device -> Db] /\ DbsSound'
BY DEF IInv, TypeOK, DbsSound

-----------------------------------------------------------------------------
(* Commands. *)

\* Issuing any command that keeps the database sound keeps the invariant.
LEMMA IssueKeepsIInv ==
  ASSUME IInv, NEW d \in Device, NEW op, NEW new, Keeps(db[d], new), Issue(d, op, new)
  PROVE  IInv'
<1>1. /\ now' = now /\ frozen' = frozen /\ busy' = busy /\ ready' = ready /\ hashes' = hashes
      /\ db' = [db EXCEPT ![d] = new] /\ sync' = [sync EXCEPT !.quiet = FALSE]
      /\ used' = [used EXCEPT !.ops = @ + 1, !.opAt = now]
  BY DEF Issue
<1>2. Sound(new, now)
  BY KeepsSound DEF IInv, DbsSound
<1>3. db' \in [Device -> Db] /\ DbsSound'
  BY <1>1, <1>2, OneDbSound
<1>4. /\ sync' \in SyncType /\ sync'.pc = sync.pc /\ sync'.backup = sync.backup
      /\ sync'.master = sync.master /\ sync'.slave = sync.slave /\ sync'.payload = sync.payload
  BY <1>1 DEF IInv, TypeOK, SyncType
<1>5. used' \in [ops: Nat, syncs: Nat, faults: Nat, opAt: Nat]
  <2>1. used \in [ops: Nat, syncs: Nat, faults: Nat, opAt: Nat] /\ now \in Nat
    BY DEF IInv, TypeOK
  <2>2. used.ops + 1 \in Nat
    BY <2>1
  <2> QED BY <1>1, <2>1, <2>2
<1>6. TypeOK'
  BY <1>1, <1>3, <1>4, <1>5 DEF IInv, TypeOK
<1>7. BackupSound'
  BY <1>1, <1>4 DEF IInv, BackupSound
<1> QED BY <1>3, <1>6, <1>7 DEF IInv

\* A command is issued, and it is one that keeps the database.
Issued(d) == \E op, new : Keeps(db[d], new) /\ Issue(d, op, new)

\* The commands of projects.rs.
LEMMA ProjectCommandIssues ==
  ASSUME IInv, NEW d \in Device, ProjectCommand(d)
  PROVE  Issued(d)
<1>1. PICK p \in Projects :
        \/ \E v \in Vals : /\ CanCreateProject(db[d], p)
                           /\ Issue(d, "create_project", create_project(db[d], p, v, now))
        \/ \E v \in Vals : /\ db[d].projects[p] # None
                           /\ Issue(d, "update_project", update_project(db[d], p, v, now))
        \/ /\ db[d].projects[p] # None
           /\ Issue(d, "exclude_project", exclude_project(db[d], p, now))
        \/ /\ CanRestoreProject(db[d], p)
           /\ Issue(d, "restore_project", restore_project(db[d], p, now))
        \/ /\ CanDeleteProject(db[d], p)
           /\ Issue(d, "delete_project", delete_project(db[d], d, p, now))
        \/ \E q \in Projects : /\ CanMergeProject(db[d], p, q)
                               /\ Issue(d, "merge_project", merge_project(db[d], p, q, now))
        \/ /\ CanUnmergeProject(db[d], p)
           /\ Issue(d, "unmerge_project", unmerge_project(db[d], p, now))
  BY DEF ProjectCommand
<1>2. db[d] \in Db /\ now \in Nat
  BY DEF IInv, TypeOK
<1>3. ASSUME NEW v \in Vals, CanCreateProject(db[d], p),
             Issue(d, "create_project", create_project(db[d], p, v, now))
      PROVE  Issued(d)
  BY <1>2, <1>3, CreateProjectKeeps DEF Issued
<1>4. ASSUME NEW v \in Vals, db[d].projects[p] # None,
             Issue(d, "update_project", update_project(db[d], p, v, now))
      PROVE  Issued(d)
  BY <1>2, <1>4, UpdateProjectKeeps DEF Issued
<1>5. ASSUME db[d].projects[p] # None,
             Issue(d, "exclude_project", exclude_project(db[d], p, now))
      PROVE  Issued(d)
  BY <1>2, <1>5, ExcludeProjectKeeps DEF Issued
<1>6. ASSUME CanRestoreProject(db[d], p),
             Issue(d, "restore_project", restore_project(db[d], p, now))
      PROVE  Issued(d)
  BY <1>2, <1>6, RestoreProjectKeeps DEF Issued
<1>7. ASSUME CanDeleteProject(db[d], p),
             Issue(d, "delete_project", delete_project(db[d], d, p, now))
      PROVE  Issued(d)
  BY <1>2, <1>7, DeleteProjectKeeps DEF Issued
<1>8. ASSUME NEW q \in Projects, CanMergeProject(db[d], p, q),
             Issue(d, "merge_project", merge_project(db[d], p, q, now))
      PROVE  Issued(d)
  BY <1>2, <1>8, MergeProjectKeeps DEF Issued
<1>9. ASSUME CanUnmergeProject(db[d], p),
             Issue(d, "unmerge_project", unmerge_project(db[d], p, now))
      PROVE  Issued(d)
  BY <1>2, <1>9, UnmergeProjectKeeps DEF Issued
<1> QED BY <1>1, <1>3, <1>4, <1>5, <1>6, <1>7, <1>8, <1>9

\* The commands on applications.
LEMMA AppCommandIssues ==
  ASSUME IInv, NEW d \in Device, AppCommand(d)
  PROVE  Issued(d)
<1>1. PICK a \in Apps :
        /\ db[d].apps[a] # None
        /\ \/ \E p \in ProjectRef :
                /\ p = None \/ Active(db[d], p)
                /\ Issue(d, "assign_app_to_project", assign_app_to_project(db[d], a, p, now))
           \/ \E v \in Vals : Issue(d, "rename_application", rename_application(db[d], a, v, now))
           \/ Issue(d, "reset_app_time", reset_app_time(db[d], a, now))
           \/ Issue(d, "delete_app_and_data", delete_app_and_data(db[d], a, now))
  BY DEF AppCommand
<1>2. db[d] \in Db /\ now \in Nat
  BY DEF IInv, TypeOK
<1>3. ASSUME NEW p \in ProjectRef, p = None \/ Active(db[d], p),
             Issue(d, "assign_app_to_project", assign_app_to_project(db[d], a, p, now))
      PROVE  Issued(d)
  BY <1>1, <1>2, <1>3, AssignAppKeeps DEF Issued
<1>4. ASSUME NEW v \in Vals,
             Issue(d, "rename_application", rename_application(db[d], a, v, now))
      PROVE  Issued(d)
  BY <1>1, <1>2, <1>4, RenameApplicationKeeps DEF Issued
<1>5. ASSUME Issue(d, "reset_app_time", reset_app_time(db[d], a, now))
      PROVE  Issued(d)
  BY <1>2, <1>5, ResetAppTimeKeeps DEF Issued
<1>6. ASSUME Issue(d, "delete_app_and_data", delete_app_and_data(db[d], a, now))
      PROVE  Issued(d)
  BY <1>2, <1>6, ResetAppTimeKeeps DEF Issued
<1> QED BY <1>1, <1>3, <1>4, <1>5, <1>6

\* The commands on sessions.
LEMMA SessionCommandIssues ==
  ASSUME IInv, NEW d \in Device, SessionCommand(d)
  PROVE  Issued(d)
<1>1. PICK s \in Sessions :
        \/ \E v \in Vals : Issue(d, "upsert_daily_data", upsert_daily_data(db[d], s, v, now))
        \/ /\ db[d].sessions[s] # None
           /\ \/ \E p \in Projects :
                   /\ db[d].projects[p] # None
                   /\ Issue(d, "assign_session", assign_session_to_project(db[d], s, p, now))
              \/ Issue(d, "unassign_session", assign_session_to_project(db[d], s, None, now))
              \/ \E v \in Vals : Issue(d, "update_session", update_session(db[d], s, v, now))
              \/ Issue(d, "delete_session", delete_session(db[d], s))
  BY DEF SessionCommand
<1>2. db[d] \in Db /\ now \in Nat /\ None \in ProjectRef /\ ~Missing(db[d], None)
  BY DEF IInv, TypeOK, ProjectRef, Missing
<1>3. ASSUME NEW v \in Vals,
             Issue(d, "upsert_daily_data", upsert_daily_data(db[d], s, v, now))
      PROVE  Issued(d)
  BY <1>2, <1>3, UpsertKeeps DEF Issued
<1>4. ASSUME db[d].sessions[s] # None, NEW p \in Projects, db[d].projects[p] # None,
             Issue(d, "assign_session", assign_session_to_project(db[d], s, p, now))
      PROVE  Issued(d)
  <2>1. p \in ProjectRef /\ ~Missing(db[d], p)
    BY <1>4 DEF ProjectRef, Missing
  <2> QED BY <1>2, <1>4, <2>1, AssignSessionKeeps DEF Issued
<1>5. ASSUME db[d].sessions[s] # None,
             Issue(d, "unassign_session", assign_session_to_project(db[d], s, None, now))
      PROVE  Issued(d)
  BY <1>2, <1>5, AssignSessionKeeps DEF Issued
<1>6. ASSUME db[d].sessions[s] # None, NEW v \in Vals,
             Issue(d, "update_session", update_session(db[d], s, v, now))
      PROVE  Issued(d)
  BY <1>2, <1>6, UpdateSessionKeeps DEF Issued
<1>7. ASSUME db[d].sessions[s] # None, Issue(d, "delete_session", delete_session(db[d], s))
      PROVE  Issued(d)
  BY <1>2, <1>7, DeleteSessionKeeps DEF Issued
<1> QED BY <1>1, <1>3, <1>4, <1>5, <1>6, <1>7

\* The commands on manual sessions.
LEMMA ManualCommandIssues ==
  ASSUME IInv, NEW d \in Device, ManualCommand(d)
  PROVE  Issued(d)
<1>1. PICK m \in Manuals :
        \/ \E p \in Projects, v \in Vals :
             /\ Active(db[d], p)
             /\ \/ Issue(d, "create_manual_session", create_manual_session(db[d], m, p, v, now))
                \/ \E n \in Manuals : Issue(d, "update_manual_session",
                                            update_manual_session(db[d], m, n, p, v, now))
        \/ /\ db[d].manuals[m] # None
           /\ Issue(d, "delete_manual_session", delete_manual_session(db[d], d, m, now))
  BY DEF ManualCommand
<1>2. db[d] \in Db /\ now \in Nat
  BY DEF IInv, TypeOK
<1>3. ASSUME NEW p \in Projects, NEW v \in Vals, Active(db[d], p),
             Issue(d, "create_manual_session", create_manual_session(db[d], m, p, v, now))
      PROVE  Issued(d)
  BY <1>2, <1>3, CreateManualKeeps DEF Issued
<1>4. ASSUME NEW p \in Projects, NEW v \in Vals, NEW n \in Manuals, Active(db[d], p),
             Issue(d, "update_manual_session", update_manual_session(db[d], m, n, p, v, now))
      PROVE  Issued(d)
  BY <1>2, <1>4, UpdateManualKeeps DEF Issued
<1>5. ASSUME db[d].manuals[m] # None,
             Issue(d, "delete_manual_session", delete_manual_session(db[d], d, m, now))
      PROVE  Issued(d)
  BY <1>2, <1>5, DeleteManualKeeps DEF Issued
<1> QED BY <1>1, <1>3, <1>4, <1>5

\* A command always keeps the database it is issued on.
LEMMA CommandIssues ==
  ASSUME IInv, NEW d \in Device, Command(d)
  PROVE  Issued(d)
BY ProjectCommandIssues, AppCommandIssues, SessionCommandIssues, ManualCommandIssues DEF Command

-----------------------------------------------------------------------------
(* The master's steps. *)

UsedType == [ops: Nat, syncs: Nat, faults: Nat, opAt: Nat]

\* Counting a fault keeps the counters typed.
LEMMA FaultTyped == ASSUME IInv, Fault PROVE used' \in UsedType
<1>1. used \in UsedType /\ used' = [used EXCEPT !.faults = @ + 1]
  BY DEF IInv, TypeOK, Fault, UsedType
<1>2. used.faults + 1 \in Nat
  BY <1>1 DEF UsedType
<1> QED BY <1>1, <1>2 DEF UsedType

\* What of TypeOK is not about db or used.
LocalType ==
  /\ now \in Nat /\ hashes \in Nat
  /\ frozen \in [Device -> BOOLEAN] /\ busy \in [Device -> BOOLEAN]
  /\ ready \in [Device -> [marker: Nat, own: Nat] \cup {None}]
  /\ sync \in SyncType
  /\ sync.pc \notin {"idle", "completed"} => sync.master \in Device /\ sync.slave \in Device
  /\ sync.pc \in {"backup", "merge", "upload"} => sync.payload \in Payload
  /\ sync.pc \in {"merge", "verify"} => sync.backup \in Db

\* TypeOK, with the parts most steps leave alone split off.
LEMMA TypeOKParts == TypeOK <=> LocalType /\ db \in [Device -> Db] /\ used \in UsedType
BY DEF TypeOK, LocalType, UsedType

\* The invariant of the next state, from its parts.
LEMMA IInvNext ==
  ASSUME LocalType', db' \in [Device -> Db], DbsSound', used' \in UsedType, BackupSound'
  PROVE  IInv'
BY DEF IInv, TypeOK, LocalType, UsedType

\* The program counter moves to a step that asks nothing of the other fields.
LEMMA GotoTyped ==
  ASSUME LocalType, NEW pc \in {"abort", "pull", "unfreeze_peer", "gc"},
         sync.pc \notin {"idle", "completed"}, Goto(pc)
  PROVE  /\ sync' \in SyncType /\ sync'.pc = pc
         /\ sync'.master \in Device /\ sync'.slave \in Device
BY DEF LocalType, SyncType, Goto, Steps

\* The latest marker carries a second that has passed.
LEMMA LatestMarkerTime ==
  ASSUME NEW e, NEW t \in Nat, Sound(e, t), HasMarkers(e)
  PROVE  LatestMarker(e).at \in Nat
BY LatestMarkerFacts DEF Sound, MarkersPast, HasMarkers

\* Steps 2-4 keep the invariant.
LEMMA NegotiateKeepsIInv == ASSUME IInv, Negotiate PROVE IInv'
<1>1. /\ LocalType /\ sync.pc = "negotiate" /\ used \in UsedType
      /\ sync.master \in Device /\ sync.slave \in Device
      /\ UNCHANGED <<now, db, frozen, busy, ready, hashes>>
  BY TypeOKParts DEF IInv, Negotiate, At, LocalType
<1>2. db' \in [Device -> Db] /\ DbsSound'
  BY <1>1, SameDbSound
<1>3. /\ sync' \in SyncType /\ sync'.pc \in {"abort", "freeze"}
      /\ sync'.master \in Device /\ sync'.slave \in Device
      /\ used' \in UsedType
  <2>1. CASE Goto("abort")
    BY <1>1, <2>1, GotoTyped, FaultTyped DEF Negotiate
  <2>2. CASE ~Goto("abort")
    <3>1. PICK mode \in {"full", "delta"} :
            /\ sync' = [sync EXCEPT !.pc = "freeze", !.mode = mode, !.since = resolve_pull_since(mode)]
            /\ UNCHANGED used
      BY <2>2 DEF Negotiate, NegotiatedMode
    <3>2. resolve_pull_since(mode) \in Nat
      <4>1. Sound(db[sync.slave], now) /\ now \in Nat
        BY <1>1 DEF IInv, DbsSound, LocalType
      <4> QED BY <4>1, LatestMarkerTime DEF resolve_pull_since
    <3> QED BY <1>1, <3>1, <3>2 DEF LocalType, SyncType, Steps
  <2> QED BY <2>1, <2>2
<1>4. LocalType'
  BY <1>1, <1>3 DEF LocalType
<1>5. BackupSound'
  BY <1>3 DEF BackupSound
<1> QED BY <1>2, <1>3, <1>4, <1>5, IInvNext

\* Step 5 keeps the invariant.
LEMMA FreezeKeepsIInv == ASSUME IInv, Freeze PROVE IInv'
<1>1. /\ LocalType /\ sync.pc = "freeze" /\ used \in UsedType
      /\ sync.master \in Device /\ sync.slave \in Device
      /\ UNCHANGED <<now, db, ready, hashes>>
  BY TypeOKParts DEF IInv, Freeze, At, LocalType
<1>2. db' \in [Device -> Db] /\ DbsSound'
  BY <1>1, SameDbSound
<1>3. /\ frozen' \in [Device -> BOOLEAN] /\ busy' \in [Device -> BOOLEAN]
      /\ used' \in UsedType /\ (Goto("pull") \/ Goto("abort"))
  <2>1. CASE Goto("pull") /\ UNCHANGED used
                /\ frozen' = [frozen EXCEPT ![sync.master] = TRUE, ![sync.slave] = TRUE]
                /\ busy' = [busy EXCEPT ![sync.slave] = TRUE, ![sync.master] = TRUE]
    BY <1>1, <2>1 DEF LocalType
  <2>2. CASE /\ Fault /\ Goto("abort")
             /\ \E reached \in BOOLEAN :
                  /\ frozen' = [frozen EXCEPT ![sync.master] = FALSE, ![sync.slave] = @ \/ reached]
                  /\ busy' = [busy EXCEPT ![sync.master] = FALSE, ![sync.slave] = @ \/ reached]
    BY <1>1, <2>2, FaultTyped DEF LocalType
  <2> QED BY <2>1, <2>2 DEF Freeze
<1>4. /\ sync' \in SyncType /\ sync'.pc \in {"abort", "pull"}
      /\ sync'.master \in Device /\ sync'.slave \in Device
  BY <1>1, <1>3, GotoTyped
<1>5. LocalType'
  BY <1>1, <1>3, <1>4 DEF LocalType
<1>6. BackupSound'
  BY <1>4 DEF BackupSound
<1> QED BY <1>2, <1>3, <1>5, <1>6, IInvNext

\* Steps 6-7 keep the invariant: what is pulled is a payload.
LEMMA PullKeepsIInv == ASSUME IInv, Pull PROVE IInv'
<1>1. /\ LocalType /\ sync.pc = "pull" /\ used \in UsedType
      /\ sync.master \in Device /\ sync.slave \in Device
      /\ UNCHANGED <<now, db, frozen, busy, ready, hashes>>
  BY TypeOKParts DEF IInv, Pull, At, LocalType
<1>2. db' \in [Device -> Db] /\ DbsSound'
  BY <1>1, SameDbSound
<1>3. /\ sync' \in SyncType /\ sync'.pc \in {"abort", "backup"}
      /\ sync'.master \in Device /\ sync'.slave \in Device
      /\ sync'.pc = "backup" => sync'.payload \in Payload
      /\ used' \in UsedType
  <2>1. CASE Goto("abort")
    BY <1>1, <2>1, GotoTyped, FaultTyped DEF Pull
  <2>2. CASE ~Goto("abort")
    <3> DEFINE answer == build_delta_for_pull(db[sync.slave], sync.since)
    <3>1. sync' = [sync EXCEPT !.pc = "backup", !.payload = answer] /\ UNCHANGED used
      BY <2>2 DEF Pull
    <3>2. answer \in Payload
      BY <1>1, ExportTyped DEF IInv, TypeOK
    <3> HIDE DEF answer
    <3> QED BY <1>1, <3>1, <3>2 DEF LocalType, SyncType, Steps
  <2> QED BY <2>1, <2>2
<1>4. LocalType'
  BY <1>1, <1>3 DEF LocalType
<1>5. BackupSound'
  BY <1>3 DEF BackupSound
<1> QED BY <1>2, <1>3, <1>4, <1>5, IInvNext

\* Step 8 keeps the invariant: the backup is a sound database.
LEMMA BackupKeepsIInv == ASSUME IInv, Backup PROVE IInv'
<1>1. /\ LocalType /\ sync.pc = "backup" /\ used \in UsedType
      /\ sync.master \in Device /\ sync.slave \in Device
      /\ UNCHANGED <<now, db, frozen, busy, ready, hashes, used>>
      /\ sync' = [sync EXCEPT !.pc = "merge", !.backup = db[sync.master]]
  BY TypeOKParts DEF IInv, Backup, At, LocalType
<1>2. db' \in [Device -> Db] /\ DbsSound'
  BY <1>1, SameDbSound
<1>3. Sound(db[sync.master], now) /\ db[sync.master] \in Db
  BY <1>1 DEF IInv, DbsSound, Sound
<1>4. /\ sync' \in SyncType /\ sync'.pc = "merge" /\ sync'.backup = db[sync.master]
      /\ sync'.master = sync.master /\ sync'.slave = sync.slave
      /\ sync'.payload \in Payload
  BY <1>1, <1>3 DEF LocalType, SyncType, Steps
<1>5. LocalType'
  BY <1>1, <1>3, <1>4 DEF LocalType
<1>6. BackupSound'
  BY <1>1, <1>3, <1>4 DEF BackupSound
<1> QED BY <1>1, <1>2, <1>5, <1>6, IInvNext

\* Step 9 keeps the invariant.
LEMMA MergeKeepsIInv == ASSUME IInv, Merge PROVE IInv'
<1> DEFINE merged == merge_incoming_data(db[sync.master], sync.payload, now)
<1>1. /\ LocalType /\ sync.pc = "merge" /\ used \in UsedType
      /\ sync.master \in Device /\ sync.slave \in Device
      /\ UNCHANGED <<now, frozen, busy, ready, hashes, used>>
      /\ db' = [db EXCEPT ![sync.master] = merged]
      /\ sync' = [sync EXCEPT !.pc = "verify", !.payload = None]
  <2>1. LocalType /\ db \in [Device -> Db] /\ used \in UsedType /\ sync.pc = "merge"
    BY TypeOKParts DEF IInv, Merge, At
  <2> QED BY <2>1 DEF Merge, LocalType
<1>2. Sound(merged, now)
  <2>1. Sound(db[sync.master], now) /\ sync.payload \in Payload /\ now \in Nat
    BY <1>1 DEF IInv, DbsSound, LocalType
  <2> QED BY <2>1, MergeSound
<1> HIDE DEF merged
<1>3. db' \in [Device -> Db] /\ DbsSound'
  BY <1>1, <1>2, OneDbSound
<1>4. /\ sync' \in SyncType /\ sync'.pc = "verify" /\ sync'.backup = sync.backup
      /\ sync'.master = sync.master /\ sync'.slave = sync.slave
  BY <1>1 DEF LocalType, SyncType, Steps
<1>5. LocalType'
  BY <1>1, <1>4 DEF LocalType
<1>6. BackupSound'
  BY <1>1, <1>4 DEF IInv, BackupSound
<1> QED BY <1>1, <1>3, <1>5, <1>6, IInvNext

\* A failed merge keeps the invariant: the backup that replaces the database is sound.
LEMMA RestoreBackupKeepsIInv == ASSUME IInv, RestoreBackup PROVE IInv'
<1>1. /\ LocalType /\ sync.pc \in {"merge", "verify"} /\ Goto("abort") /\ Fault
      /\ sync.master \in Device /\ sync.slave \in Device
      /\ UNCHANGED <<now, frozen, busy, ready, hashes>>
      /\ db' = [db EXCEPT ![sync.master] = sync.backup]
  BY TypeOKParts DEF IInv, RestoreBackup, At, LocalType
<1>2. Sound(sync.backup, now)
  BY <1>1 DEF IInv, BackupSound
<1>3. db' \in [Device -> Db] /\ DbsSound'
  BY <1>1, <1>2, OneDbSound
<1>4. used' \in UsedType
  BY <1>1, FaultTyped
<1>5. /\ sync' \in SyncType /\ sync'.pc = "abort"
      /\ sync'.master \in Device /\ sync'.slave \in Device
  BY <1>1, GotoTyped
<1>6. LocalType'
  BY <1>1, <1>5 DEF LocalType
<1>7. BackupSound'
  BY <1>5 DEF BackupSound
<1> QED BY <1>3, <1>4, <1>6, <1>7, IInvNext

\* Step 10 keeps the invariant.
LEMMA VerifyKeepsIInv == ASSUME IInv, Verify PROVE IInv'
<1> DEFINE d1 == verify_merge_integrity(db[sync.master], now)
           d2 == insert_sync_marker_db(d1, hashes', now, sync.master, sync.slave)
           out == build_full_export(d2)
<1>1. /\ LocalType /\ sync.pc = "verify" /\ used \in UsedType
      /\ sync.master \in Device /\ sync.slave \in Device
      /\ UNCHANGED <<now, frozen, busy, ready, used>> /\ hashes' = hashes + 1
  BY TypeOKParts DEF IInv, Verify, At, LocalType
<1>2. /\ db' = [db EXCEPT ![sync.master] = d2]
      /\ sync' = [sync EXCEPT !.pc = "upload", !.backup = None, !.marker = hashes',
                              !.payload = out]
  BY DEF Verify
<1>3. hashes' \in Nat /\ now \in Nat
  BY <1>1 DEF LocalType
<1>4. Sound(d1, now)
  BY <1>1, <1>3, VerifySound DEF IInv, DbsSound
<1> HIDE DEF d1
<1>5. Sound(d2, now)
  BY <1>1, <1>3, <1>4, MarkerSound
<1> HIDE DEF d2
<1>6. out \in Payload
  BY <1>5, ExportTyped DEF Sound, build_full_export
<1> HIDE DEF out
<1>7. db' \in [Device -> Db] /\ DbsSound'
  BY <1>1, <1>2, <1>5, OneDbSound
<1>8. /\ sync' \in SyncType /\ sync'.pc = "upload" /\ sync'.payload \in Payload
      /\ sync'.master = sync.master /\ sync'.slave = sync.slave
  BY <1>1, <1>2, <1>3, <1>6 DEF LocalType, SyncType, Steps
<1>9. LocalType'
  BY <1>1, <1>3, <1>8 DEF LocalType
<1>10. BackupSound'
  BY <1>8 DEF BackupSound
<1> QED BY <1>1, <1>7, <1>9, <1>10, IInvNext

\* Step 11 keeps the invariant.
LEMMA UploadKeepsIInv == ASSUME IInv, Upload PROVE IInv'
<1>1. /\ LocalType /\ sync.pc = "upload" /\ used \in UsedType
      /\ sync.master \in Device /\ sync.slave \in Device
      /\ UNCHANGED <<now, db, frozen, busy, ready, hashes>>
  BY TypeOKParts DEF IInv, Upload, At, LocalType
<1>2. db' \in [Device -> Db] /\ DbsSound'
  BY <1>1, SameDbSound
<1>3. /\ sync' \in SyncType /\ sync'.pc \in {"abort", "db_ready"}
      /\ sync'.master \in Device /\ sync'.slave \in Device
      /\ used' \in UsedType
  <2>1. CASE Goto("abort")
    BY <1>1, <2>1, GotoTyped, FaultTyped DEF Upload
  <2>2. CASE ~Goto("abort")
    <3>1. /\ UNCHANGED used
          /\ sync' = [sync EXCEPT !.pc = "db_ready", !.file = sync.payload,
                                  !.payload = None, !.tries = 0]
      BY <2>2 DEF Upload
    <3> QED BY <1>1, <3>1 DEF LocalType, SyncType, Steps
  <2> QED BY <2>1, <2>2
<1>4. LocalType'
  BY <1>1, <1>3 DEF LocalType
<1>5. BackupSound'
  BY <1>3 DEF BackupSound
<1> QED BY <1>2, <1>3, <1>4, <1>5, IInvNext

\* handle_db_ready leaves the slave's database sound.
LEMMA ImportTyped ==
  ASSUME IInv, now' = now, sync.master \in Device, sync.slave \in Device, sync.file # None, Import
  PROVE  /\ hashes' \in Nat
         /\ ready' \in [Device -> [marker: Nat, own: Nat] \cup {None}]
         /\ db' \in [Device -> Db] /\ DbsSound'
<1> DEFINE d0 == merge_incoming_data(db[sync.slave], sync.file, now)
           d1 == verify_merge_integrity(d0, now)
           d2 == insert_sync_marker_db(d1, hashes', now, sync.slave, sync.master)
           d3 == insert_sync_marker_db(d2, sync.marker, now, sync.master, sync.slave)
<1>1. /\ hashes' = hashes + 1 /\ db' = [db EXCEPT ![sync.slave] = d3]
      /\ ready' = [ready EXCEPT ![sync.slave] = [marker |-> sync.marker, own |-> hashes']]
  BY DEF Import
<1>2. hashes' \in Nat /\ now \in Nat /\ sync.marker \in Nat /\ sync.file \in Payload
  BY <1>1 DEF IInv, TypeOK, SyncType
<1>3. Sound(db[sync.slave], now)
  BY DEF IInv, DbsSound
<1>4. Sound(d0, now)
  BY <1>2, <1>3, MergeSound
<1> HIDE DEF d0
<1>5. Sound(d1, now)
  BY <1>2, <1>4, VerifySound
<1> HIDE DEF d1
<1>6. Sound(d2, now)
  BY <1>2, <1>5, MarkerSound
<1> HIDE DEF d2
<1>7. Sound(d3, now)
  BY <1>2, <1>6, MarkerSound
<1> HIDE DEF d3
<1>8. ready' \in [Device -> [marker: Nat, own: Nat] \cup {None}]
  BY <1>1, <1>2 DEF IInv, TypeOK
<1> QED BY <1>1, <1>2, <1>7, <1>8, OneDbSound

\* Step 12 keeps the invariant, answered, repeated or failed.
LEMMA DbReadyKeepsIInv == ASSUME IInv, DbReady PROVE IInv'
<1>1. /\ LocalType /\ sync.pc = "db_ready" /\ used \in UsedType
      /\ sync.master \in Device /\ sync.slave \in Device
      /\ UNCHANGED <<now, frozen, busy>>
  BY TypeOKParts DEF IInv, DbReady, At, LocalType
<1> DEFINE Rest == /\ hashes' \in Nat
                   /\ ready' \in [Device -> [marker: Nat, own: Nat] \cup {None}]
                   /\ db' \in [Device -> Db] /\ DbsSound'
                   /\ used' \in UsedType
           Moved == /\ sync' \in SyncType /\ sync'.pc \in {"db_ready", "abort", "finish"}
                    /\ sync'.master \in Device /\ sync'.slave \in Device
<1>2. UNCHANGED <<db, ready, hashes>> /\ used' \in UsedType => Rest
  BY <1>1, SameDbSound DEF LocalType
<1>3. sync.file # None /\ Import /\ used' \in UsedType => Rest
  BY <1>1, ImportTyped
<1>4. ASSUME NEW file \in Payload \cup {None}, DbReadyError(file) PROVE Moved
  <2>1. /\ sync' = [sync EXCEPT !.file = file, !.tries = sync.tries + 1, !.pc = sync'.pc]
        /\ sync'.pc \in {"db_ready", "abort"}
    BY <1>1, <1>4 DEF DbReadyError, LocalType, SyncType
  <2>2. sync \in SyncType /\ sync.tries + 1 \in Nat
    BY <1>1 DEF LocalType, SyncType
  <2> QED BY <1>1, <2>1, <2>2, ZenonT(40) DEF SyncType, Steps
<1>5. sync.file \in Payload \cup {None}
  BY <1>1 DEF LocalType, SyncType
<1>6. Rest /\ Moved
  <2>1. CASE /\ Replayed /\ UNCHANGED <<db, ready, hashes, used>>
             /\ sync' = [sync EXCEPT !.pc = "finish", !.own = ready[sync.slave].own]
    <3>1. ready[sync.slave].own \in Nat
      BY <1>1, <2>1 DEF LocalType, Replayed
    <3>2. Moved
      BY <1>1, <2>1, <3>1 DEF LocalType, SyncType, Steps
    <3> QED BY <1>1, <1>2, <2>1, <3>2
  <2>2. CASE /\ sync.file # None /\ Import /\ UNCHANGED used
             /\ sync' = [sync EXCEPT !.pc = "finish", !.file = None, !.own = hashes']
    <3>1. Rest
      BY <1>1, <1>3, <2>2
    <3>2. Moved
      BY <1>1, <2>2, <3>1 DEF LocalType, SyncType, Steps
    <3> QED BY <3>1, <3>2
  <2>3. CASE sync.file # None /\ Fault /\ Import /\ DbReadyError(None)
    BY <1>3, <1>4, <2>3, FaultTyped
  <2>4. CASE DbReadyError(None) /\ UNCHANGED <<db, ready, hashes, used>>
    BY <1>1, <1>2, <1>4, <2>4
  <2>5. CASE Fault /\ DbReadyError(sync.file) /\ UNCHANGED <<db, ready, hashes>>
    BY <1>2, <1>4, <1>5, <2>5, FaultTyped
  <2> QED BY <2>1, <2>2, <2>3, <2>4, <2>5 DEF DbReady
<1>7. LocalType'
  BY <1>1, <1>6 DEF LocalType
<1>8. BackupSound'
  BY <1>6 DEF BackupSound
<1> QED BY <1>6, <1>7, <1>8, IInvNext

\* Storing the slave's marker keeps the invariant.
LEMMA FinishKeepsIInv == ASSUME IInv, Finish PROVE IInv'
<1> DEFINE e == insert_sync_marker_db(db[sync.master], sync.own, now, sync.slave, sync.master)
<1>1. /\ LocalType /\ sync.pc = "finish" /\ used \in UsedType
      /\ sync.master \in Device /\ sync.slave \in Device
      /\ UNCHANGED <<now, ready, hashes, used>> /\ Goto("unfreeze_peer")
      /\ frozen' = [frozen EXCEPT ![sync.master] = FALSE]
      /\ busy' = [busy EXCEPT ![sync.master] = FALSE]
  BY TypeOKParts DEF IInv, Finish, At, LocalType
<1>2. db' = [db EXCEPT ![sync.master] = e]
  BY DEF Finish
<1>3. Sound(e, now)
  <2>1. Sound(db[sync.master], now) /\ now \in Nat /\ sync.own \in Nat
    BY <1>1 DEF IInv, DbsSound, LocalType, SyncType
  <2> QED BY <1>1, <2>1, MarkerSound
<1> HIDE DEF e
<1>4. db' \in [Device -> Db] /\ DbsSound'
  BY <1>1, <1>2, <1>3, OneDbSound
<1>5. /\ sync' \in SyncType /\ sync'.pc = "unfreeze_peer"
      /\ sync'.master \in Device /\ sync'.slave \in Device
  BY <1>1, GotoTyped
<1>6. LocalType'
  BY <1>1, <1>5 DEF LocalType
<1>7. BackupSound'
  BY <1>5 DEF BackupSound
<1> QED BY <1>1, <1>4, <1>6, <1>7, IInvNext

\* POST /lan/unfreeze keeps the flags typed and the databases sound.
LEMMA PostUnfreezeTyped ==
  ASSUME IInv, now' = now, sync.master \in Device, sync.slave \in Device,
         NEW held \in BOOLEAN, PostUnfreeze(held)
  PROVE  /\ frozen' \in [Device -> BOOLEAN] /\ busy' \in [Device -> BOOLEAN]
         /\ used' \in UsedType /\ db' \in [Device -> Db] /\ DbsSound'
<1> DEFINE e == gc_tombstones(db[sync.slave], PeersOf(sync.slave))
<1>1. PICK arrives \in BOOLEAN :
        /\ IF arrives THEN UNCHANGED used ELSE Fault
        /\ frozen' = [frozen EXCEPT ![sync.master] = FALSE, ![sync.slave] = @ /\ ~arrives]
        /\ busy' = [busy EXCEPT ![sync.master] = held, ![sync.slave] = @ /\ ~arrives]
        /\ db' = IF arrives THEN [db EXCEPT ![sync.slave] = e] ELSE db
  BY DEF PostUnfreeze
<1>2. frozen' \in [Device -> BOOLEAN] /\ busy' \in [Device -> BOOLEAN]
  BY <1>1 DEF IInv, TypeOK
<1>3. used' \in UsedType
  BY <1>1, FaultTyped, TypeOKParts DEF IInv
<1>4. Sound(e, now)
  BY GcSound DEF IInv, DbsSound
<1> HIDE DEF e
<1>5. db' \in [Device -> Db] /\ DbsSound'
  BY <1>1, <1>4, OneDbSound, SameDbSound
<1> QED BY <1>2, <1>3, <1>5

\* Unfreezing the peer keeps the invariant.
LEMMA UnfreezePeerKeepsIInv == ASSUME IInv, UnfreezePeer PROVE IInv'
<1>1. /\ LocalType /\ sync.pc = "unfreeze_peer"
      /\ sync.master \in Device /\ sync.slave \in Device
      /\ UNCHANGED <<now, ready, hashes>> /\ Goto("gc") /\ PostUnfreeze(FALSE)
  BY TypeOKParts DEF IInv, UnfreezePeer, At, LocalType
<1>2. /\ frozen' \in [Device -> BOOLEAN] /\ busy' \in [Device -> BOOLEAN]
      /\ used' \in UsedType /\ db' \in [Device -> Db] /\ DbsSound'
  BY <1>1, PostUnfreezeTyped
<1>3. /\ sync' \in SyncType /\ sync'.pc = "gc"
      /\ sync'.master \in Device /\ sync'.slave \in Device
  BY <1>1, GotoTyped
<1>4. LocalType'
  BY <1>1, <1>2, <1>3 DEF LocalType
<1>5. BackupSound'
  BY <1>3 DEF BackupSound
<1> QED BY <1>2, <1>4, <1>5, IInvNext

\* No sync in flight is a state of the sync.
LEMMA NoSyncTyped == NoSync \in SyncType /\ NoSync.pc = "idle"
BY DEF NoSync, SyncType, Steps

\* Step 13 keeps the invariant.
LEMMA CompleteKeepsIInv == ASSUME IInv, Complete PROVE IInv'
<1> DEFINE e == gc_tombstones(db[sync.master], PeersOf(sync.master))
<1>1. /\ LocalType /\ sync.pc = "gc" /\ used \in UsedType
      /\ sync.master \in Device /\ sync.slave \in Device
      /\ UNCHANGED <<now, ready, hashes, used>>
      /\ frozen' = [frozen EXCEPT ![sync.master] = FALSE]
      /\ busy' = [busy EXCEPT ![sync.master] = FALSE]
      /\ sync' = [NoSync EXCEPT !.pc = "completed", !.quiet = sync.quiet,
                                !.master = sync.master, !.slave = sync.slave]
  BY TypeOKParts DEF IInv, Complete, At, LocalType
<1>2. db' = [db EXCEPT ![sync.master] = e]
  BY DEF Complete
<1>3. Sound(e, now)
  BY <1>1, GcSound DEF IInv, DbsSound
<1> HIDE DEF e
<1>4. db' \in [Device -> Db] /\ DbsSound'
  BY <1>1, <1>2, <1>3, OneDbSound
<1>5. sync.quiet \in BOOLEAN
  BY <1>1 DEF LocalType, SyncType
<1>6. sync' \in SyncType /\ sync'.pc = "completed"
  BY <1>1, <1>5 DEF NoSync, SyncType, Steps
<1>7. LocalType'
  BY <1>1, <1>6 DEF LocalType
<1>8. BackupSound'
  BY <1>6 DEF BackupSound
<1> QED BY <1>1, <1>4, <1>7, <1>8, IInvNext

\* The error arm keeps the invariant.
LEMMA AbortKeepsIInv == ASSUME IInv, Abort PROVE IInv'
<1> DEFINE again == sync.attempt < MaxRetries
           next == [NoSync EXCEPT !.pc = "negotiate", !.master = sync.master,
                      !.slave = sync.slave, !.force = sync.force,
                      !.attempt = sync.attempt + 1, !.quiet = sync.quiet]
<1>1. /\ LocalType /\ sync.pc = "abort"
      /\ sync.master \in Device /\ sync.slave \in Device
      /\ UNCHANGED <<now, ready, hashes>>
      /\ sync' = (IF again THEN next ELSE NoSync)
      /\ PostUnfreeze(busy[sync.master] /\ again)
  BY TypeOKParts DEF IInv, Abort, At, LocalType
<1>2. (busy[sync.master] /\ again) \in BOOLEAN
  OBVIOUS
<1>3. /\ frozen' \in [Device -> BOOLEAN] /\ busy' \in [Device -> BOOLEAN]
      /\ used' \in UsedType /\ db' \in [Device -> Db] /\ DbsSound'
  BY <1>1, <1>2, PostUnfreezeTyped
<1>4. /\ next \in SyncType /\ next.master \in Device /\ next.slave \in Device
      /\ next.pc = "negotiate"
  <2>1. /\ sync.force \in BOOLEAN /\ sync.attempt + 1 \in Nat /\ sync.quiet \in BOOLEAN
    BY <1>1 DEF LocalType, SyncType
  <2> QED BY <1>1, <2>1 DEF NoSync, SyncType, Steps
<1> HIDE DEF next, again
<1>5. /\ sync' \in SyncType /\ sync'.pc \in {"idle", "negotiate"}
      /\ sync'.pc # "idle" => sync'.master \in Device /\ sync'.slave \in Device
  BY <1>1, <1>4, NoSyncTyped
<1>6. LocalType'
  BY <1>1, <1>3, <1>5 DEF LocalType
<1>7. BackupSound'
  BY <1>5 DEF BackupSound
<1> QED BY <1>3, <1>6, <1>7, IInvNext

-----------------------------------------------------------------------------
(* The rest of the system. *)

\* A trigger keeps the invariant.
LEMMA StartSyncKeepsIInv ==
  ASSUME IInv, NEW m \in Device, NEW s \in Device, NEW force \in Forces, StartSync(m, s, force)
  PROVE  IInv'
<1>1. /\ LocalType /\ used \in UsedType /\ force \in BOOLEAN
      /\ UNCHANGED <<now, db, frozen, ready, hashes>>
      /\ used' = [used EXCEPT !.syncs = @ + 1]
      /\ busy' = [busy EXCEPT ![m] = TRUE]
      /\ sync' = [NoSync EXCEPT !.pc = "negotiate", !.master = m, !.slave = s, !.force = force]
  BY TypeOKParts, BoundAssumption DEF IInv, StartSync
<1>2. db' \in [Device -> Db] /\ DbsSound'
  BY <1>1, SameDbSound
<1>3. used' \in UsedType
  <2>1. used.syncs + 1 \in Nat
    BY <1>1 DEF UsedType
  <2> QED BY <1>1, <2>1 DEF UsedType
<1>4. /\ sync' \in SyncType /\ sync'.pc = "negotiate"
      /\ sync'.master \in Device /\ sync'.slave \in Device
  BY <1>1 DEF NoSync, SyncType, Steps
<1>5. LocalType'
  BY <1>1, <1>4 DEF LocalType
<1>6. BackupSound'
  BY <1>4 DEF BackupSound
<1> QED BY <1>2, <1>3, <1>5, <1>6, IInvNext

\* Later, what is sound stays sound.
LEMMA TickKeepsIInv == ASSUME IInv, Tick PROVE IInv'
<1>1. /\ LocalType /\ used \in UsedType /\ db \in [Device -> Db]
      /\ UNCHANGED <<db, frozen, busy, ready, sync, hashes, used>> /\ now' = now + 1
  BY TypeOKParts DEF IInv, Tick
<1>2. \A e : Sound(e, now) => Sound(e, now')
  <2> SUFFICES ASSUME NEW e, Sound(e, now) PROVE Sound(e, now')
    OBVIOUS
  <2>1. \A m \in e.markers : m.at \in Nat /\ m.at <= now
    BY DbFields DEF Sound, MarkersPast, Marker
  <2> QED BY <1>1, <2>1 DEF Sound, MarkersPast, LocalType
<1>3. DbsSound' /\ BackupSound'
  BY <1>1, <1>2 DEF IInv, DbsSound, BackupSound
<1>4. LocalType'
  BY <1>1 DEF LocalType
<1> QED BY <1>1, <1>3, <1>4, IInvNext

\* check_auto_unfreeze keeps the invariant.
LEMMA AutoUnfreezeKeepsIInv ==
  ASSUME IInv, NEW d \in Device, AutoUnfreeze(d)
  PROVE  IInv'
<1>1. /\ LocalType /\ used \in UsedType /\ frozen' = [frozen EXCEPT ![d] = FALSE]
      /\ UNCHANGED <<now, db, busy, ready, sync, hashes, used>>
  BY TypeOKParts DEF IInv, AutoUnfreeze
<1>2. db' \in [Device -> Db] /\ DbsSound'
  BY <1>1, SameDbSound
<1>3. LocalType' /\ BackupSound'
  BY <1>1 DEF IInv, LocalType, BackupSound
<1> QED BY <1>1, <1>2, <1>3, IInvNext

\* A restarted daemon keeps the invariant.
LEMMA RestartKeepsIInv ==
  ASSUME IInv, NEW d \in Device, Restart(d)
  PROVE  IInv'
<1>1. /\ LocalType /\ Fault /\ UNCHANGED <<now, db, hashes>>
      /\ frozen' = [frozen EXCEPT ![d] = FALSE]
      /\ busy' = [busy EXCEPT ![d] = FALSE]
      /\ ready' = [ready EXCEPT ![d] = None]
      /\ sync' = NoSync \/ sync' = sync
  BY TypeOKParts DEF IInv, Restart
<1>2. db' \in [Device -> Db] /\ DbsSound'
  BY <1>1, SameDbSound
<1>3. used' \in UsedType
  BY <1>1, FaultTyped
<1>4. LocalType' /\ BackupSound'
  BY <1>1, NoSyncTyped DEF IInv, LocalType, BackupSound
<1> QED BY <1>2, <1>3, <1>4, IInvNext

\* A stutter keeps the invariant.
LEMMA StutterKeepsIInv == ASSUME IInv, UNCHANGED vars PROVE IInv'
BY DEF IInv, TypeOK, DbsSound, BackupSound, vars

\* The machines start in the invariant.
LEMMA InitIInv == Init => IInv
<1> SUFFICES ASSUME Init PROVE IInv
  OBVIOUS
<1>1. /\ db \in StartDbs /\ now = 2 /\ sync = NoSync /\ hashes = 2
      /\ frozen = [d \in Device |-> FALSE] /\ busy = [d \in Device |-> FALSE]
      /\ ready = [d \in Device |-> None]
      /\ used = [ops |-> 0, syncs |-> 0, faults |-> 0, opAt |-> 1]
  BY DEF Init, StartTime, StartHashes
<1>2. db \in [Device -> Db] /\ DbsSound
  BY <1>1, StartAssumption DEF DbsSound, Sound, MarkersPast, StartTime
<1>3. used \in UsedType
  BY <1>1 DEF UsedType
<1>4. LocalType
  BY <1>1, NoSyncTyped DEF LocalType
<1>5. TypeOK
  BY <1>2, <1>3, <1>4, TypeOKParts
<1>6. BackupSound
  BY <1>1, NoSyncTyped DEF BackupSound
<1> QED BY <1>2, <1>5, <1>6 DEF IInv

\* Every step keeps the invariant.
LEMMA NextIInv == IInv /\ [Next]_vars => IInv'
<1> SUFFICES ASSUME IInv, [Next]_vars PROVE IInv'
  OBVIOUS
<1>1. CASE UNCHANGED vars
  BY <1>1, StutterKeepsIInv
<1>2. CASE Tick
  BY <1>2, TickKeepsIInv
<1>3. CASE Step
  BY <1>3, NegotiateKeepsIInv, FreezeKeepsIInv, PullKeepsIInv, BackupKeepsIInv, MergeKeepsIInv,
     RestoreBackupKeepsIInv, VerifyKeepsIInv, UploadKeepsIInv, DbReadyKeepsIInv, FinishKeepsIInv,
     UnfreezePeerKeepsIInv, CompleteKeepsIInv, AbortKeepsIInv DEF Step
<1>4. ASSUME NEW d \in Device, Command(d) PROVE IInv'
  BY <1>4, CommandIssues, IssueKeepsIInv DEF Issued
<1>5. ASSUME NEW d \in Device, AutoUnfreeze(d) \/ Restart(d) PROVE IInv'
  BY <1>5, AutoUnfreezeKeepsIInv, RestartKeepsIInv
<1>6. ASSUME NEW m \in Device, NEW s \in Device, NEW force \in Forces, StartSync(m, s, force)
      PROVE  IInv'
  BY <1>6, StartSyncKeepsIInv
<1> QED BY <1>1, <1>2, <1>3, <1>4, <1>5, <1>6 DEF Next

\* The invariant always holds.
LEMMA SpecIInv == Spec => []IInv
BY InitIInv, NextIInv, PTL DEF Spec

\* Whatever the machines do and whatever fails, the state keeps its type: the
\* payloads, exports and backups of a sync are there when a step needs them.
THEOREM TypeCorrect == Spec => []TypeOK
<1>1. IInv => TypeOK
  BY DEF IInv
<1> QED BY <1>1, SpecIInv, PTL

\* No merge, restored backup, dashboard command, crash or repeated request leaves a
\* reference to a row that is gone, or a blacklist that differs from the
\* excluded projects: for every number of machines, rows, attempts and faults.
THEOREM RefIntegrityTheorem == Spec => []RefIntegrity
<1>1. IInv => RefIntegrity
  BY DEF IInv, DbsSound, Sound, RefIntegrity
<1> QED BY <1>1, SpecIInv, PTL

-----------------------------------------------------------------------------
(***************************************************************************)
(* The hashes.  A marker is made with a new hash, so an export that has    *)
(* not been imported carries one that the slave cannot know.               *)
(***************************************************************************)

\* No marker of e is newer than the h-th hash.
Old(e, h) == \A m \in e.markers : m.hash <= h

\* The marker of an export that waits to be imported is unknown to the slave.
Awaited == \/ sync.pc = "upload"
           \/ sync.pc = "db_ready" /\ sync.file # None

Hashed ==
  /\ \A d \in Device : Old(db[d], hashes)
  /\ sync.pc \in {"merge", "verify"} => Old(sync.backup, hashes)
  /\ sync.marker <= hashes /\ sync.own <= hashes
  /\ \A d \in Device : ready[d] # None => ready[d].own <= hashes
  /\ sync.pc \notin {"idle", "completed"} => sync.master # sync.slave
  /\ Awaited => ~Known(db[sync.slave], sync.marker)

\* No hash is made and no marker is written.
SameMarkers ==
  /\ hashes' = hashes
  /\ \A d \in Device : db'[d].markers = db[d].markers /\ ready'[d] \in {ready[d], None}

\* Steps that write no marker keep what is known of the hashes.
LEMMA HashedSame ==
  ASSUME Hashed, SameMarkers,
         sync'.marker <= hashes, sync'.own <= hashes,
         sync'.pc \in {"idle", "completed"} \/ sync'.master # sync'.slave,
         sync'.pc \in {"merge", "verify"} => Old(sync'.backup, hashes),
         Awaited' => sync'.slave \in Device /\ ~Known(db[sync'.slave], sync'.marker)
  PROVE  Hashed'
<1>1. \A d \in Device : Old(db'[d], hashes')
  BY DEF Hashed, SameMarkers, Old
<1>2. \A d \in Device : ready'[d] # None => ready'[d].own <= hashes'
  BY DEF Hashed, SameMarkers
<1>3. Awaited' => ~Known(db'[sync'.slave], sync'.marker)
  BY DEF SameMarkers, Known
<1> QED BY <1>1, <1>2, <1>3 DEF Hashed, SameMarkers

\* What the types say of the hashes.
LEMMA HashTypes ==
  ASSUME IInv
  PROVE  /\ hashes \in Nat /\ sync.marker \in Nat /\ sync.own \in Nat /\ sync \in SyncType
         /\ db \in [Device -> Db] /\ ready \in [Device -> [marker: Nat, own: Nat] \cup {None}]
         /\ \A d \in Device : \A m \in db[d].markers : m.hash \in Nat
         /\ sync.pc \in {"merge", "verify"} => \A m \in sync.backup.markers : m.hash \in Nat
         /\ sync.pc \notin {"idle", "completed"} => sync.master \in Device /\ sync.slave \in Device
<1>1. \A e \in Db : \A m \in e.markers : m.hash \in Nat
  BY DEF Db, Marker
<1> QED BY <1>1 DEF IInv, TypeOK, SyncType

\* Outside the steps that write a marker, a sync only moves on, begins again or ends.
Moves ==
  \/ /\ sync'.marker = sync.marker /\ sync'.own = sync.own
     /\ sync'.master = sync.master /\ sync'.slave = sync.slave
     /\ \/ sync'.pc = sync.pc
        \/ sync'.pc \notin {"idle", "completed", "merge", "verify", "upload", "db_ready"}
           /\ sync.pc \notin {"idle", "completed"}
     /\ sync'.backup = sync.backup /\ (sync'.file = sync.file \/ sync'.file = None)
  \/ /\ sync'.marker = 0 /\ sync'.own = 0
     /\ \/ sync'.pc \in {"idle", "completed"}
        \/ sync'.pc = "negotiate" /\ sync'.master # sync'.slave

LEMMA MovesHash ==
  ASSUME IInv, Hashed, SameMarkers, Moves
  PROVE  Hashed'
<1>1. sync'.marker <= hashes /\ sync'.own <= hashes
  BY HashTypes DEF Moves, Hashed
<1>2. sync'.pc \in {"idle", "completed"} \/ sync'.master # sync'.slave
  BY DEF Moves, Hashed
<1>3. sync'.pc \in {"merge", "verify"} => Old(sync'.backup, hashes)
  BY DEF Moves, Hashed
<1>4. Awaited' => sync'.slave \in Device /\ ~Known(db[sync'.slave], sync'.marker)
  BY HashTypes DEF Moves, Hashed, Awaited
<1> QED BY <1>1, <1>2, <1>3, <1>4, HashedSame

\* A command writes no marker.
LEMMA CommandHash ==
  ASSUME IInv, Hashed, NEW d \in Device, Issued(d)
  PROVE  Hashed'
<1>1. PICK op, new : Keeps(db[d], new) /\ Issue(d, op, new)
  BY DEF Issued
<1>2. /\ hashes' = hashes /\ ready' = ready /\ db' = [db EXCEPT ![d] = new]
      /\ sync' = [sync EXCEPT !.quiet = FALSE] /\ new.markers = db[d].markers
  BY <1>1 DEF Issue, Keeps
<1>3. SameMarkers
  BY <1>2, HashTypes DEF SameMarkers
<1>4. Moves
  BY <1>2, HashTypes DEF Moves, SyncType
<1> QED BY <1>3, <1>4, MovesHash

\* Steps of the master that touch no database.
LEMMA QuietHash ==
  ASSUME IInv, Hashed, \/ Negotiate \/ Freeze \/ Pull \/ Backup \/ Upload
  PROVE  Hashed'
<1>1. SameMarkers /\ db' = db
  BY DEF SameMarkers, Negotiate, Freeze, Pull, Backup, Upload
<1>2. CASE Goto("abort") /\ sync.pc \notin {"idle", "completed"}
  <2>1. Moves
    BY <1>2, HashTypes DEF Moves, Goto, SyncType
  <2> QED BY <1>1, <2>1, MovesHash
<1>3. CASE Negotiate /\ ~Goto("abort")
  <2>1. sync.pc = "negotiate" /\ \E mode, since : sync' = [sync EXCEPT !.pc = "freeze", !.mode = mode, !.since = since]
    BY <1>3 DEF Negotiate, At
  <2>2. Moves
    BY <2>1, HashTypes DEF Moves, SyncType
  <2> QED BY <1>1, <2>2, MovesHash
<1>4. CASE Freeze /\ ~Goto("abort")
  <2>1. Moves
    BY <1>4, HashTypes DEF Freeze, At, Goto, Moves, SyncType
  <2> QED BY <1>1, <2>1, MovesHash
<1>5. CASE Pull /\ ~Goto("abort")
  <2>1. sync.pc = "pull" /\ \E data : sync' = [sync EXCEPT !.pc = "backup", !.payload = data]
    BY <1>5 DEF Pull, At
  <2>2. Moves
    BY <2>1, HashTypes DEF Moves, SyncType
  <2> QED BY <1>1, <2>2, MovesHash
<1>6. CASE Backup
  <2>1. /\ sync.pc = "backup" /\ sync' = [sync EXCEPT !.pc = "merge", !.backup = db[sync.master]]
        /\ sync.master \in Device
    BY <1>6, HashTypes DEF Backup, At
  <2>2. /\ sync'.pc = "merge" /\ sync'.backup = db[sync.master] /\ sync'.marker = sync.marker
        /\ sync'.own = sync.own /\ sync'.master = sync.master /\ sync'.slave = sync.slave
    BY <2>1, HashTypes DEF SyncType
  <2> QED BY <1>1, <2>1, <2>2, HashedSame DEF Hashed, Awaited
<1>7. CASE Upload /\ ~Goto("abort")
  <2>1. /\ sync.pc = "upload"
        /\ sync' = [sync EXCEPT !.pc = "db_ready", !.file = sync.payload, !.payload = None, !.tries = 0]
    BY <1>7 DEF Upload, At
  <2>2. /\ sync'.pc = "db_ready" /\ sync'.marker = sync.marker
        /\ sync'.own = sync.own /\ sync'.master = sync.master /\ sync'.slave = sync.slave
    BY <2>1, HashTypes DEF SyncType
  <2>3. ~Known(db[sync.slave], sync.marker) /\ sync.slave \in Device /\ sync.master # sync.slave
    BY <2>1, HashTypes DEF Hashed, Awaited
  <2> QED BY <1>1, <2>2, <2>3, HashedSame DEF Hashed
<1>8. sync.pc \notin {"idle", "completed"}
  BY DEF Negotiate, Freeze, Pull, Backup, Upload, At
<1> QED BY <1>2, <1>3, <1>4, <1>5, <1>6, <1>7, <1>8

\* A merge keeps the markers of the machine it runs on.
LEMMA MergeHash == ASSUME IInv, Hashed, Merge PROVE Hashed'
<1>1. /\ sync.pc = "merge" /\ hashes' = hashes /\ ready' = ready
      /\ db' = [db EXCEPT ![sync.master] = merge_incoming_data(db[sync.master], sync.payload, now)]
      /\ sync' = [sync EXCEPT !.pc = "verify", !.payload = None]
      /\ sync.master \in Device /\ sync.payload \in Payload /\ now \in Nat /\ db \in [Device -> Db]
  BY DEF Merge, At, IInv, TypeOK
<1>2. merge_incoming_data(db[sync.master], sync.payload, now).markers = db[sync.master].markers
  BY <1>1, MergeKeepsMarkers
<1>3. SameMarkers
  BY <1>1, <1>2 DEF SameMarkers
<1>4. /\ sync'.pc = "verify" /\ sync'.marker = sync.marker /\ sync'.own = sync.own
      /\ sync'.master = sync.master /\ sync'.slave = sync.slave /\ sync'.backup = sync.backup
  BY <1>1, HashTypes DEF SyncType
<1> QED BY <1>1, <1>3, <1>4, HashedSame DEF Hashed, Awaited

\* The backup holds no newer marker than the database it replaces may.
LEMMA RestoreHash == ASSUME IInv, Hashed, RestoreBackup PROVE Hashed'
<1>1. /\ sync.pc \in {"merge", "verify"} /\ hashes' = hashes /\ ready' = ready
      /\ db' = [db EXCEPT ![sync.master] = sync.backup] /\ Goto("abort")
      /\ sync.master \in Device /\ db \in [Device -> Db]
  BY DEF RestoreBackup, At, IInv, TypeOK
<1>2. /\ sync'.pc = "abort" /\ sync'.marker = sync.marker /\ sync'.own = sync.own
      /\ sync'.master = sync.master /\ sync'.slave = sync.slave
  BY <1>1, HashTypes DEF Goto, SyncType
<1>3. \A d \in Device : Old(db'[d], hashes)
  BY <1>1 DEF Hashed
<1> QED BY <1>1, <1>2, <1>3 DEF Hashed, Awaited

\* A marker is added to those the database holds.
LEMMA MarkerAdded ==
  ASSUME NEW e \in Db, NEW t \in Nat, NEW hash \in Nat, NEW dev \in Device, NEW peer \in Device
  PROVE  /\ insert_sync_marker_db(e, hash, t, dev, peer) \in Db
         /\ insert_sync_marker_db(e, hash, t, dev, peer).markers
              = e.markers \cup {[hash |-> hash, at |-> t, dev |-> dev, peer |-> peer]}
BY MarkerKeepsDb

\* The marker of the export is new, so the slave cannot know it.
LEMMA VerifyHash == ASSUME IInv, Hashed, Verify PROVE Hashed'
<1> DEFINE d1 == verify_merge_integrity(db[sync.master], now)
           d2 == insert_sync_marker_db(d1, hashes', now, sync.master, sync.slave)
<1>1. /\ sync.pc = "verify" /\ hashes' = hashes + 1 /\ ready' = ready
      /\ db' = [db EXCEPT ![sync.master] = d2]
      /\ sync' = [sync EXCEPT !.pc = "upload", !.backup = None, !.marker = hashes',
                              !.payload = build_full_export(d2)]
      /\ sync.master \in Device /\ sync.slave \in Device /\ sync.master # sync.slave
      /\ db \in [Device -> Db] /\ now \in Nat /\ hashes \in Nat
  BY HashTypes DEF Verify, At, IInv, TypeOK, Hashed
<1>2. /\ sync'.pc = "upload" /\ sync'.marker = hashes' /\ sync'.own = sync.own
      /\ sync'.master = sync.master /\ sync'.slave = sync.slave
  BY <1>1, HashTypes DEF SyncType
<1>3. d1.markers = db[sync.master].markers
  <2>1. PICK in \in Payload : TRUE
    BY <1>1, ExportTyped
  <2> QED BY <1>1, <2>1, MergeKeepsMarkers
<1>4. d1 \in Db
  BY <1>1, VerifySound DEF IInv, DbsSound, Sound
<1> HIDE DEF d1
<1>5. d2.markers = d1.markers \cup {[hash |-> hashes', at |-> now, dev |-> sync.master, peer |-> sync.slave]}
  <2>1. hashes' \in Nat /\ now \in Nat /\ sync.master \in Device /\ sync.slave \in Device
    BY <1>1
  <2> QED BY <1>4, <2>1, MarkerAdded, SMTT(30)
<1> HIDE DEF d2
<1>6. \A d \in Device : \A m \in db[d].markers : m.hash \in Nat /\ m.hash <= hashes
  BY HashTypes DEF Hashed, Old
<1>7. \A d \in Device : Old(db'[d], hashes')
  BY <1>1, <1>3, <1>5, <1>6 DEF Old
<1>8. ~Known(db'[sync.slave], hashes')
  <2>1. db'[sync.slave] = db[sync.slave]
    BY <1>1
  <2>2. \A m \in db[sync.slave].markers : m.hash # hashes'
    BY <1>1, <1>6
  <2> QED BY <2>1, <2>2 DEF Known
<1>9. sync'.marker <= hashes' /\ sync'.own <= hashes'
  BY <1>1, <1>2, HashTypes DEF Hashed
<1>10. \A d \in Device : ready'[d] # None => ready'[d].own <= hashes'
  <2>1. \A d \in Device : ready[d] # None => ready[d].own \in Nat /\ ready[d].own <= hashes
    BY HashTypes DEF Hashed
  <2> QED BY <1>1, <2>1
<1> QED BY <1>1, <1>2, <1>7, <1>8, <1>9, <1>10 DEF Hashed, Awaited

\* An import makes one new hash; its file is gone, or the sync moves on.
LEMMA ImportHash ==
  ASSUME IInv, Hashed, sync.pc = "db_ready", now' = now, sync.file # None, Import,
         sync'.master = sync.master, sync'.slave = sync.slave, sync'.marker = sync.marker,
         sync'.own \in {sync.own, hashes'},
         sync'.pc \in {"abort", "finish"} \/ (sync'.pc = "db_ready" /\ sync'.file = None)
  PROVE  Hashed'
<1> DEFINE d0 == merge_incoming_data(db[sync.slave], sync.file, now)
           d1 == verify_merge_integrity(d0, now)
           d2 == insert_sync_marker_db(d1, hashes', now, sync.slave, sync.master)
           d3 == insert_sync_marker_db(d2, sync.marker, now, sync.master, sync.slave)
<1>1. /\ hashes' = hashes + 1 /\ db' = [db EXCEPT ![sync.slave] = d3]
      /\ ready' = [ready EXCEPT ![sync.slave] = [marker |-> sync.marker, own |-> hashes']]
  BY DEF Import
<1>2. /\ hashes \in Nat /\ hashes' \in Nat /\ now \in Nat /\ sync.marker \in Nat
      /\ sync.file \in Payload /\ sync.master \in Device /\ sync.slave \in Device
      /\ db \in [Device -> Db] /\ sync.marker <= hashes
  BY <1>1, HashTypes DEF IInv, TypeOK, SyncType, Hashed
<1>3. d0.markers = db[sync.slave].markers /\ Sound(d0, now)
  BY <1>2, MergeKeepsMarkers, MergeSound DEF IInv, DbsSound
<1> HIDE DEF d0
<1>4. d1.markers = d0.markers /\ Sound(d1, now)
  <2>1. d0 \in Db
    BY <1>3 DEF Sound
  <2> QED BY <1>2, <1>3, <2>1, MergeKeepsMarkers, VerifySound
<1> HIDE DEF d1
<1>5. /\ d2 \in Db
      /\ d2.markers = d1.markers \cup {[hash |-> hashes', at |-> now, dev |-> sync.slave, peer |-> sync.master]}
  <2>1. d1 \in Db
    BY <1>4 DEF Sound
  <2>2. hashes' \in Nat /\ now \in Nat /\ sync.master \in Device /\ sync.slave \in Device
    BY <1>2
  <2> QED BY <2>1, <2>2, MarkerAdded
<1> HIDE DEF d2
<1>6. d3.markers = d2.markers \cup {[hash |-> sync.marker, at |-> now, dev |-> sync.master, peer |-> sync.slave]}
  BY <1>2, <1>5, MarkerAdded, SMTT(30)
<1> HIDE DEF d3
<1>7. \A d \in Device : \A m \in db[d].markers : m.hash \in Nat /\ m.hash <= hashes
  BY HashTypes DEF Hashed, Old
<1>8. \A d \in Device : Old(db'[d], hashes')
  BY <1>1, <1>2, <1>3, <1>4, <1>5, <1>6, <1>7 DEF Old
<1>9. \A d \in Device : ready'[d] # None => ready'[d].own <= hashes'
  <2>1. \A d \in Device : ready[d] # None => ready[d].own \in Nat /\ ready[d].own <= hashes
    BY HashTypes DEF Hashed
  <2> QED BY <1>1, <1>2, <2>1, HashTypes
<1>10. sync'.marker <= hashes' /\ sync'.own <= hashes'
  BY <1>1, <1>2, HashTypes DEF Hashed
<1> QED BY <1>8, <1>9, <1>10 DEF Hashed, Awaited

\* Step 12: an answer repeated, an import, or an error.
LEMMA DbReadyHash == ASSUME IInv, Hashed, DbReady PROVE Hashed'
<1>1. sync.pc = "db_ready" /\ sync \in SyncType /\ now' = now /\ sync.slave \in Device
  BY HashTypes DEF DbReady, At
<1>2. ASSUME NEW file, DbReadyError(file)
      PROVE  /\ sync'.master = sync.master /\ sync'.slave = sync.slave /\ sync'.marker = sync.marker
             /\ sync'.own = sync.own /\ sync'.file = file /\ sync'.pc \in {"db_ready", "abort"}
             /\ sync'.backup = sync.backup
  BY <1>1, <1>2 DEF DbReadyError, SyncType
<1>3. CASE /\ Replayed /\ UNCHANGED <<db, ready, hashes>>
           /\ sync' = [sync EXCEPT !.pc = "finish", !.own = ready[sync.slave].own]
  <2>1. ready[sync.slave].own <= hashes
    BY <1>1, <1>3 DEF Replayed, Hashed
  <2>2. /\ sync'.pc = "finish" /\ sync'.own = ready[sync.slave].own /\ sync'.marker = sync.marker
        /\ sync'.master = sync.master /\ sync'.slave = sync.slave
    BY <1>1, <1>3 DEF SyncType
  <2>3. SameMarkers
    BY <1>3 DEF SameMarkers
  <2> QED BY <1>1, <2>1, <2>2, <2>3, HashedSame DEF Hashed, Awaited
<1>4. CASE /\ sync.file # None /\ Import
           /\ sync' = [sync EXCEPT !.pc = "finish", !.file = None, !.own = hashes']
  <2>1. /\ sync'.pc = "finish" /\ sync'.own = hashes' /\ sync'.marker = sync.marker
        /\ sync'.master = sync.master /\ sync'.slave = sync.slave
    BY <1>1, <1>4 DEF SyncType
  <2> QED BY <1>1, <1>4, <2>1, ImportHash
<1>5. CASE sync.file # None /\ Import /\ DbReadyError(None)
  BY <1>1, <1>2, <1>5, ImportHash
<1>6. CASE UNCHANGED <<db, ready, hashes>> /\ (DbReadyError(None) \/ DbReadyError(sync.file))
  <2>1. Moves
    BY <1>1, <1>2, <1>6 DEF Moves
  <2>2. SameMarkers
    BY <1>6 DEF SameMarkers
  <2> QED BY <2>1, <2>2, MovesHash
<1> QED BY <1>3, <1>4, <1>5, <1>6 DEF DbReady

\* The slave's own marker is one that was made before.
LEMMA FinishHash == ASSUME IInv, Hashed, Finish PROVE Hashed'
<1> DEFINE e == insert_sync_marker_db(db[sync.master], sync.own, now, sync.slave, sync.master)
<1>1. /\ sync.pc = "finish" /\ hashes' = hashes /\ ready' = ready /\ db' = [db EXCEPT ![sync.master] = e]
      /\ Goto("unfreeze_peer") /\ sync.master \in Device /\ sync.slave \in Device
      /\ db \in [Device -> Db] /\ now \in Nat /\ sync.own \in Nat /\ sync.own <= hashes
  BY HashTypes DEF Finish, At, IInv, TypeOK, Hashed
<1>2. e.markers = db[sync.master].markers
                  \cup {[hash |-> sync.own, at |-> now, dev |-> sync.slave, peer |-> sync.master]}
  BY <1>1, MarkerKeepsDb, SMTT(30)
<1> HIDE DEF e
<1>3. \A d \in Device : Old(db'[d], hashes)
  BY <1>1, <1>2 DEF Hashed, Old
<1>4. /\ sync'.pc = "unfreeze_peer" /\ sync'.marker = sync.marker /\ sync'.own = sync.own
      /\ sync'.master = sync.master /\ sync'.slave = sync.slave
  BY <1>1, HashTypes DEF Goto, SyncType
<1> QED BY <1>1, <1>3, <1>4 DEF Hashed, Awaited

\* Collecting tombstones, here or on the peer, leaves the markers alone.
LEMMA EndHash ==
  ASSUME IInv, Hashed, UnfreezePeer \/ Complete \/ Abort
  PROVE  Hashed'
<1>1. sync.pc \in {"unfreeze_peer", "gc", "abort"} /\ hashes' = hashes /\ ready' = ready
      /\ sync.master \in Device /\ sync.slave \in Device /\ db \in [Device -> Db]
      /\ sync.master # sync.slave
  BY HashTypes DEF UnfreezePeer, Complete, Abort, At, Hashed
<1>2. \E d \in Device : db' \in {db, [db EXCEPT ![d] = gc_tombstones(db[d], PeersOf(d))]}
  BY <1>1 DEF UnfreezePeer, Complete, Abort, PostUnfreeze
<1>3. SameMarkers
  <2>1. PICK d \in Device : db' \in {db, [db EXCEPT ![d] = gc_tombstones(db[d], PeersOf(d))]}
    BY <1>2
  <2>2. gc_tombstones(db[d], PeersOf(d)).markers = db[d].markers
    BY <1>1 DEF gc_tombstones, Db
  <2> QED BY <1>1, <2>1, <2>2 DEF SameMarkers
<1>4. CASE UnfreezePeer
  <2>1. Moves
    BY <1>1, <1>4, HashTypes DEF UnfreezePeer, Goto, Moves, SyncType
  <2> QED BY <1>3, <2>1, MovesHash
<1>5. CASE Complete
  <2>1. Moves
    BY <1>5 DEF Complete, Moves, NoSync
  <2> QED BY <1>3, <2>1, MovesHash
<1>6. CASE Abort
  <2>1. Moves
    BY <1>1, <1>6 DEF Abort, Moves, NoSync
  <2> QED BY <1>3, <2>1, MovesHash
<1> QED BY <1>4, <1>5, <1>6

\* What happens outside a sync, and how one starts.
LEMMA OutsideHash ==
  ASSUME IInv, Hashed,
         \/ Tick \/ UNCHANGED vars
         \/ \E d \in Device : AutoUnfreeze(d) \/ Restart(d)
         \/ \E m, s \in Device, force \in Forces : StartSync(m, s, force)
  PROVE  Hashed'
<1>1. SameMarkers
  BY HashTypes DEF SameMarkers, Tick, vars, AutoUnfreeze, Restart, StartSync
<1>2. Moves
  <2>1. CASE UNCHANGED sync
    BY <2>1 DEF Moves
  <2>2. ASSUME NEW d \in Device, Restart(d)
        PROVE  Moves
    BY <2>2 DEF Restart, Moves, NoSync
  <2>3. ASSUME NEW m \in Device, NEW s \in Device, NEW force \in Forces, StartSync(m, s, force)
        PROVE  Moves
    BY <2>3 DEF StartSync, Moves, NoSync
  <2> QED BY <2>1, <2>2, <2>3 DEF Tick, vars, AutoUnfreeze
<1> QED BY <1>1, <1>2, MovesHash

\* What is known of the hashes always holds.
LEMMA SpecHashed == Spec => [](IInv /\ Hashed)
<1>1. Init => Hashed
  <2> SUFFICES ASSUME Init
               PROVE  Hashed
    OBVIOUS
  <2>1. \A d \in Device : Old(db[d], hashes)
    BY StartAssumption DEF Init, Old
  <2> QED BY <2>1 DEF Init, Hashed, NoSync, Awaited, StartHashes
<1>2. IInv /\ Hashed /\ [Next]_vars => Hashed'
  <2> SUFFICES ASSUME IInv, Hashed, [Next]_vars PROVE Hashed'
    OBVIOUS
  <2>1. CASE Step
    BY <2>1, QuietHash, MergeHash, RestoreHash, VerifyHash, DbReadyHash, FinishHash, EndHash DEF Step
  <2>2. ASSUME NEW d \in Device, Command(d) PROVE Hashed'
    BY <2>2, CommandIssues, CommandHash
  <2> QED BY <2>1, <2>2, OutsideHash DEF Next
<1> QED BY <1>1, <1>2, InitIInv, NextIInv, PTL DEF Spec

\* An export is imported at most once: however often db-ready is repeated after a
\* lost answer and whatever restarts in between, the slave that imports it does not
\* know its marker yet.
THEOREM ImportedOnceTheorem == Spec => ImportedOnce
<1>1. IInv /\ Hashed /\ [Next]_vars
        => [At("db_ready") /\ hashes' # hashes => ~Known(db[sync.slave], sync.marker)]_vars
  <2> SUFFICES ASSUME IInv, Hashed, [Next]_vars, At("db_ready"), hashes' # hashes
               PROVE  ~Known(db[sync.slave], sync.marker)
    OBVIOUS
  <2>1. DbReady
    <3>1. ASSUME NEW d \in Device, Command(d) PROVE FALSE
      BY <3>1, CommandIssues DEF Issued, Issue
    <3>2. ASSUME NEW d \in Device, AutoUnfreeze(d) \/ Restart(d) PROVE FALSE
      BY <3>2 DEF AutoUnfreeze, Restart
    <3>3. ASSUME NEW m \in Device, NEW s \in Device, NEW force \in Forces, StartSync(m, s, force)
          PROVE  FALSE
      BY <3>3 DEF StartSync
    <3>4. ~Tick /\ ~UNCHANGED vars
      BY DEF Tick, vars
    <3>5. Step
      BY <3>1, <3>2, <3>3, <3>4 DEF Next
    <3>6. ~Negotiate /\ ~Freeze /\ ~Pull /\ ~Backup /\ ~Merge /\ ~RestoreBackup
      BY DEF At, Negotiate, Freeze, Pull, Backup, Merge, RestoreBackup
    <3>7. ~Verify /\ ~Upload /\ ~Finish /\ ~UnfreezePeer /\ ~Complete /\ ~Abort
      BY DEF At, Verify, Upload, Finish, UnfreezePeer, Complete, Abort
    <3> QED BY <3>5, <3>6, <3>7 DEF Step
  <2>2. sync.pc = "db_ready" /\ sync.file # None
    BY <2>1 DEF DbReady, At
  <2> QED BY <2>2 DEF Hashed, Awaited
<1> QED BY <1>1, SpecHashed, PTL DEF Spec, ImportedOnce
=============================================================================
