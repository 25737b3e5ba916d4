-------------------------- MODULE SyncMergeProofs --------------------------
(***************************************************************************)
(* What the merge, the verification and the garbage collection preserve:   *)
(* the shape of the database and DbOK, for any database and any payload.   *)
(***************************************************************************)
EXTENDS SyncMerge, WellFoundedInduction, TLAPS

\* The fields of a database.
LEMMA DbFields ==
  ASSUME NEW db \in Db
  PROVE  /\ db.projects \in [Projects -> ProjectRow \cup {None}]
         /\ db.blacklist \in SUBSET Projects
         /\ db.apps \in [Apps -> AppRow \cup {None}]
         /\ db.sessions \in [Sessions -> SessionRow \cup {None}]
         /\ db.manuals \in [Manuals -> ManualRow \cup {None}]
         /\ db.tombs \in SUBSET Tomb
         /\ db.markers \in SUBSET Marker
BY DEF Db

\* The fields of a payload.
LEMMA PayloadFields ==
  ASSUME NEW in \in Payload
  PROVE  /\ in.projects \in [Projects -> ProjectRow \cup {None}]
         /\ in.apps \in [Apps -> AppRow \cup {None}]
         /\ in.sessions \in [Sessions -> SessionRow \cup {None}]
         /\ in.manuals \in [Manuals -> ManualRow \cup {None}]
         /\ in.tombs \in SUBSET Tomb
BY DEF Payload

\* No row is NULL.
LEMMA RowsAreNotNone ==
  /\ None \notin ProjectRow /\ None \notin AppRow /\ None \notin SessionRow
  /\ None \notin ManualRow /\ None \notin Projects
BY NoneAssumption DEF ProjectRow, AppRow, SessionRow, ManualRow, ProjectRef

RowSet == {AppRow, SessionRow, ManualRow}

\* A row with a new project and stamp is a row of the same table.
LEMMA RowFacts ==
  ASSUME NEW R \in RowSet
  PROVE  /\ None \notin R
         /\ \A r \in R : r.proj \in ProjectRef /\ r.ts \in Nat
         /\ \A r \in R, p \in ProjectRef, now \in Nat :
              Point(r, p, now) \in R /\ Point(r, p, now).proj = p
<1>1. CASE R = AppRow
  BY <1>1, RowsAreNotNone DEF AppRow, Point
<1>2. CASE R = SessionRow
  BY <1>2, RowsAreNotNone DEF SessionRow, Point
<1>3. CASE R = ManualRow
  BY <1>3, RowsAreNotNone DEF ManualRow, Point
<1> QED BY <1>1, <1>2, <1>3 DEF RowSet

\* Detach keeps a table a table and leaves no reference to a project that is gone.
LEMMA DetachFacts ==
  ASSUME NEW R \in RowSet, NEW rows, NEW k, rows[k] \in R \cup {None},
         NEW gone \in SUBSET Projects, NEW now \in Nat
  PROVE  /\ Detach(rows, k, gone, now) \in R \cup {None}
         /\ Detach(rows, k, gone, now) = None <=> rows[k] = None
         /\ rows[k] # None =>
              Detach(rows, k, gone, now).proj = IF rows[k].proj \in gone THEN None ELSE rows[k].proj
<1>1. CASE rows[k] = None
  BY <1>1, RowFacts DEF Detach
<1>2. CASE rows[k] # None /\ rows[k].proj \in gone
  <2>1. rows[k] \in R /\ None \in ProjectRef
    BY <1>2 DEF ProjectRef
  <2>2. Detach(rows, k, gone, now) = Point(rows[k], None, now)
    BY <1>2 DEF Detach
  <2> QED BY <1>2, <2>1, <2>2, RowFacts
<1>3. CASE rows[k] # None /\ rows[k].proj \notin gone
  BY <1>3, RowFacts DEF Detach
<1> QED BY <1>1, <1>2, <1>3

\* ClearMissing keeps a table a table and leaves no reference to a missing project.
LEMMA ClearMissingFacts ==
  ASSUME NEW R \in RowSet, NEW db, NEW rows, NEW k, rows[k] \in R \cup {None}, NEW now \in Nat
  PROVE  /\ ClearMissing(db, rows, k, now) \in R \cup {None}
         /\ ClearMissing(db, rows, k, now) = None <=> rows[k] = None
         /\ rows[k] # None => ~Missing(db, ClearMissing(db, rows, k, now).proj)
<1>1. CASE rows[k] = None
  BY <1>1, RowFacts DEF ClearMissing
<1>2. CASE rows[k] # None /\ Missing(db, rows[k].proj)
  <2>1. rows[k] \in R /\ None \in ProjectRef
    BY <1>2 DEF ProjectRef
  <2>2. ClearMissing(db, rows, k, now) = Point(rows[k], None, now)
    BY <1>2 DEF ClearMissing
  <2> QED BY <1>2, <2>1, <2>2, RowFacts DEF Missing
<1>3. CASE rows[k] # None /\ ~Missing(db, rows[k].proj)
  BY <1>3, RowFacts DEF ClearMissing
<1> QED BY <1>1, <1>2, <1>3
-----------------------------------------------------------------------------
(* Tombstones. *)

\* The tombstones delete projects that are there.
LEMMA DeletedProjectsAreProjects ==
  ASSUME NEW db, NEW F PROVE DeletedProjects(db, F) \in SUBSET Projects
BY DEF DeletedProjects

\* Sessions of a deleted application are deleted.
LEMMA CascadeToSessions ==
  ASSUME NEW db, NEW F, NEW now, NEW s \in Sessions, db.sessions[s] # None,
         AppOf[s] \in DeletedApps(db, F, now)
  PROVE  s \in DeletedSessions(db, F, now)
BY DEF DeletedSessions

\* Replaying the peer's tombstones leaves no reference behind.
LEMMA TombstonesKeepDb ==
  ASSUME NEW db \in Db, NEW in \in Payload, NEW now \in Nat
  PROVE  LET new == apply_tombstones(db, in, now)
         IN new \in Db /\ (DbOK(db) => DbOK(new))
<1> DEFINE F    == Fresh(db, in)
           gone == DeletedProjects(db, F)
           dA   == DeletedApps(db, F, now)
           dS   == DeletedSessions(db, F, now)
           dM   == DeletedManuals(db, F, now)
           P == [p \in Projects |-> IF p \in gone THEN None ELSE db.projects[p]]
           B == {p \in db.blacklist : ~(p \in gone /\ db.projects[p].excl)}
           A == [a \in Apps |-> IF a \in dA THEN None ELSE Detach(db.apps, a, gone, now)]
           S == [s \in Sessions |-> IF s \in dS THEN None ELSE Detach(db.sessions, s, gone, now)]
           M == [m \in Manuals |-> IF m \in dM THEN None ELSE Detach(db.manuals, m, gone, now)]
           new == apply_tombstones(db, in, now)
<1>1. new = [db EXCEPT !.projects = P, !.blacklist = B, !.apps = A, !.sessions = S,
                       !.manuals = M, !.tombs = db.tombs \cup F]
  BY DEF apply_tombstones
<1>2. F \in SUBSET Tomb /\ gone \in SUBSET Projects
  BY PayloadFields, DeletedProjectsAreProjects DEF Fresh
<1> HIDE DEF F, gone, dA, dS, dM
<1>3. \A a \in Apps : /\ Detach(db.apps, a, gone, now) \in AppRow \cup {None}
                      /\ Detach(db.apps, a, gone, now) = None <=> db.apps[a] = None
                      /\ db.apps[a] # None => Detach(db.apps, a, gone, now).proj =
                            IF db.apps[a].proj \in gone THEN None ELSE db.apps[a].proj
  <2> TAKE a \in Apps
  <2>1. db.apps[a] \in AppRow \cup {None} /\ AppRow \in RowSet
    BY DbFields DEF RowSet
  <2> QED BY <1>2, <2>1, DetachFacts
<1>4. \A s \in Sessions : /\ Detach(db.sessions, s, gone, now) \in SessionRow \cup {None}
                          /\ Detach(db.sessions, s, gone, now) = None <=> db.sessions[s] = None
                          /\ db.sessions[s] # None => Detach(db.sessions, s, gone, now).proj =
                                IF db.sessions[s].proj \in gone THEN None ELSE db.sessions[s].proj
  <2> TAKE s \in Sessions
  <2>1. db.sessions[s] \in SessionRow \cup {None} /\ SessionRow \in RowSet
    BY DbFields DEF RowSet
  <2> QED BY <1>2, <2>1, DetachFacts
<1>5. \A m \in Manuals : /\ Detach(db.manuals, m, gone, now) \in ManualRow \cup {None}
                         /\ Detach(db.manuals, m, gone, now) = None <=> db.manuals[m] = None
                         /\ db.manuals[m] # None => Detach(db.manuals, m, gone, now).proj =
                               IF db.manuals[m].proj \in gone THEN None ELSE db.manuals[m].proj
  <2> TAKE m \in Manuals
  <2>1. db.manuals[m] \in ManualRow \cup {None} /\ ManualRow \in RowSet
    BY DbFields DEF RowSet
  <2> QED BY <1>2, <2>1, DetachFacts
<1>6. new \in Db
  <2>1. /\ P \in [Projects -> ProjectRow \cup {None}] /\ B \in SUBSET Projects
        /\ A \in [Apps -> AppRow \cup {None}] /\ S \in [Sessions -> SessionRow \cup {None}]
        /\ M \in [Manuals -> ManualRow \cup {None}] /\ db.tombs \cup F \in SUBSET Tomb
    BY <1>2, <1>3, <1>4, <1>5, DbFields
  <2> HIDE DEF P, B, A, S, M, new
  <2> QED BY <1>1, <2>1 DEF Db
<1>7. ASSUME DbOK(db) PROVE DbOK(new)
  <2>1. /\ new.projects = P /\ new.blacklist = B /\ new.apps = A
        /\ new.sessions = S /\ new.manuals = M
    <3> HIDE DEF P, B, A, S, M, new
    <3> QED BY <1>1 DEF Db
  <2> HIDE DEF new
  <2>2. \A p : p # None /\ p \in Projects /\ ~Missing(db, p) /\ p \notin gone => ~Missing(new, p)
    BY <2>1 DEF Missing
  <2>3. ~Missing(new, None)
    BY DEF Missing
  <2>4. ASSUME NEW a \in Apps, new.apps[a] # None PROVE ~Missing(new, new.apps[a].proj)
    <3>1. /\ db.apps[a] # None /\ new.apps[a] = Detach(db.apps, a, gone, now)
          /\ ~Missing(db, db.apps[a].proj) /\ db.apps[a].proj \in ProjectRef
      BY <1>3, <1>7, <2>1, <2>4, DbFields, RowFacts DEF DbOK, ProjectRefsOK, RowSet
    <3> QED BY <1>3, <2>2, <2>3, <3>1 DEF ProjectRef
  <2>5. ASSUME NEW s \in Sessions, new.sessions[s] # None
        PROVE  ~Missing(new, new.sessions[s].proj)
    <3>1. /\ db.sessions[s] # None /\ new.sessions[s] = Detach(db.sessions, s, gone, now)
          /\ ~Missing(db, db.sessions[s].proj) /\ db.sessions[s].proj \in ProjectRef
      BY <1>4, <1>7, <2>1, <2>5, DbFields, RowFacts DEF DbOK, ProjectRefsOK, RowSet
    <3> QED BY <1>4, <2>2, <2>3, <3>1 DEF ProjectRef
  <2>6. ASSUME NEW m \in Manuals, new.manuals[m] # None
        PROVE  ~Missing(new, new.manuals[m].proj)
    <3>1. /\ db.manuals[m] # None /\ new.manuals[m] = Detach(db.manuals, m, gone, now)
          /\ ~Missing(db, db.manuals[m].proj) /\ db.manuals[m].proj \in ProjectRef
      BY <1>5, <1>7, <2>1, <2>6, DbFields, RowFacts DEF DbOK, ProjectRefsOK, RowSet
    <3> QED BY <1>5, <2>2, <2>3, <3>1 DEF ProjectRef
  <2>7. AppRefsOK(new)
    <3> SUFFICES ASSUME NEW s \in Sessions, new.sessions[s] # None
                 PROVE  new.apps[AppOf[s]] # None
      BY DEF AppRefsOK
    <3>1. db.sessions[s] # None /\ s \notin dS /\ AppOf[s] \in Apps
      BY <1>4, <2>1, KeyAssumption
    <3>2. AppOf[s] \notin dA
      BY <3>1, CascadeToSessions DEF dA, dS
    <3>3. db.apps[AppOf[s]] # None
      BY <1>7, <3>1 DEF DbOK, AppRefsOK
    <3> QED BY <1>3, <2>1, <3>1, <3>2, <3>3
  <2>8. BlacklistOK(new)
    <3>1. db.blacklist = {p \in Projects : db.projects[p] # None /\ db.projects[p].excl}
      BY <1>7 DEF DbOK, BlacklistOK
    <3> QED BY <2>1, <3>1 DEF BlacklistOK
  <2> QED BY <2>4, <2>5, <2>6, <2>7, <2>8 DEF DbOK, ProjectRefsOK
<1> HIDE DEF new
<1> QED BY <1>6, <1>7 DEF new
-----------------------------------------------------------------------------
(* Rows. *)

\* An incoming project replaces the local row, and the blacklist follows.
LEMMA MergeProjectsKeepsDb ==
  ASSUME NEW db \in Db, NEW in \in Payload
  PROVE  LET new == merge_projects(db, in)
         IN new \in Db /\ (DbOK(db) => DbOK(new))
<1> DEFINE taken == {p \in Projects : Takes(db, "projects", p, db.projects[p], in.projects[p])}
           P == [p \in Projects |-> IF p \in taken THEN in.projects[p] ELSE db.projects[p]]
           B == (db.blacklist \ {p \in taken : ~in.projects[p].excl})
                  \cup {p \in taken : in.projects[p].excl}
           new == merge_projects(db, in)
<1>1. new = [db EXCEPT !.projects = P, !.blacklist = B]
  BY DEF merge_projects
<1>2. taken \in SUBSET Projects /\ \A p \in taken : in.projects[p] # None
  BY DEF Takes
<1> HIDE DEF taken
<1>3. P \in [Projects -> ProjectRow \cup {None}] /\ B \in SUBSET Projects
  BY <1>2, DbFields, PayloadFields
<1>4. \A p \in Projects : db.projects[p] # None => P[p] # None
  BY <1>2
<1>5. ASSUME BlacklistOK(db)
      PROVE  B = {p \in Projects : P[p] # None /\ P[p].excl}
  BY <1>2, <1>5 DEF BlacklistOK
<1> HIDE DEF P, B, new
<1>6. new \in Db
  BY <1>1, <1>3 DEF Db
<1>7. /\ new.projects = P /\ new.blacklist = B /\ new.apps = db.apps
      /\ new.sessions = db.sessions /\ new.manuals = db.manuals
  BY <1>1 DEF Db
<1>8. ASSUME DbOK(db) PROVE DbOK(new)
  <2>1. \A p \in ProjectRef : ~Missing(db, p) => ~Missing(new, p)
    BY <1>4, <1>7 DEF Missing, ProjectRef
  <2>2. ProjectRefsOK(new)
    <3>1. /\ \A a \in Apps : db.apps[a] # None => db.apps[a].proj \in ProjectRef
          /\ \A s \in Sessions : db.sessions[s] # None => db.sessions[s].proj \in ProjectRef
          /\ \A m \in Manuals : db.manuals[m] # None => db.manuals[m].proj \in ProjectRef
      BY DbFields DEF AppRow, SessionRow, ManualRow
    <3> QED BY <1>7, <1>8, <2>1, <3>1 DEF DbOK, ProjectRefsOK
  <2>3. AppRefsOK(new)
    BY <1>7, <1>8 DEF DbOK, AppRefsOK
  <2>4. BlacklistOK(new)
    BY <1>5, <1>7, <1>8 DEF DbOK, BlacklistOK
  <2> QED BY <2>2, <2>3, <2>4 DEF DbOK
<1> QED BY <1>6, <1>8 DEF new

\* A reference taken from the peer is resolved, or the local one is kept.
LEMMA ResolveFacts ==
  ASSUME NEW db, NEW in, NEW p \in ProjectRef
  PROVE  Resolve(db, in, p) \in ProjectRef /\ ~Missing(db, Resolve(db, in, p))
BY DEF Resolve, Missing, ProjectRef

\* Coalesce refers to no missing project when its arguments refer to none.
LEMMA CoalesceFacts ==
  ASSUME NEW db, NEW x \in ProjectRef, NEW y \in ProjectRef, ~Missing(db, x), ~Missing(db, y)
  PROVE  Coalesce(x, y) \in ProjectRef /\ ~Missing(db, Coalesce(x, y))
BY DEF Coalesce

\* LocalProj returns a project or NULL.
LEMMA LocalProjFacts ==
  ASSUME NEW R \in RowSet, NEW row \in R \cup {None}
  PROVE  LocalProj(row) \in ProjectRef /\ (row # None => LocalProj(row) = row.proj)
BY RowFacts DEF LocalProj, ProjectRef

\* NULL never refers to a missing project.
LEMMA NoneNotMissing == \A db : ~Missing(db, None)
BY DEF Missing

\* merge_applications keeps the database typed and its references whole.
LEMMA MergeApplicationsKeepsDb ==
  ASSUME NEW db \in Db, NEW in \in Payload
  PROVE  LET new == merge_applications(db, in)
         IN new \in Db /\ (DbOK(db) => DbOK(new))
<1> DEFINE proj(a) == Coalesce(Resolve(db, in, in.apps[a].proj), LocalProj(db.apps[a]))
           takes(a) == Takes(db, "applications", a, db.apps[a], in.apps[a])
           A == [a \in Apps |-> IF takes(a) THEN [in.apps[a] EXCEPT !.proj = proj(a)]
                                ELSE db.apps[a]]
           new == merge_applications(db, in)
<1>1. new = [db EXCEPT !.apps = A]
  BY DEF merge_applications
<1>2. ASSUME NEW a \in Apps
      PROVE  /\ A[a] \in AppRow \cup {None}
             /\ db.apps[a] # None => A[a] # None
             /\ ProjectRefsOK(db) /\ A[a] # None => ~Missing(db, A[a].proj)
  <2>1. /\ in.apps[a] \in AppRow \cup {None} /\ db.apps[a] \in AppRow \cup {None}
        /\ AppRow \in RowSet
    BY DbFields, PayloadFields DEF RowSet
  <2>2. CASE ~takes(a)
    BY <2>1, <2>2 DEF ProjectRefsOK
  <2>3. CASE takes(a)
    <3>1. in.apps[a] \in AppRow
      BY <2>1, <2>3 DEF Takes
    <3>2. /\ Resolve(db, in, in.apps[a].proj) \in ProjectRef
          /\ ~Missing(db, Resolve(db, in, in.apps[a].proj))
      BY <2>1, <3>1, ResolveFacts, RowFacts
    <3>3. /\ LocalProj(db.apps[a]) \in ProjectRef
          /\ ProjectRefsOK(db) => ~Missing(db, LocalProj(db.apps[a]))
      BY <2>1, LocalProjFacts, NoneNotMissing DEF ProjectRefsOK, LocalProj
    <3>4. proj(a) \in ProjectRef /\ (ProjectRefsOK(db) => ~Missing(db, proj(a)))
      BY <3>2, <3>3, CoalesceFacts DEF Coalesce
    <3> HIDE DEF proj
    <3>5. [in.apps[a] EXCEPT !.proj = proj(a)] \in AppRow /\ [in.apps[a] EXCEPT !.proj = proj(a)].proj = proj(a)
      BY <3>1, <3>4 DEF AppRow
    <3> QED BY <2>3, <3>4, <3>5, RowsAreNotNone
  <2> QED BY <2>2, <2>3
<1> HIDE DEF proj, takes
<1>3. A \in [Apps -> AppRow \cup {None}]
  BY <1>2
<1> HIDE DEF A, new
<1>4. new \in Db
  BY <1>1, <1>3 DEF Db
<1>5. /\ new.projects = db.projects /\ new.blacklist = db.blacklist /\ new.apps = A
      /\ new.sessions = db.sessions /\ new.manuals = db.manuals
  BY <1>1 DEF Db
<1>6. ASSUME DbOK(db) PROVE DbOK(new)
  <2>1. ProjectRefsOK(new)
    BY <1>2, <1>5, <1>6 DEF DbOK, ProjectRefsOK, Missing
  <2>2. AppRefsOK(new)
    BY <1>2, <1>5, <1>6, KeyAssumption DEF DbOK, AppRefsOK
  <2> QED BY <1>5, <1>6, <2>1, <2>2 DEF DbOK, BlacklistOK
<1> QED BY <1>4, <1>6 DEF new
\* merge_sessions keeps the database typed and its references whole.
LEMMA MergeSessionsKeepsDb ==
  ASSUME NEW db \in Db, NEW in \in Payload
  PROVE  LET new == merge_sessions(db, in)
         IN new \in Db /\ (DbOK(db) => DbOK(new))
<1> DEFINE proj(s)  == Coalesce(Resolve(db, in, in.sessions[s].proj), LocalProj(db.sessions[s]))
           label(s) == SessionLabel(in, db.sessions[s], in.sessions[s], proj(s))
           takes(s) == /\ Takes(db, "sessions", s, db.sessions[s], in.sessions[s])
                       /\ in.apps[AppOf[s]] # None /\ db.apps[AppOf[s]] # None
           S == [s \in Sessions |->
                   IF takes(s) THEN [in.sessions[s] EXCEPT !.proj = proj(s), !.label = label(s)]
                   ELSE db.sessions[s]]
           new == merge_sessions(db, in)
<1>1. new = [db EXCEPT !.sessions = S]
  BY DEF merge_sessions
<1>2. ASSUME NEW s \in Sessions
      PROVE  /\ S[s] \in SessionRow \cup {None}
             /\ ProjectRefsOK(db) /\ S[s] # None => ~Missing(db, S[s].proj)
             /\ AppRefsOK(db) /\ S[s] # None => db.apps[AppOf[s]] # None
  <2>1. /\ in.sessions[s] \in SessionRow \cup {None} /\ db.sessions[s] \in SessionRow \cup {None}
        /\ SessionRow \in RowSet
    BY DbFields, PayloadFields DEF RowSet
  <2>2. CASE ~takes(s)
    BY <2>1, <2>2 DEF ProjectRefsOK, AppRefsOK
  <2>3. CASE takes(s)
    <3>1. in.sessions[s] \in SessionRow
      BY <2>1, <2>3 DEF Takes
    <3>2. /\ Resolve(db, in, in.sessions[s].proj) \in ProjectRef
          /\ ~Missing(db, Resolve(db, in, in.sessions[s].proj))
      BY <2>1, <3>1, ResolveFacts, RowFacts
    <3>3. /\ LocalProj(db.sessions[s]) \in ProjectRef
          /\ ProjectRefsOK(db) => ~Missing(db, LocalProj(db.sessions[s]))
      BY <2>1, LocalProjFacts, NoneNotMissing DEF ProjectRefsOK, LocalProj
    <3>4. proj(s) \in ProjectRef /\ (ProjectRefsOK(db) => ~Missing(db, proj(s)))
      BY <3>2, <3>3, CoalesceFacts DEF Coalesce
    <3>5. label(s) \in ProjectRef
      <4>1. /\ in.sessions[s].label \in ProjectRef /\ in.sessions[s].proj \in ProjectRef
            /\ db.sessions[s] # None => db.sessions[s].label \in ProjectRef
            /\ None \in ProjectRef
        BY <2>1, <3>1 DEF SessionRow, ProjectRef
      <4> HIDE DEF proj
      <4> QED BY <3>4, <4>1 DEF SessionLabel, Coalesce
    <3> HIDE DEF proj, label
    <3>6. LET q == [in.sessions[s] EXCEPT !.proj = proj(s), !.label = label(s)]
          IN q \in SessionRow /\ q.proj = proj(s)
      BY <3>1, <3>4, <3>5 DEF SessionRow
    <3> QED BY <2>3, <3>4, <3>6, RowsAreNotNone
  <2> QED BY <2>2, <2>3
<1> HIDE DEF proj, label, takes
<1>3. S \in [Sessions -> SessionRow \cup {None}]
  BY <1>2
<1> HIDE DEF S, new
<1>4. new \in Db
  BY <1>1, <1>3 DEF Db
<1>5. /\ new.projects = db.projects /\ new.blacklist = db.blacklist /\ new.apps = db.apps
      /\ new.sessions = S /\ new.manuals = db.manuals
  BY <1>1 DEF Db
<1>6. ASSUME DbOK(db) PROVE DbOK(new)
  <2>1. ProjectRefsOK(new)
    BY <1>2, <1>5, <1>6 DEF DbOK, ProjectRefsOK, Missing
  <2>2. AppRefsOK(new)
    BY <1>2, <1>5, <1>6 DEF DbOK, AppRefsOK
  <2> QED BY <1>5, <1>6, <2>1, <2>2 DEF DbOK, BlacklistOK
<1> QED BY <1>4, <1>6 DEF new

\* merge_manual_sessions keeps the database typed and its references whole.
LEMMA MergeManualSessionsKeepsDb ==
  ASSUME NEW db \in Db, NEW in \in Payload, NEW now \in Nat
  PROVE  LET new == merge_manual_sessions(db, in, now)
         IN new \in Db /\ (DbOK(db) => DbOK(new))
<1> DEFINE proj(m)  == Resolve(db, in, in.manuals[m].proj)
           takes(m) == Takes(db, "manual_sessions", m, db.manuals[m], in.manuals[m])
           ts(m)    == IF proj(m) # None /\ proj(m) # LocalProj(db.manuals[m]) THEN now
                       ELSE in.manuals[m].ts
           M == [m \in Manuals |->
                   IF takes(m) THEN [in.manuals[m] EXCEPT !.proj = proj(m), !.ts = ts(m)]
                   ELSE db.manuals[m]]
           new == merge_manual_sessions(db, in, now)
<1>1. new = [db EXCEPT !.manuals = M]
  BY DEF merge_manual_sessions
<1>2. ASSUME NEW m \in Manuals
      PROVE  /\ M[m] \in ManualRow \cup {None}
             /\ ProjectRefsOK(db) /\ M[m] # None => ~Missing(db, M[m].proj)
  <2>1. /\ in.manuals[m] \in ManualRow \cup {None} /\ db.manuals[m] \in ManualRow \cup {None}
        /\ ManualRow \in RowSet
    BY DbFields, PayloadFields DEF RowSet
  <2>2. CASE ~takes(m)
    BY <2>1, <2>2 DEF ProjectRefsOK
  <2>3. CASE takes(m)
    <3>1. in.manuals[m] \in ManualRow
      BY <2>1, <2>3 DEF Takes
    <3>2. proj(m) \in ProjectRef /\ ~Missing(db, proj(m))
      BY <2>1, <3>1, ResolveFacts, RowFacts
    <3>3. ts(m) \in Nat
      BY <2>1, <3>1, RowFacts
    <3> HIDE DEF proj, ts
    <3>4. LET q == [in.manuals[m] EXCEPT !.proj = proj(m), !.ts = ts(m)]
          IN q \in ManualRow /\ q.proj = proj(m)
      BY <3>1, <3>2, <3>3 DEF ManualRow
    <3> QED BY <2>3, <3>2, <3>4, RowsAreNotNone
  <2> QED BY <2>2, <2>3
<1> HIDE DEF proj, ts, takes
<1>3. M \in [Manuals -> ManualRow \cup {None}]
  BY <1>2
<1> HIDE DEF M, new
<1>4. new \in Db
  BY <1>1, <1>3 DEF Db
<1>5. /\ new.projects = db.projects /\ new.blacklist = db.blacklist /\ new.apps = db.apps
      /\ new.sessions = db.sessions /\ new.manuals = M
  BY <1>1 DEF Db
<1>6. ASSUME DbOK(db) PROVE DbOK(new)
  <2>1. ProjectRefsOK(new)
    BY <1>2, <1>5, <1>6 DEF DbOK, ProjectRefsOK, Missing
  <2> QED BY <1>5, <1>6, <2>1 DEF DbOK, AppRefsOK, BlacklistOK
<1> QED BY <1>4, <1>6 DEF new

\* The whole merge, whatever the peer sends.
THEOREM MergeKeepsDb ==
  ASSUME NEW db \in Db, NEW in \in Payload, NEW now \in Nat
  PROVE  LET new == merge_incoming_data(db, in, now)
         IN new \in Db /\ (DbOK(db) => DbOK(new))
<1> DEFINE d1 == apply_tombstones(db, in, now)
           d2 == merge_projects(d1, in)
           d3 == merge_applications(d2, in)
           d4 == merge_sessions(d3, in)
           d5 == merge_manual_sessions(d4, in, now)
<1>1. d1 \in Db /\ (DbOK(db) => DbOK(d1))
  BY TombstonesKeepDb
<1> HIDE DEF d1
<1>2. d2 \in Db /\ (DbOK(d1) => DbOK(d2))
  BY <1>1, MergeProjectsKeepsDb
<1> HIDE DEF d2
<1>3. d3 \in Db /\ (DbOK(d2) => DbOK(d3))
  BY <1>2, MergeApplicationsKeepsDb
<1> HIDE DEF d3
<1>4. d4 \in Db /\ (DbOK(d3) => DbOK(d4))
  BY <1>3, MergeSessionsKeepsDb
<1> HIDE DEF d4
<1>5. d5 \in Db /\ (DbOK(d4) => DbOK(d5))
  BY <1>4, MergeManualSessionsKeepsDb
<1> QED BY <1>1, <1>2, <1>3, <1>4, <1>5 DEF merge_incoming_data, d1, d2, d3, d4, d5

-----------------------------------------------------------------------------
(* Verification, garbage collection, markers, exports. *)

\* verify_merge_integrity restores the references of any database, and keeps the rest.
THEOREM VerifyRestoresRefs ==
  ASSUME NEW db \in Db, NEW now \in Nat
  PROVE  LET new == verify_merge_integrity(db, now)
         IN /\ new \in Db /\ ProjectRefsOK(new) /\ AppRefsOK(new)
            /\ BlacklistOK(db) => BlacklistOK(new)
<1> DEFINE re == [s \in Sessions |-> IF db.sessions[s] = None THEN None
                                     ELSE Reattach(db, db.sessions[s], now)]
           S == [s \in Sessions |-> IF db.apps[AppOf[s]] = None THEN None
                                    ELSE ClearMissing(db, re, s, now)]
           M == [m \in Manuals |-> ClearMissing(db, db.manuals, m, now)]
           A == [a \in Apps |-> ClearMissing(db, db.apps, a, now)]
           P == [p \in Projects |->
                   IF db.projects[p] # None /\ Missing(db, db.projects[p].merged)
                   THEN [db.projects[p] EXCEPT !.merged = None, !.ts = now]
                   ELSE db.projects[p]]
           new == verify_merge_integrity(db, now)
<1>1. new = [db EXCEPT !.sessions = S, !.manuals = M, !.apps = A, !.projects = P]
  BY DEF verify_merge_integrity
<1>2. ASSUME NEW s \in Sessions
      PROVE  /\ S[s] \in SessionRow \cup {None}
             /\ S[s] # None => ~Missing(db, S[s].proj) /\ db.apps[AppOf[s]] # None
  <2>1. re[s] \in SessionRow \cup {None} /\ SessionRow \in RowSet
    <3>1. CASE db.sessions[s] = None
      BY <3>1 DEF RowSet
    <3>2. CASE db.sessions[s] # None
      <4>1. db.sessions[s] \in SessionRow /\ db.sessions[s].label \in ProjectRef /\ SessionRow \in RowSet
        BY <3>2, DbFields DEF SessionRow, RowSet
      <4>2. Reattach(db, db.sessions[s], now) \in SessionRow
        BY <4>1, RowFacts DEF Reattach
      <4> QED BY <3>2, <4>1, <4>2
    <3> QED BY <3>1, <3>2
  <2>2. /\ ClearMissing(db, re, s, now) \in SessionRow \cup {None}
        /\ ClearMissing(db, re, s, now) = None <=> re[s] = None
        /\ re[s] # None => ~Missing(db, ClearMissing(db, re, s, now).proj)
    <3> HIDE DEF re
    <3> QED BY <2>1, ClearMissingFacts
  <2> HIDE DEF re
  <2> QED BY <2>2
<1>3. ASSUME NEW m \in Manuals
      PROVE  /\ M[m] \in ManualRow \cup {None}
             /\ M[m] # None => ~Missing(db, M[m].proj)
  <2>1. db.manuals[m] \in ManualRow \cup {None} /\ ManualRow \in RowSet
    BY DbFields DEF RowSet
  <2> QED BY <2>1, ClearMissingFacts
<1>4. ASSUME NEW a \in Apps
      PROVE  /\ A[a] \in AppRow \cup {None} /\ (A[a] = None <=> db.apps[a] = None)
             /\ A[a] # None => ~Missing(db, A[a].proj)
  <2>1. db.apps[a] \in AppRow \cup {None} /\ AppRow \in RowSet
    BY DbFields DEF RowSet
  <2> QED BY <2>1, ClearMissingFacts
<1>5. ASSUME NEW p \in Projects
      PROVE  /\ P[p] \in ProjectRow \cup {None} /\ (P[p] = None <=> db.projects[p] = None)
             /\ P[p] # None => P[p].excl = db.projects[p].excl
  <2>1. db.projects[p] \in ProjectRow \cup {None}
    BY DbFields
  <2>2. \A r \in ProjectRow : LET q == [r EXCEPT !.merged = None, !.ts = now]
                              IN q \in ProjectRow /\ q.excl = r.excl
    BY DEF ProjectRow, ProjectRef
  <2> QED BY <2>1, <2>2, RowsAreNotNone
<1> HIDE DEF re
<1>6. /\ S \in [Sessions -> SessionRow \cup {None}] /\ M \in [Manuals -> ManualRow \cup {None}]
      /\ A \in [Apps -> AppRow \cup {None}] /\ P \in [Projects -> ProjectRow \cup {None}]
  BY <1>2, <1>3, <1>4, <1>5
<1> HIDE DEF S, M, A, P, new
<1>7. new \in Db
  BY <1>1, <1>6 DEF Db
<1>8. /\ new.projects = P /\ new.blacklist = db.blacklist /\ new.apps = A
      /\ new.sessions = S /\ new.manuals = M
  BY <1>1 DEF Db
<1>9. \A p \in ProjectRef : ~Missing(db, p) => ~Missing(new, p)
  BY <1>5, <1>8 DEF Missing, ProjectRef
<1>10. ProjectRefsOK(new)
  <2>1. /\ \A a \in Apps : A[a] # None => A[a].proj \in ProjectRef
        /\ \A s \in Sessions : S[s] # None => S[s].proj \in ProjectRef
        /\ \A m \in Manuals : M[m] # None => M[m].proj \in ProjectRef
    BY <1>6 DEF AppRow, SessionRow, ManualRow
  <2> QED BY <1>2, <1>3, <1>4, <1>8, <1>9, <2>1 DEF ProjectRefsOK
<1>11. AppRefsOK(new)
  BY <1>2, <1>4, <1>8, KeyAssumption DEF AppRefsOK
<1>12. BlacklistOK(db) => BlacklistOK(new)
  BY <1>5, <1>8 DEF BlacklistOK
<1> QED BY <1>7, <1>10, <1>11, <1>12 DEF new

COROLLARY VerifyKeepsDb ==
  ASSUME NEW db \in Db, NEW now \in Nat
  PROVE  LET new == verify_merge_integrity(db, now)
         IN new \in Db /\ (DbOK(db) => DbOK(new))
BY VerifyRestoresRefs DEF DbOK
\* gc_tombstones touches nothing but tombstones.
LEMMA GcKeepsDb ==
  ASSUME NEW db \in Db, NEW peers
  PROVE  LET new == gc_tombstones(db, peers)
         IN /\ new \in Db /\ (DbOK(db) => DbOK(new))
            /\ new.markers = db.markers
<1> DEFINE T == {t \in db.tombs : ~BeforeCutoff(db, peers, t.at)}
           new == gc_tombstones(db, peers)
<1>1. new = [db EXCEPT !.tombs = T] /\ T \in SUBSET Tomb
  BY DbFields DEF gc_tombstones
<1> HIDE DEF T, new
<1>2. new \in Db /\ new.markers = db.markers
  BY <1>1 DEF Db
<1>3. /\ new.projects = db.projects /\ new.blacklist = db.blacklist /\ new.apps = db.apps
      /\ new.sessions = db.sessions /\ new.manuals = db.manuals
  BY <1>1 DEF Db
<1>4. DbOK(db) => DbOK(new)
  BY <1>3 DEF DbOK, ProjectRefsOK, AppRefsOK, BlacklistOK, Missing
<1> QED BY <1>2, <1>4 DEF new

\* insert_sync_marker_db touches nothing but markers.
LEMMA MarkerKeepsDb ==
  ASSUME NEW db \in Db, NEW hash \in Nat, NEW at \in Nat, NEW dev \in Device, NEW peer \in Device
  PROVE  LET new == insert_sync_marker_db(db, hash, at, dev, peer)
         IN /\ new \in Db /\ (DbOK(db) => DbOK(new))
            /\ new.markers = db.markers
                 \cup {[hash |-> hash, at |-> at, dev |-> dev, peer |-> peer]}
<1> DEFINE X == db.markers \cup {[hash |-> hash, at |-> at, dev |-> dev, peer |-> peer]}
           new == insert_sync_marker_db(db, hash, at, dev, peer)
<1>1. new = [db EXCEPT !.markers = X] /\ X \in SUBSET Marker
  BY DbFields DEF insert_sync_marker_db, Marker
<1> HIDE DEF X, new
<1>2. new \in Db /\ new.markers = X
  BY <1>1 DEF Db
<1>3. /\ new.projects = db.projects /\ new.blacklist = db.blacklist /\ new.apps = db.apps
      /\ new.sessions = db.sessions /\ new.manuals = db.manuals
  BY <1>1 DEF Db
<1>4. DbOK(db) => DbOK(new)
  BY <1>3 DEF DbOK, ProjectRefsOK, AppRefsOK, BlacklistOK, Missing
<1> QED BY <1>2, <1>4 DEF X, new

\* An export of a database is a payload.
LEMMA ExportTyped ==
  ASSUME NEW db \in Db, NEW since
  PROVE  build_delta_for_pull(db, since) \in Payload
<1>1. /\ Since(db.sessions, Sessions, since) \in [Sessions -> SessionRow \cup {None}]
      /\ Since(db.manuals, Manuals, since) \in [Manuals -> ManualRow \cup {None}]
  BY DbFields DEF Since
<1> QED BY <1>1, DbFields DEF build_delta_for_pull, Payload

\* Neither the merge nor the verification touches the history of syncs.
LEMMA MergeKeepsMarkers ==
  ASSUME NEW db \in Db, NEW in \in Payload, NEW now \in Nat
  PROVE  /\ merge_incoming_data(db, in, now).markers = db.markers
         /\ verify_merge_integrity(db, now).markers = db.markers
<1>1. \A e \in Db : /\ apply_tombstones(e, in, now).markers = e.markers
                    /\ merge_projects(e, in).markers = e.markers
                    /\ merge_applications(e, in).markers = e.markers
                    /\ merge_sessions(e, in).markers = e.markers
                    /\ merge_manual_sessions(e, in, now).markers = e.markers
                    /\ verify_merge_integrity(e, now).markers = e.markers
  <2> TAKE e \in Db
  <2>1. apply_tombstones(e, in, now).markers = e.markers
    BY DEF apply_tombstones, Db
  <2>2. merge_projects(e, in).markers = e.markers
    BY DEF merge_projects, Db
  <2>3. merge_applications(e, in).markers = e.markers
    BY DEF merge_applications, Db
  <2>4. merge_sessions(e, in).markers = e.markers
    BY DEF merge_sessions, Db
  <2>5. merge_manual_sessions(e, in, now).markers = e.markers
    BY DEF merge_manual_sessions, Db
  <2>6. verify_merge_integrity(e, now).markers = e.markers
    BY DEF verify_merge_integrity, Db
  <2> QED BY <2>1, <2>2, <2>3, <2>4, <2>5, <2>6
<1> DEFINE d1 == apply_tombstones(db, in, now)
           d2 == merge_projects(d1, in)
           d3 == merge_applications(d2, in)
           d4 == merge_sessions(d3, in)
<1>2. d1 \in Db
  BY TombstonesKeepDb
<1>3. d2 \in Db
  BY <1>2, MergeProjectsKeepsDb
<1>4. d3 \in Db
  BY <1>3, MergeApplicationsKeepsDb
<1>5. d4 \in Db
  BY <1>4, MergeSessionsKeepsDb
<1>6. merge_incoming_data(db, in, now) = merge_manual_sessions(d4, in, now)
  BY DEF merge_incoming_data
<1> QED BY <1>1, <1>2, <1>3, <1>4, <1>5, <1>6

-----------------------------------------------------------------------------
(* The newest marker. *)

\* A nonempty set of numbers up to n has a greatest element.
LEMMA MaxExists ==
  ASSUME NEW n \in Nat, NEW T \in SUBSET (0..n), T # {}
  PROVE  \E x \in T : \A y \in T : x >= y
<1> DEFINE U == {n - x : x \in T}
<1>1. U \subseteq Nat /\ U # {}
  <2>1. \A x \in T : n - x \in Nat
    OBVIOUS
  <2>2. PICK x \in T : TRUE
    OBVIOUS
  <2>3. n - x \in U
    OBVIOUS
  <2> QED BY <2>1, <2>3
<1>2. \E u \in U : \A v \in U : <<v, u>> \notin OpToRel(<, Nat)
  BY <1>1, WFMin, NatLessThanWellFounded
<1>3. PICK u \in U : \A v \in U : ~(v < u)
  BY <1>1, <1>2 DEF OpToRel
<1>4. PICK x \in T : u = n - x
  BY <1>3
<1>5. ASSUME NEW y \in T PROVE x >= y
  <2>1. n - y \in U /\ ~(n - y < n - x)
    BY <1>3, <1>4
  <2> QED BY <2>1
<1> QED BY <1>5

\* LatestMarker is the newest marker when the times of the markers are bounded.
LEMMA LatestMarkerFacts ==
  ASSUME NEW db \in Db, db.markers # {}, NEW n \in Nat, \A m \in db.markers : m.at <= n
  PROVE  /\ LatestMarker(db) \in db.markers /\ LatestMarker(db).at \in Nat
         /\ \A m \in db.markers : LatestMarker(db).at >= m.at
<1> DEFINE T == {m.at : m \in db.markers}
<1>1. \A m \in db.markers : m.at \in 0..n
  BY DbFields DEF Marker
<1>2. T \in SUBSET (0..n) /\ T # {}
  BY <1>1
<1> HIDE DEF T
<1>3. PICK x \in T : \A y \in T : x >= y
  BY <1>2, MaxExists
<1> USE DEF T
<1>4. \E m \in db.markers : \A k \in db.markers : m.at >= k.at
  BY <1>3
<1> QED BY <1>1, <1>4 DEF LatestMarker

-----------------------------------------------------------------------------
(* Deletions. *)

\* A row that is gone here and whose deletion is recorded here does not come back
\* from a peer that still has it, as long as the peer's row is not newer than the
\* deletion: the merge takes it neither as a new row nor as an update.
THEOREM MergeDoesNotResurrect ==
  ASSUME NEW db \in Db, NEW in \in Payload, NEW now \in Nat, NEW t \in db.tombs
  PROVE  LET new == merge_incoming_data(db, in, now)
         IN /\ \A p \in Projects :
                 /\ t.tab = "projects" /\ t.key = p /\ db.projects[p] = None
                 /\ in.projects[p] # None => in.projects[p].ts <= t.at
                 => new.projects[p] = None
            /\ \A a \in Apps :
                 /\ t.tab = "applications" /\ t.key = a /\ db.apps[a] = None
                 /\ in.apps[a] # None => in.apps[a].ts <= t.at
                 => new.apps[a] = None
            /\ \A s \in Sessions :
                 /\ t.tab = "sessions" /\ t.key = s /\ db.sessions[s] = None
                 /\ in.sessions[s] # None => in.sessions[s].ts <= t.at
                 => new.sessions[s] = None
            /\ \A m \in Manuals :
                 /\ t.tab = "manual_sessions" /\ t.key = m /\ db.manuals[m] = None
                 /\ in.manuals[m] # None => in.manuals[m].ts <= t.at
                 => new.manuals[m] = None
<1> DEFINE d1 == apply_tombstones(db, in, now)
           d2 == merge_projects(d1, in)
           d3 == merge_applications(d2, in)
           d4 == merge_sessions(d3, in)
           d5 == merge_manual_sessions(d4, in, now)
<1>1. /\ t \in d1.tombs
      /\ \A p \in Projects : db.projects[p] = None => d1.projects[p] = None
      /\ \A a \in Apps : db.apps[a] = None => d1.apps[a] = None
      /\ \A s \in Sessions : db.sessions[s] = None => d1.sessions[s] = None
      /\ \A m \in Manuals : db.manuals[m] = None => d1.manuals[m] = None
  BY DEF apply_tombstones, Detach, Db
<1>2. d1 \in Db
  BY TombstonesKeepDb
<1> HIDE DEF d1
<1>3. /\ d2.tombs = d1.tombs /\ d2.apps = d1.apps /\ d2.sessions = d1.sessions
      /\ d2.manuals = d1.manuals
      /\ \A p \in Projects : d1.projects[p] = None
           /\ (in.projects[p] # None => local_tombstone_covers(d1, "projects", p, in.projects[p].ts))
           => d2.projects[p] = None
  BY <1>2 DEF merge_projects, Takes, Db
<1>4. d2 \in Db
  BY <1>2, MergeProjectsKeepsDb
<1> HIDE DEF d2
<1>5. /\ d3.tombs = d2.tombs /\ d3.projects = d2.projects /\ d3.sessions = d2.sessions
      /\ d3.manuals = d2.manuals
      /\ \A a \in Apps : d2.apps[a] = None
           /\ (in.apps[a] # None => local_tombstone_covers(d2, "applications", a, in.apps[a].ts))
           => d3.apps[a] = None
  BY <1>4, SMTT(30) DEF merge_applications, Takes, Db
<1>6. d3 \in Db
  BY <1>4, MergeApplicationsKeepsDb
<1> HIDE DEF d3
<1>7. /\ d4.tombs = d3.tombs /\ d4.projects = d3.projects /\ d4.apps = d3.apps
      /\ d4.manuals = d3.manuals
      /\ \A s \in Sessions : d3.sessions[s] = None
           /\ (in.sessions[s] # None => local_tombstone_covers(d3, "sessions", s, in.sessions[s].ts))
           => d4.sessions[s] = None
  BY <1>6 DEF merge_sessions, Takes, Db
<1>8. d4 \in Db
  BY <1>6, MergeSessionsKeepsDb
<1> HIDE DEF d4
<1>9. /\ d5.projects = d4.projects /\ d5.apps = d4.apps /\ d5.sessions = d4.sessions
      /\ \A m \in Manuals : d4.manuals[m] = None
           /\ (in.manuals[m] # None => local_tombstone_covers(d4, "manual_sessions", m, in.manuals[m].ts))
           => d5.manuals[m] = None
  BY <1>8 DEF merge_manual_sessions, Takes, Db
<1>10. merge_incoming_data(db, in, now) = d5
  BY DEF merge_incoming_data, d1, d2, d3, d4
<1> HIDE DEF d5
<1>11. \A e, tab, key, ts :
         t \in e.tombs /\ t.tab = tab /\ t.key = key /\ t.at >= ts => local_tombstone_covers(e, tab, key, ts)
  BY DEF local_tombstone_covers
<1>12. /\ t.at \in Nat
       /\ \A p \in Projects : in.projects[p] # None => in.projects[p].ts \in Nat
       /\ \A a \in Apps : in.apps[a] # None => in.apps[a].ts \in Nat
       /\ \A s \in Sessions : in.sessions[s] # None => in.sessions[s].ts \in Nat
       /\ \A m \in Manuals : in.manuals[m] # None => in.manuals[m].ts \in Nat
  BY DbFields, PayloadFields DEF Tomb, ProjectRow, AppRow, SessionRow, ManualRow
<1>13. /\ t \in d2.tombs /\ t \in d3.tombs /\ t \in d4.tombs
  BY <1>1, <1>3, <1>5, <1>7
<1>14. ASSUME NEW p \in Projects, t.tab = "projects", t.key = p, db.projects[p] = None,
              in.projects[p] # None => in.projects[p].ts <= t.at
       PROVE  d5.projects[p] = None
  <2>1. in.projects[p] # None => local_tombstone_covers(d1, "projects", p, in.projects[p].ts)
    BY <1>1, <1>11, <1>12, <1>14
  <2> QED BY <1>1, <1>3, <1>5, <1>7, <1>9, <1>14, <2>1
<1>15. ASSUME NEW a \in Apps, t.tab = "applications", t.key = a, db.apps[a] = None,
              in.apps[a] # None => in.apps[a].ts <= t.at
       PROVE  d5.apps[a] = None
  <2>1. in.apps[a] # None => local_tombstone_covers(d2, "applications", a, in.apps[a].ts)
    BY <1>11, <1>12, <1>13, <1>15
  <2> QED BY <1>1, <1>3, <1>5, <1>7, <1>9, <1>15, <2>1
<1>16. ASSUME NEW s \in Sessions, t.tab = "sessions", t.key = s, db.sessions[s] = None,
              in.sessions[s] # None => in.sessions[s].ts <= t.at
       PROVE  d5.sessions[s] = None
  <2>1. in.sessions[s] # None => local_tombstone_covers(d3, "sessions", s, in.sessions[s].ts)
    BY <1>11, <1>12, <1>13, <1>16
  <2> QED BY <1>1, <1>3, <1>5, <1>7, <1>9, <1>16, <2>1
<1>17. ASSUME NEW m \in Manuals, t.tab = "manual_sessions", t.key = m, db.manuals[m] = None,
              in.manuals[m] # None => in.manuals[m].ts <= t.at
       PROVE  d5.manuals[m] = None
  <2>1. in.manuals[m] # None => local_tombstone_covers(d4, "manual_sessions", m, in.manuals[m].ts)
    BY <1>11, <1>12, <1>13, <1>17
  <2> QED BY <1>1, <1>3, <1>5, <1>7, <1>9, <1>17, <2>1
<1> QED BY <1>10, <1>14, <1>15, <1>16, <1>17
=============================================================================
