----------------------------- MODULE ProjectProofs -----------------------------
(***************************************************************************)
(* Which project time belongs to: names that can come back and time that   *)
(* keeps a home (ProjectTree), clients and the projects that name them     *)
(* (Clients), automatic assignment, its undoing and its training           *)
(* (AutoAssign), the cache that every report reads (ProjectTime).  For any *)
(* names, clients, sessions, days and bounds.                              *)
(***************************************************************************)
EXTENDS ProjectTree, Clients, AutoAssign, ProjectTime, FiniteSetTheorems, WellFoundedInduction, TLAPS


LEMMA ProjNotNone == NoName \notin ProjName
BY TreeAssumption

\* A row is no missing row.
LEMMA RowIsThere ==
  ASSUME NEW r \in TreeRows
  PROVE  r # NoProject
<1>1. DOMAIN r = {"excl", "frozen", "thawed", "into"}
  BY DEF TreeRows
<1>2. DOMAIN NoProject = {"into"}
  BY DEF NoProject
<1>3. "excl" \in DOMAIN r /\ "excl" \notin DOMAIN NoProject
  BY <1>1, <1>2
<1> QED BY <1>3

LEMMA HasTyped ==
  ASSUME TreeTypeOK, NEW n \in ProjName
  PROVE  Has(n) <=> row[n] \in TreeRows
BY RowIsThere DEF TreeTypeOK, Has

LEMMA FreshTyped == FreshProject \in TreeRows /\ FreshProject.into = NoName /\ ~FreshProject.excl
BY DEF FreshProject, TreeRows

\* What a change of the rows may do to the tree: old rows are kept in their place, or
\* a new one comes in, and no excluded row is restored.
Grows(new) ==
  \A n \in ProjName :
    \/ ~Has(n) /\ new[n] \in {NoProject, FreshProject}
    \/ Has(n) /\ new[n] \in TreeRows /\ new[n].into = row[n].into /\ new[n].excl = row[n].excl

LEMMA CreatedGrows ==
  ASSUME TreeTypeOK, NEW names
  PROVE  Grows(CreatedFor(names))
<1> SUFFICES ASSUME NEW n \in ProjName
             PROVE  \/ ~Has(n) /\ CreatedFor(names)[n] \in {NoProject, FreshProject}
                    \/ Has(n) /\ CreatedFor(names)[n] = row[n] /\ row[n] \in TreeRows
  BY DEF Grows
<1>1. CreatedFor(names)[n] = IF n \in names /\ ~ProjectExistsByName(n) THEN FreshProject ELSE row[n]
  BY DEF CreatedFor
<1>2. CASE Has(n)
  BY <1>1, <1>2, HasTyped DEF ProjectExistsByName
<1>3. CASE ~Has(n)
  BY <1>1, <1>3 DEF Has
<1> QED BY <1>2, <1>3

\* The row of n gets other marks, and stays where it is.
LEMMA MarksGrow ==
  ASSUME TreeTypeOK, NEW n \in ProjName, Has(n), NEW r \in TreeRows,
         r.into = row[n].into, r.excl = row[n].excl
  PROVE  Grows([row EXCEPT ![n] = r])
BY HasTyped DEF Grows, TreeTypeOK, Has

LEMMA GrowsTyped ==
  ASSUME TreeTypeOK, Grows(row'), row' = [n \in ProjName |-> row'[n]]
  PROVE  row' \in [ProjName -> TreeRows \cup {NoProject}]
BY FreshTyped DEF Grows

-----------------------------------------------------------------------------
(* The steps that neither exclude, nor restore, nor merge, nor delete. *)

Plain ==
  \/ \E n \in ProjName : CreateProject(n) \/ FreezeProject(n) \/ UnfreezeProject(n)
  \/ \E names \in SUBSET ProjName : ProjectsFromFolders(names) \/ AutoCreate(names)
  \/ \E stale, recent \in SUBSET ProjName : AutoFreeze(stale, recent)

LEMMA PlainGrows ==
  ASSUME TreeTypeOK, Plain
  PROVE  /\ Grows(row') /\ row' \in [ProjName -> TreeRows \cup {NoProject}]
         /\ UNCHANGED banned
<1>1. ASSUME NEW names, row' = CreatedFor(names)
      PROVE  Grows(row') /\ row' \in [ProjName -> TreeRows \cup {NoProject}]
  <2>1. Grows(row')
    BY <1>1, CreatedGrows
  <2>2. row' = [n \in ProjName |-> row'[n]]
    BY <1>1 DEF CreatedFor
  <2> QED BY <2>1, <2>2, GrowsTyped
<1>2. ASSUME NEW n \in ProjName, Has(n), NEW a \in BOOLEAN, NEW b \in BOOLEAN,
             row' = [row EXCEPT ![n] = [row[n] EXCEPT !.frozen = a, !.thawed = b]]
      PROVE  Grows(row') /\ row' \in [ProjName -> TreeRows \cup {NoProject}]
  <2> DEFINE r == [row[n] EXCEPT !.frozen = a, !.thawed = b]
  <2>1. r \in TreeRows /\ r.into = row[n].into /\ r.excl = row[n].excl
    <3>1. row[n] \in TreeRows
      BY <1>2, HasTyped
    <3> QED BY <3>1 DEF TreeRows
  <2> HIDE DEF r
  <2>2. Grows([row EXCEPT ![n] = r])
    BY <1>2, <2>1, MarksGrow
  <2>3. row' = [row EXCEPT ![n] = r]
    BY <1>2 DEF r
  <2> QED BY <2>1, <2>2, <2>3 DEF TreeTypeOK
<1>3. ASSUME NEW n \in ProjName, CreateProject(n)
      PROVE  Grows(row') /\ row' \in [ProjName -> TreeRows \cup {NoProject}] /\ UNCHANGED banned
  BY <1>1, <1>3 DEF CreateProject
<1>4. ASSUME NEW n \in ProjName, FreezeProject(n)
      PROVE  Grows(row') /\ row' \in [ProjName -> TreeRows \cup {NoProject}] /\ UNCHANGED banned
  <2>1. CASE row[n].excl
    <3>1. row' = row
      BY <1>4, <2>1 DEF FreezeProject
    <3>2. Grows(row)
      BY HasTyped DEF Grows, Has
    <3> QED BY <1>4, <3>1, <3>2 DEF FreezeProject, TreeTypeOK
  <2>2. CASE ~row[n].excl
    <3>1. row' = [row EXCEPT ![n] = [row[n] EXCEPT !.frozen = TRUE, !.thawed = FALSE]]
      BY <1>4, <2>2, HasTyped DEF FreezeProject, TreeTypeOK, TreeRows
    <3> QED BY <1>2, <1>4, <3>1 DEF FreezeProject
  <2> QED BY <2>1, <2>2
<1>5. ASSUME NEW n \in ProjName, UnfreezeProject(n)
      PROVE  Grows(row') /\ row' \in [ProjName -> TreeRows \cup {NoProject}] /\ UNCHANGED banned
  <2>1. row' = [row EXCEPT ![n] = [row[n] EXCEPT !.frozen = FALSE, !.thawed = TRUE]]
    BY <1>5, HasTyped DEF UnfreezeProject, TreeTypeOK, TreeRows
  <2> QED BY <1>2, <1>5, <2>1 DEF UnfreezeProject
<1>6. ASSUME NEW names \in SUBSET ProjName, ProjectsFromFolders(names) \/ AutoCreate(names)
      PROVE  Grows(row') /\ row' \in [ProjName -> TreeRows \cup {NoProject}] /\ UNCHANGED banned
  BY <1>1, <1>6 DEF ProjectsFromFolders, AutoCreate
<1>7. ASSUME NEW stale \in SUBSET ProjName, NEW recent \in SUBSET ProjName,
             AutoFreeze(stale, recent)
      PROVE  Grows(row') /\ row' \in [ProjName -> TreeRows \cup {NoProject}] /\ UNCHANGED banned
  <2> DEFINE thawed(n) == row[n].thawed /\ (row[n].excl \/ n \in recent)
             freezes(n) == n \in stale /\ MayCollect(n) /\ ~thawed(n)
             r(n) == [row[n] EXCEPT !.frozen = row[n].frozen \/ freezes(n),
                                    !.thawed = thawed(n) /\ ~freezes(n)]
  <2>1. row' = [n \in ProjName |-> IF ~Has(n) THEN NoProject ELSE r(n)] /\ UNCHANGED banned
    BY <1>7 DEF AutoFreeze
  <2>2. ASSUME NEW n \in ProjName, Has(n)
        PROVE  r(n) \in TreeRows /\ r(n).into = row[n].into /\ r(n).excl = row[n].excl
    <3>1. row[n] \in TreeRows
      BY <2>2, HasTyped
    <3> DEFINE a == row[n].frozen \/ freezes(n)
               b == thawed(n) /\ ~freezes(n)
    <3>2. a \in BOOLEAN /\ b \in BOOLEAN
      BY <3>1 DEF TreeRows
    <3>3. r(n) = [row[n] EXCEPT !.frozen = a, !.thawed = b]
      OBVIOUS
    <3> HIDE DEF a, b, r
    <3>4. /\ [row[n] EXCEPT !.frozen = a, !.thawed = b] \in TreeRows
          /\ [row[n] EXCEPT !.frozen = a, !.thawed = b].into = row[n].into
          /\ [row[n] EXCEPT !.frozen = a, !.thawed = b].excl = row[n].excl
      BY <3>1, <3>2 DEF TreeRows
    <3> QED BY <3>3, <3>4
  <2> HIDE DEF r
  <2>3. Grows(row')
    BY <2>1, <2>2 DEF Grows
  <2>4. row' \in [ProjName -> TreeRows \cup {NoProject}]
    BY <2>1, <2>2
  <2> QED BY <2>1, <2>3, <2>4
<1> QED BY <1>3, <1>4, <1>5, <1>6, <1>7 DEF Plain

-----------------------------------------------------------------------------
(* The other changes of rows. *)

Tables == [ProjName -> TreeRows \cup {NoProject}]

\* The repair of references keeps every row and its exclusion, and leaves no stage
\* without its parent.
LEMMA RepairedKeeps ==
  ASSUME NEW rows \in Tables
  PROVE  /\ Repaired(rows) \in Tables
         /\ \A n \in ProjName :
              /\ (Repaired(rows)[n] = NoProject) <=> (rows[n] = NoProject)
              /\ rows[n] # NoProject =>
                   /\ Repaired(rows)[n].excl = rows[n].excl
                   /\ Repaired(rows)[n].into # NoName =>
                        /\ Repaired(rows)[n].into = rows[n].into
                        /\ rows[rows[n].into] # NoProject
<1> SUFFICES ASSUME NEW n \in ProjName
             PROVE  /\ Repaired(rows)[n] \in TreeRows \cup {NoProject}
                    /\ (Repaired(rows)[n] = NoProject) <=> (rows[n] = NoProject)
                    /\ rows[n] # NoProject =>
                         /\ Repaired(rows)[n].excl = rows[n].excl
                         /\ Repaired(rows)[n].into # NoName =>
                              /\ Repaired(rows)[n].into = rows[n].into
                              /\ rows[rows[n].into] # NoProject
  BY DEF Repaired, Tables
<1>1. Repaired(rows)[n] = IF rows[n] # NoProject /\ rows[n].into # NoName /\ rows[rows[n].into] = NoProject
                          THEN [rows[n] EXCEPT !.into = NoName] ELSE rows[n]
  BY DEF Repaired
<1>2. CASE rows[n] = NoProject
  BY <1>1, <1>2
<1>3. CASE rows[n] # NoProject /\ rows[n].into # NoName /\ rows[rows[n].into] = NoProject
  <2>1. rows[n] \in TreeRows
    BY <1>3 DEF Tables
  <2>2. /\ [rows[n] EXCEPT !.into = NoName] \in TreeRows
        /\ [rows[n] EXCEPT !.into = NoName].into = NoName
        /\ [rows[n] EXCEPT !.into = NoName].excl = rows[n].excl
    BY <2>1 DEF TreeRows
  <2> QED BY <1>1, <1>3, <2>2, RowIsThere
<1>4. CASE rows[n] # NoProject /\ ~(rows[n].into # NoName /\ rows[rows[n].into] = NoProject)
  BY <1>1, <1>4 DEF Tables
<1> QED BY <1>2, <1>3, <1>4

\* What the deletion, the exclusion, the merge, the unmerging and a sync make of the rows.
LEMMA MergedTyped ==
  ASSUME TreeTypeOK, NEW s \in ProjName, NEW t \in ProjName, Has(s)
  PROVE  /\ MergedRows(s, t) \in Tables
         /\ \A n \in ProjName : (MergedRows(s, t)[n] = NoProject) <=> ~Has(n)
         /\ \A n \in ProjName : Has(n) =>
              /\ MergedRows(s, t)[n].into = IF n = s \/ row[n].into = s THEN t ELSE row[n].into
              /\ MergedRows(s, t)[n].excl = (n = s \/ row[n].excl)
              /\ n # s => MergedRows(s, t)[n].frozen = row[n].frozen
<1> SUFFICES ASSUME NEW n \in ProjName
             PROVE  /\ MergedRows(s, t)[n] \in TreeRows \cup {NoProject}
                    /\ (MergedRows(s, t)[n] = NoProject) <=> ~Has(n)
                    /\ Has(n) =>
                         /\ MergedRows(s, t)[n].into = IF n = s \/ row[n].into = s THEN t ELSE row[n].into
                         /\ MergedRows(s, t)[n].excl = (n = s \/ row[n].excl)
                         /\ n # s => MergedRows(s, t)[n].frozen = row[n].frozen
  BY DEF MergedRows, Tables
<1>1. MergedRows(s, t)[n] =
        IF n = s THEN [row[n] EXCEPT !.into = t, !.excl = TRUE]
        ELSE IF n \in Stages(s) THEN [row[n] EXCEPT !.into = t] ELSE row[n]
  BY DEF MergedRows
<1>2. Has(n) => row[n] \in TreeRows
  BY HasTyped
<1>3. CASE n = s
  <2> DEFINE q == [row[n] EXCEPT !.into = t, !.excl = TRUE]
  <2>1. q \in TreeRows /\ q.into = t /\ q.excl = TRUE
    BY <1>2, <1>3 DEF TreeRows
  <2>2. MergedRows(s, t)[n] = q
    BY <1>1, <1>3
  <2> HIDE DEF q
  <2> QED BY <1>3, <2>1, <2>2, RowIsThere
<1>4. CASE n # s /\ n \in Stages(s)
  <2>1. Has(n) /\ row[n].into = s
    BY <1>4 DEF Stages
  <2> DEFINE q == [row[n] EXCEPT !.into = t]
  <2>2. /\ q \in TreeRows /\ q.into = t /\ q.excl = row[n].excl /\ q.frozen = row[n].frozen
        /\ row[n].excl \in BOOLEAN
    BY <1>2, <2>1 DEF TreeRows
  <2>3. MergedRows(s, t)[n] = q
    BY <1>1, <1>4
  <2> HIDE DEF q
  <2> QED BY <1>4, <2>1, <2>2, <2>3, RowIsThere
<1>5. CASE n # s /\ n \notin Stages(s)
  <2>1. Has(n) => row[n].into # s /\ row[n].excl \in BOOLEAN
    BY <1>2, <1>5 DEF Stages, TreeRows
  <2> QED BY <1>1, <1>2, <1>5, <2>1 DEF Has, TreeTypeOK
<1> QED BY <1>3, <1>4, <1>5, SMTT(30)

\* A row that is replaced.
LEMMA PutTyped ==
  ASSUME TreeTypeOK, NEW n \in ProjName, NEW r \in TreeRows
  PROVE  /\ [row EXCEPT ![n] = r] \in Tables /\ [row EXCEPT ![n] = r][n] = r
         /\ [row EXCEPT ![n] = NoProject] \in Tables
         /\ \A m \in ProjName \ {n} : [row EXCEPT ![n] = r][m] = row[m]
BY DEF TreeTypeOK, Tables

-----------------------------------------------------------------------------

\* An empty tree has its types.
THEOREM TypeInit == TreeInit => TreeTypeOK
<1> SUFFICES ASSUME TreeInit PROVE TreeTypeOK
  OBVIOUS
<1>1. deeds \in [edits : Nat, peer : Nat, auto : BOOLEAN]
  BY DEF TreeInit
<1> QED BY <1>1 DEF TreeInit, TreeTypeOK

\* Rows, blacklist and pin keep their types through every command and sync.
THEOREM TypeStep ==
  ASSUME TreeTypeOK, TreeNext
  PROVE  TreeTypeOK'
<1>1. \A w, new, list : BannedAfter(w, new, list) \subseteq ProjName
  BY DEF BannedAfter
<1>2. Edited => deeds' \in [edits : Nat, peer : Nat, auto : BOOLEAN]
  BY DEF Edited, TreeTypeOK
<1>3. \A n \in ProjName : Detached(n) \in ProjName \cup {NoName}
  BY DEF Detached, TreeTypeOK
<1>4. CASE Plain
  <2>1. row' \in [ProjName -> TreeRows \cup {NoProject}] /\ UNCHANGED banned
    BY <1>4, PlainGrows
  <2>2. pin' \in ProjName \cup {NoName} /\ rooted' \in BOOLEAN
    BY <1>3, <1>4 DEF Plain, CreateProject, FreezeProject, UnfreezeProject, ProjectsFromFolders,
         AutoCreate, AutoFreeze, TreeTypeOK
  <2>3. deeds' \in [edits : Nat, peer : Nat, auto : BOOLEAN]
    <3>1. ASSUME NEW stale, NEW recent, AutoFreeze(stale, recent)
          PROVE  deeds' \in [edits : Nat, peer : Nat, auto : BOOLEAN]
      <4>1. deeds' = [deeds EXCEPT !.edits = @ + 1, !.auto = TRUE]
        BY <3>1 DEF AutoFreeze
      <4>2. deeds.edits + 1 \in Nat
        BY DEF TreeTypeOK
      <4> QED BY <4>1, <4>2 DEF TreeTypeOK
    <3> QED BY <1>2, <1>4, <3>1 DEF Plain, CreateProject, FreezeProject, UnfreezeProject,
               ProjectsFromFolders, AutoCreate
  <2> QED BY <2>1, <2>2, <2>3 DEF TreeTypeOK
<1>5. ASSUME NEW n \in ProjName, Exclude(n)
      PROVE  TreeTypeOK'
  <2>1. [row[n] EXCEPT !.excl = TRUE] \in TreeRows /\ row \in [ProjName -> TreeRows \cup {NoProject}]
    BY <1>5, HasTyped, ZenonT(40) DEF Exclude, TreeRows, TreeTypeOK
  <2>2. row' = [row EXCEPT ![n] = [row[n] EXCEPT !.excl = TRUE]]
    BY <1>5, <2>1 DEF Exclude, PutRows
  <2>3. row' \in [ProjName -> TreeRows \cup {NoProject}]
    BY <2>1, <2>2
  <2> QED BY <1>1, <1>2, <1>3, <1>5, <2>3 DEF Exclude, PutRows, TreeTypeOK
<1>6. ASSUME NEW n \in ProjName, NEW unfreeze \in BOOLEAN, Restore(n, unfreeze)
      PROVE  TreeTypeOK'
  <2> DEFINE q == [row[n] EXCEPT !.excl = FALSE, !.frozen = row[n].frozen /\ ~unfreeze,
                                 !.thawed = row[n].thawed \/ unfreeze]
  <2>1. q \in TreeRows /\ row \in [ProjName -> TreeRows \cup {NoProject}]
    BY <1>6, HasTyped, ZenonT(40) DEF Restore, TreeRows, TreeTypeOK
  <2>2. row' = [row EXCEPT ![n] = q]
    <3>1. row[n] \in TreeRows
      BY <1>6, HasTyped DEF Restore
    <3> QED BY <1>6, <2>1, <3>1 DEF Restore, TreeRows
  <2>3. row' \in [ProjName -> TreeRows \cup {NoProject}]
    BY <2>1, <2>2
  <2> QED BY <1>2, <1>6, <2>3 DEF Restore, TreeTypeOK
<1>7. ASSUME NEW n \in ProjName, RestoreCut(n)
      PROVE  TreeTypeOK'
  BY <1>2, <1>7 DEF RestoreCut, TreeTypeOK
<1>8. ASSUME NEW s \in ProjName, NEW t \in ProjName, MergeProject(s, t)
      PROVE  TreeTypeOK'
  <2>1. row' \in [ProjName -> TreeRows \cup {NoProject}]
    BY <1>8, MergedTyped DEF MergeProject, PutRows, Tables
  <2> QED BY <1>1, <1>2, <1>8, <2>1 DEF MergeProject, PutRows, MergedPin, TreeTypeOK
<1>9. ASSUME NEW n \in ProjName, Unmerge(n)
      PROVE  TreeTypeOK'
  <2>1. [row[n] EXCEPT !.into = NoName, !.excl = FALSE] \in TreeRows
    BY <1>9, HasTyped DEF Unmerge, TreeRows
  <2>2. row' = [row EXCEPT ![n] = [row[n] EXCEPT !.into = NoName, !.excl = FALSE]]
    BY <1>9 DEF Unmerge, PutRows, TreeTypeOK
  <2>3. row' \in [ProjName -> TreeRows \cup {NoProject}]
    BY <2>1, <2>2 DEF TreeTypeOK
  <2> QED BY <1>1, <1>2, <1>9, <2>3 DEF Unmerge, PutRows, TreeTypeOK
<1>10. ASSUME NEW names, RemoveProjects(names), Edited
       PROVE  TreeTypeOK'
  BY <1>1, <1>2, <1>10 DEF RemoveProjects, PutRows, TreeTypeOK
<1>11. ASSUME NEW n \in ProjName, DeleteOne(n) \/ DeleteAllExcluded
       PROVE  TreeTypeOK'
  BY <1>10, <1>11 DEF DeleteOne, DeleteAllExcluded
<1>12. CASE ForgetFolder
  BY <1>2, <1>12 DEF ForgetFolder, TreeTypeOK
<1>13. ASSUME NEW n \in ProjName \cup {NoName}, PinApp(n)
       PROVE  TreeTypeOK'
  BY <1>2, <1>13 DEF PinApp, TreeTypeOK
<1>14. deeds.peer + 1 \in Nat /\ [deeds EXCEPT !.peer = @ + 1] \in [edits : Nat, peer : Nat, auto : BOOLEAN]
  BY DEF TreeTypeOK
<1>15. ASSUME NEW n \in ProjName, NEW r \in PeerVersions, PeerRow(n, r)
       PROVE  TreeTypeOK'
  <2> DEFINE kept == IF Has(n) THEN row[n].thawed ELSE FALSE
             q == [r EXCEPT !.thawed = kept]
  <2>1. q \in TreeRows
    BY HasTyped DEF PeerVersions, TreeRows
  <2>2. row' = Repaired([row EXCEPT ![n] = q])
    BY <1>15 DEF PeerRow
  <2> HIDE DEF q
  <2>3. row' \in Tables
    BY <2>1, <2>2, PutTyped, RepairedKeeps
  <2> QED BY <1>1, <1>14, <1>15, <2>3 DEF PeerRow, TreeTypeOK, Tables
<1>16. ASSUME NEW n \in ProjName, PeerDelete(n)
       PROVE  TreeTypeOK'
  <2>1. [row EXCEPT ![n] = NoProject] \in Tables
    BY DEF TreeTypeOK, Tables
  <2>2. row' \in Tables
    BY <1>16, <2>1, RepairedKeeps DEF PeerDelete
  <2> QED BY <1>1, <1>3, <1>14, <1>16, <2>2 DEF PeerDelete, TreeTypeOK, Tables
<1>17. CASE \/ \E n \in ProjName : CreateProject(n) \/ FreezeProject(n) \/ UnfreezeProject(n)
            \/ \E names \in SUBSET ProjName : ProjectsFromFolders(names) \/ AutoCreate(names)
            \/ \E stale, recent \in SUBSET ProjName : AutoFreeze(stale, recent)
  BY <1>4, <1>17 DEF Plain
<1>18. CASE DeleteAllExcluded
  BY <1>10, <1>18 DEF DeleteAllExcluded
<1> QED BY <1>5, <1>6, <1>7, <1>8, <1>9, <1>11, <1>12, <1>13, <1>15, <1>16, <1>17, <1>18 DEF TreeNext

-----------------------------------------------------------------------------
(* The names that are refused. *)

\* The triggers leave on the blacklist the names of excluded rows.
LEMMA BannedKeeps ==
  ASSUME TreeTypeOK, NamesCanComeBack, NEW new \in Tables, row' = new,
         NEW written \in SUBSET ProjName, \A n \in written : new[n] # NoProject,
         NEW list \in SUBSET banned, banned' = BannedAfter(written, new, list)
  PROVE  NamesCanComeBack'
<1> SUFFICES ASSUME NEW n \in banned'
             PROVE  row'[n] # NoProject /\ row'[n].excl
  BY DEF NamesCanComeBack, Has
<1>1. CASE n \in written /\ new[n].excl
  BY <1>1
<1>2. CASE ~(n \in written /\ new[n].excl)
  <2>1. n \in list /\ ~(Has(n) /\ row[n].excl /\ (new[n] = NoProject \/ ~new[n].excl))
    BY <1>2 DEF BannedAfter
  <2>2. Has(n) /\ row[n].excl
    BY <2>1 DEF NamesCanComeBack
  <2> QED BY <2>1, <2>2
<1> QED BY <1>1, <1>2

THEOREM NamesInit == TreeInit => NamesCanComeBack
BY DEF TreeInit, NamesCanComeBack

\* No command, and no sync, leaves a name on the blacklist that no excluded row has.
LEMMA NamesStep ==
  ASSUME TreeTypeOK, NamesCanComeBack, TreeNext
  PROVE  NamesCanComeBack'
<1>1. banned \subseteq ProjName /\ row \in Tables
  BY DEF TreeTypeOK, Tables
<1>2. CASE Plain
  BY <1>1, <1>2, PlainGrows, RowIsThere DEF NamesCanComeBack, Grows, Has
<1>3. ASSUME NEW n \in ProjName, Exclude(n)
      PROVE  NamesCanComeBack'
  <2>1. [row[n] EXCEPT !.excl = TRUE] \in TreeRows
    BY <1>3, HasTyped DEF Exclude, TreeRows
  <2>2. row' = [row EXCEPT ![n] = [row[n] EXCEPT !.excl = TRUE]]
    BY <1>1, <1>3, <2>1 DEF Exclude, PutRows, Tables
  <2>3. row' \in Tables /\ row'[n] # NoProject
    BY <2>1, <2>2, PutTyped, RowIsThere
  <2>4. banned' = BannedAfter({n}, row', banned)
    BY <1>3 DEF Exclude, PutRows
  <2> QED BY <2>3, <2>4, BannedKeeps
<1>4. ASSUME NEW n \in ProjName, banned' = banned \ {n},
             \A m \in ProjName \ {n} : row'[m] = row[m]
      PROVE  NamesCanComeBack'
  BY <1>1, <1>4 DEF NamesCanComeBack, Has
<1>5. ASSUME NEW n \in ProjName, NEW unfreeze \in BOOLEAN, Restore(n, unfreeze)
      PROVE  NamesCanComeBack'
  <2>1. \A m \in ProjName \ {n} : row'[m] = row[m]
    BY <1>1, <1>5 DEF Restore, Tables
  <2> QED BY <1>4, <1>5, <2>1 DEF Restore
<1>6. ASSUME NEW n \in ProjName, RestoreCut(n)
      PROVE  NamesCanComeBack'
  BY <1>4, <1>6 DEF RestoreCut
<1>7. ASSUME NEW s \in ProjName, NEW t \in ProjName, MergeProject(s, t)
      PROVE  NamesCanComeBack'
  <2>1. Has(s)
    BY <1>7 DEF MergeProject
  <2>2. row' = MergedRows(s, t) /\ banned' = BannedAfter({s}, row', banned)
    BY <1>7 DEF MergeProject, PutRows
  <2>3. row' \in Tables /\ row'[s] # NoProject
    BY <2>1, <2>2, MergedTyped
  <2> QED BY <2>2, <2>3, BannedKeeps
<1>8. ASSUME NEW n \in ProjName, Unmerge(n)
      PROVE  NamesCanComeBack'
  <2>1. [row[n] EXCEPT !.into = NoName, !.excl = FALSE] \in TreeRows
    BY <1>8, HasTyped DEF Unmerge, TreeRows
  <2>2. row' = [row EXCEPT ![n] = [row[n] EXCEPT !.into = NoName, !.excl = FALSE]]
    BY <1>1, <1>8 DEF Unmerge, PutRows, Tables
  <2>3. row' \in Tables /\ row'[n] # NoProject
    BY <2>1, <2>2, PutTyped, RowIsThere
  <2>4. banned' = BannedAfter({n}, row', banned)
    BY <1>8 DEF Unmerge, PutRows
  <2> QED BY <2>3, <2>4, BannedKeeps
<1>9. ASSUME NEW names, RemoveProjects(names)
      PROVE  NamesCanComeBack'
  <2>1. row' \in Tables /\ banned' = BannedAfter({}, row', banned)
    BY <1>1, <1>9 DEF RemoveProjects, PutRows, Tables
  <2> QED BY <2>1, BannedKeeps
<1>10. ASSUME NEW n \in ProjName, DeleteOne(n)
       PROVE  NamesCanComeBack'
  BY <1>9, <1>10 DEF DeleteOne
<1>11. CASE DeleteAllExcluded
  BY <1>9, <1>11 DEF DeleteAllExcluded
<1>12. CASE UNCHANGED <<row, banned>>
  BY <1>12 DEF NamesCanComeBack, Has
<1>13. CASE ForgetFolder \/ \E n \in ProjName \cup {NoName} : PinApp(n)
  BY <1>12, <1>13 DEF ForgetFolder, PinApp
<1>14. ASSUME NEW n \in ProjName, NEW r \in PeerVersions, PeerRow(n, r)
       PROVE  NamesCanComeBack'
  <2> DEFINE kept == IF Has(n) THEN row[n].thawed ELSE FALSE
             q == [r EXCEPT !.thawed = kept]
             rows == [row EXCEPT ![n] = q]
  <2>1. q \in TreeRows
    BY HasTyped DEF PeerVersions, TreeRows
  <2>2. row' = Repaired(rows)
    BY <1>14 DEF PeerRow
  <2> HIDE DEF q
  <2>3. rows \in Tables /\ rows[n] # NoProject
    BY <2>1, PutTyped, RowIsThere
  <2> HIDE DEF rows
  <2>4. row' \in Tables /\ row'[n] # NoProject
    BY <2>2, <2>3, RepairedKeeps
  <2> DEFINE list == IF r.excl THEN banned ELSE banned \ {n}
  <2>5. banned' = BannedAfter({n}, row', list)
    BY <1>14 DEF PeerRow
  <2>6. list \in SUBSET banned
    OBVIOUS
  <2> HIDE DEF list
  <2> QED BY <2>4, <2>5, <2>6, BannedKeeps
<1>15. ASSUME NEW n \in ProjName, PeerDelete(n)
       PROVE  NamesCanComeBack'
  <2>1. [row EXCEPT ![n] = NoProject] \in Tables
    BY DEF TreeTypeOK, Tables
  <2>2. row' \in Tables /\ banned' = BannedAfter({}, row', banned)
    BY <1>15, <2>1, RepairedKeeps DEF PeerDelete
  <2> QED BY <2>2, BannedKeeps
<1>16. CASE \/ \E n \in ProjName : CreateProject(n) \/ FreezeProject(n) \/ UnfreezeProject(n)
            \/ \E names \in SUBSET ProjName : ProjectsFromFolders(names) \/ AutoCreate(names)
            \/ \E stale, recent \in SUBSET ProjName : AutoFreeze(stale, recent)
  BY <1>2, <1>16 DEF Plain
<1> QED BY <1>3, <1>5, <1>6, <1>7, <1>8, <1>10, <1>11, <1>13, <1>14, <1>15, <1>16 DEF TreeNext

\* NamesCanComeBack: the triggers of schema.sql, the restore that may be cut between its
\* statements and the rows of a sync keep the blacklist to the names of excluded rows,
\* for any number of projects and of changes.
THEOREM NamesTheorem == TreeSpec => []NamesCanComeBack
<1> DEFINE Inv == TreeTypeOK /\ NamesCanComeBack
<1>1. TreeInit => Inv
  BY TypeInit, NamesInit
<1>2. Inv /\ [TreeNext]_treeVars => Inv'
  <2> SUFFICES ASSUME Inv, [TreeNext]_treeVars
               PROVE  Inv'
    OBVIOUS
  <2>1. CASE TreeNext
    BY <2>1, TypeStep, NamesStep
  <2>2. CASE UNCHANGED treeVars
    BY <2>2 DEF treeVars, TreeTypeOK, NamesCanComeBack, Has
  <2> QED BY <2>1, <2>2
<1> QED BY <1>1, <1>2, PTL DEF TreeSpec

-----------------------------------------------------------------------------
(* Where time goes. *)

\* A stage is excluded, and its parent is there and no stage.
Staged ==
  \A n \in ProjName : Has(n) /\ row[n].into # NoName =>
    /\ row[n].excl /\ Has(row[n].into)
    /\ deeds.peer = 0 => row[row[n].into].into = NoName

Pinned == pin # NoName => Has(pin) /\ (deeds.peer = 0 /\ ~deeds.auto => MayCollect(pin))

\* A project that may collect is shown on its own.
LEMMA HomeGives ==
  ASSUME TreeTypeOK, Staged, Pinned
  PROVE  TimeHasAHome
<1>1. \A n \in ProjName : MayCollect(n) => row[n].into = NoName
  BY DEF MayCollect, Staged
<1>2. NewTimeOf # NoName => NewTimeOf \in ProjName /\ MayCollect(NewTimeOf)
  BY DEF NewTimeOf, TreeTypeOK
<1>3. \A m \in ProjName : HintFor(m) # NoName => HintFor(m) \in ProjName /\ MayCollect(HintFor(m))
  BY DEF HintFor
<1> QED BY <1>1, <1>2, <1>3 DEF TimeHasAHome, Staged, Pinned

LEMMA ParentTyped ==
  ASSUME TreeTypeOK, NEW n \in ProjName, Has(n), row[n].into # NoName
  PROVE  row[n].into \in ProjName
BY HasTyped DEF TreeRows

THEOREM HomeInit == TreeInit => Staged /\ Pinned
BY DEF TreeInit, Staged, Pinned, Has

\* Rows that come in, or change their marks, leave the tree as it is.
LEMMA StagedGrows ==
  ASSUME TreeTypeOK, Staged, Grows(row'), deeds'.peer = deeds.peer
  PROVE  Staged'
<1> SUFFICES ASSUME NEW n \in ProjName, Has(n)', row'[n].into # NoName
             PROVE  /\ row'[n].excl /\ Has(row[n].into)'
                    /\ deeds'.peer = 0 => row'[row'[n].into].into = NoName
  BY DEF Staged
<1>1. Has(n) /\ row'[n].into = row[n].into /\ row'[n].excl = row[n].excl
  BY FreshTyped DEF Grows, Has
<1>2. row[n].into \in ProjName /\ Has(row[n].into)
  BY <1>1, ParentTyped DEF Staged
<1>3. row'[row[n].into] \in TreeRows /\ row'[row[n].into].into = row[row[n].into].into
  BY <1>2 DEF Grows
<1> QED BY <1>1, <1>2, <1>3, RowIsThere DEF Staged, Has

LEMMA StagedPlain ==
  ASSUME TreeTypeOK, Staged, Plain
  PROVE  Staged'
<1>1. deeds'.peer = deeds.peer
  <2>1. ASSUME NEW stale, NEW recent, AutoFreeze(stale, recent)
        PROVE  deeds'.peer = deeds.peer
    <3>1. deeds' = [deeds EXCEPT !.edits = @ + 1, !.auto = TRUE]
      BY <2>1 DEF AutoFreeze
    <3> QED BY <3>1 DEF TreeTypeOK
  <2>2. Edited => deeds'.peer = deeds.peer
    BY DEF Edited, TreeTypeOK
  <2> QED BY <2>1, <2>2 DEF Plain, CreateProject, FreezeProject, UnfreezeProject,
             ProjectsFromFolders, AutoCreate
<1> QED BY <1>1, PlainGrows, StagedGrows

\* The pin stays with a row that stays.
LEMMA PinnedStays ==
  ASSUME TreeTypeOK, Pinned, pin' = pin, deeds'.peer = deeds.peer, deeds'.auto = deeds.auto,
         pin # NoName => row'[pin] = row[pin]
  PROVE  Pinned'
BY DEF Pinned, Has, MayCollect

LEMMA EditedKeeps ==
  ASSUME TreeTypeOK, Edited
  PROVE  deeds'.peer = deeds.peer /\ deeds'.auto = deeds.auto
BY DEF Edited, TreeTypeOK

LEMMA PinnedPlain ==
  ASSUME TreeTypeOK, Pinned, Plain
  PROVE  Pinned'
<1>1. pin \in ProjName \cup {NoName}
  BY DEF TreeTypeOK
<1>2. ASSUME NEW names, row' = CreatedFor(names), pin' = pin, Edited
      PROVE  Pinned'
  <2>1. pin # NoName => row'[pin] = row[pin]
    BY <1>1, <1>2 DEF CreatedFor, ProjectExistsByName, Pinned
  <2> QED BY <1>2, <2>1, EditedKeeps, PinnedStays
<1>3. ASSUME NEW n \in ProjName, CreateProject(n)
      PROVE  Pinned'
  BY <1>2, <1>3 DEF CreateProject
<1>4. ASSUME NEW names, ProjectsFromFolders(names) \/ AutoCreate(names)
      PROVE  Pinned'
  BY <1>2, <1>4 DEF ProjectsFromFolders, AutoCreate
<1>5. ASSUME NEW n \in ProjName, FreezeProject(n)
      PROVE  Pinned'
  <2>1. CASE pin' = NoName
    BY <2>1 DEF Pinned
  <2>2. CASE pin' # NoName
    <3>1. pin # n /\ pin' = pin
      BY <1>5, <2>2 DEF FreezeProject, Detached
    <3>2. row'[pin] = row[pin]
      BY <1>1, <1>5, <2>2, <3>1 DEF FreezeProject, TreeTypeOK
    <3> QED BY <1>5, <3>1, <3>2, EditedKeeps, PinnedStays DEF FreezeProject
  <2> QED BY <2>1, <2>2
<1>6. ASSUME NEW n \in ProjName, UnfreezeProject(n)
      PROVE  Pinned'
  <2>1. CASE pin = n
    <3> DEFINE q == [row[n] EXCEPT !.frozen = FALSE, !.thawed = TRUE]
    <3>1. row[n] \in TreeRows
      BY <1>6, HasTyped DEF UnfreezeProject
    <3>2. row' = [row EXCEPT ![n] = q]
      BY <1>6, <3>1 DEF UnfreezeProject, TreeRows
    <3>3. q \in TreeRows /\ q.excl = row[n].excl /\ q.frozen = FALSE
      BY <3>1 DEF TreeRows
    <3>4. row'[n] = q /\ pin' = pin /\ deeds'.peer = deeds.peer /\ deeds'.auto = deeds.auto
      BY <1>6, <3>2, EditedKeeps DEF UnfreezeProject, TreeTypeOK
    <3> HIDE DEF q
    <3> QED BY <2>1, <3>3, <3>4, RowIsThere DEF Pinned, Has, MayCollect
  <2>2. CASE pin # n
    <3>1. pin # NoName => row'[pin] = row[pin]
      BY <1>1, <1>6, <2>2 DEF UnfreezeProject, TreeTypeOK
    <3> QED BY <1>6, <3>1, EditedKeeps, PinnedStays DEF UnfreezeProject
  <2> QED BY <2>1, <2>2
<1>7. ASSUME NEW stale \in SUBSET ProjName, NEW recent \in SUBSET ProjName,
             AutoFreeze(stale, recent)
      PROVE  Pinned'
  <2>1. deeds' = [deeds EXCEPT !.edits = @ + 1, !.auto = TRUE] /\ pin' = pin
    BY <1>7 DEF AutoFreeze
  <2>2. deeds'.auto = TRUE
    BY <2>1 DEF TreeTypeOK
  <2>3. Grows(row')
    BY <1>7, PlainGrows DEF Plain
  <2>4. pin # NoName => Has(pin)'
    BY <1>1, <2>1, <2>3, RowIsThere DEF Pinned, Grows, Has
  <2> QED BY <2>1, <2>2, <2>4 DEF Pinned
<1> QED BY <1>3, <1>4, <1>5, <1>6, <1>7 DEF Plain

\* A change of the one row n, which is the parent of no stage.
LEMMA StagedPut ==
  ASSUME TreeTypeOK, Staged, NEW n \in ProjName, NEW r \in TreeRows,
         row' = [row EXCEPT ![n] = r], Has(n), deeds'.peer = deeds.peer,
         (r.into = row[n].into /\ r.excl) \/ r.into = NoName
  PROVE  Staged'
<1>1. \A m \in ProjName : Has(m)' <=> Has(m)
  BY PutTyped, RowIsThere DEF Has
<1> SUFFICES ASSUME NEW m \in ProjName, Has(m), row'[m].into # NoName
             PROVE  /\ row'[m].excl /\ Has(row[m].into)'
                    /\ deeds'.peer = 0 => row'[row'[m].into].into = NoName
  BY <1>1 DEF Staged
<1>2. row'[m].into = row[m].into /\ row'[m].excl
  BY PutTyped DEF Staged
<1>3. row[m].into \in ProjName /\ Has(row[m].into)
  BY <1>2, ParentTyped DEF Staged
<1>4. deeds.peer = 0 => row'[row[m].into].into = NoName
  BY <1>2, <1>3, PutTyped DEF Staged
<1> QED BY <1>1, <1>2, <1>3, <1>4

\* Names are removed that are the parent of no stage.
LEMMA RemovedKeeps ==
  ASSUME TreeTypeOK, Staged, Pinned, Edited,
         NEW names \in SUBSET ProjName, RemoveProjects(names),
         \A n \in names : Stages(n) = {}
  PROVE  Staged' /\ Pinned'
<1>1. \A m \in ProjName : row'[m] = IF m \in names THEN NoProject ELSE row[m]
  BY DEF RemoveProjects, PutRows
<1>2. pin' = IF pin \in names THEN NoName ELSE pin
  BY DEF RemoveProjects
<1>3. deeds'.peer = deeds.peer /\ deeds'.auto = deeds.auto
  BY EditedKeeps
<1>4. Staged'
  <2> SUFFICES ASSUME NEW m \in ProjName, Has(m)', row'[m].into # NoName
               PROVE  /\ row'[m].excl /\ Has(row[m].into)'
                      /\ deeds'.peer = 0 => row'[row'[m].into].into = NoName
    BY DEF Staged
  <2>1. row'[m] = row[m] /\ Has(m)
    BY <1>1 DEF Has
  <2>2. row[m].into \in ProjName /\ row[m].into \notin names
    BY <2>1, ParentTyped DEF Stages
  <2>3. row'[row[m].into] = row[row[m].into]
    BY <1>1, <2>2
  <2> QED BY <1>3, <2>1, <2>2, <2>3 DEF Staged, Has
<1>5. Pinned'
  <2>1. CASE pin' = NoName
    BY <2>1 DEF Pinned
  <2>2. CASE pin' # NoName
    <3>1. pin' = pin /\ pin \notin names /\ pin \in ProjName
      BY <1>2, <2>2 DEF TreeTypeOK
    <3> QED BY <1>1, <1>3, <3>1, PinnedStays
  <2> QED BY <2>1, <2>2
<1> QED BY <1>4, <1>5

\* What a sync leaves when its references are repaired.
LEMMA PeerKeeps ==
  ASSUME TreeTypeOK, NEW rows \in Tables, row' = Repaired(rows), deeds'.peer # 0,
         \A m \in ProjName : rows[m] # NoProject /\ rows[m].into # NoName => rows[m].excl,
         pin' # NoName => pin' \in ProjName /\ rows[pin'] # NoProject
  PROVE  Staged' /\ Pinned'
<1>1. Staged'
  <2> SUFFICES ASSUME NEW m \in ProjName, Has(m)', row'[m].into # NoName
               PROVE  row'[m].excl /\ Has(row[m].into)'
    BY DEF Staged
  <2>1. rows[m] # NoProject
    BY RepairedKeeps DEF Has
  <2>2. /\ row'[m].excl = rows[m].excl /\ row'[m].into = rows[m].into
        /\ rows[rows[m].into] # NoProject
    BY <2>1, RepairedKeeps
  <2>3. rows[m].into \in ProjName
    BY <2>1, <2>2 DEF Tables, TreeRows
  <2> QED BY <2>1, <2>2, <2>3, RepairedKeeps DEF Has
<1>2. Pinned'
  BY RepairedKeeps DEF Pinned, Has
<1> QED BY <1>1, <1>2

\* Every command and every sync keeps the stages below a parent and the pin at a project.
LEMMA HomeStep ==
  ASSUME TreeTypeOK, Staged, Pinned, TreeNext
  PROVE  Staged' /\ Pinned'
<1>1. pin \in ProjName \cup {NoName} /\ row \in Tables
  BY DEF TreeTypeOK, Tables
<1>2. CASE Plain
  BY <1>2, StagedPlain, PinnedPlain
<1>3. ASSUME NEW n \in ProjName, Exclude(n)
      PROVE  Staged' /\ Pinned'
  <2> DEFINE q == [row[n] EXCEPT !.excl = TRUE]
  <2>1. q \in TreeRows /\ q.excl = TRUE /\ q.into = row[n].into
    BY <1>3, HasTyped DEF Exclude, TreeRows
  <2>2. row' = [row EXCEPT ![n] = q]
    BY <1>1, <1>3 DEF Exclude, PutRows, Tables
  <2> HIDE DEF q
  <2>3. Has(n) /\ deeds'.peer = deeds.peer /\ deeds'.auto = deeds.auto /\ pin' = Detached(n)
    BY <1>3, EditedKeeps DEF Exclude
  <2>4. Staged'
    BY <2>1, <2>2, <2>3, StagedPut
  <2>5. CASE pin' = NoName
    BY <2>4, <2>5 DEF Pinned
  <2>6. CASE pin' # NoName
    <3>1. pin' = pin /\ pin \in ProjName \ {n}
      BY <1>1, <2>3, <2>6 DEF Detached
    <3> QED BY <2>1, <2>2, <2>3, <2>4, <3>1, PutTyped, PinnedStays
  <2> QED BY <2>5, <2>6
<1>4. ASSUME NEW n \in ProjName, NEW unfreeze \in BOOLEAN, Restore(n, unfreeze)
      PROVE  Staged' /\ Pinned'
  <2> DEFINE q == [row[n] EXCEPT !.excl = FALSE, !.frozen = row[n].frozen /\ ~unfreeze,
                                 !.thawed = row[n].thawed \/ unfreeze]
  <2>1. Has(n) /\ row[n] \in TreeRows /\ row[n].into = NoName
    BY <1>4, HasTyped DEF Restore
  <2>2. q \in TreeRows /\ q.into = NoName /\ q.excl = FALSE /\ (q.frozen => row[n].frozen)
    BY <2>1 DEF TreeRows
  <2>3. row' = [row EXCEPT ![n] = q]
    BY <1>4, <2>1 DEF Restore, TreeRows
  <2> HIDE DEF q
  <2>4. deeds'.peer = deeds.peer /\ deeds'.auto = deeds.auto /\ pin' = pin
    BY <1>4, EditedKeeps DEF Restore
  <2>5. Staged'
    BY <2>1, <2>2, <2>3, <2>4, StagedPut
  <2>6. CASE pin = n
    <3>1. row'[n] = q
      BY <2>2, <2>3, PutTyped
    <3> QED BY <2>2, <2>4, <2>5, <2>6, <3>1, RowIsThere DEF Pinned, Has, MayCollect
  <2>7. CASE pin # n
    <3>1. pin # NoName => row'[pin] = row[pin]
      BY <1>1, <2>2, <2>3, <2>7, PutTyped
    <3> QED BY <2>4, <2>5, <3>1, PinnedStays
  <2> QED BY <2>6, <2>7
<1>5. ASSUME UNCHANGED row, Edited, pin' = pin \/ (pin' # NoName => MayCollect(pin'))
      PROVE  Staged' /\ Pinned'
  <2>1. deeds'.peer = deeds.peer /\ deeds'.auto = deeds.auto
    BY <1>5, EditedKeeps
  <2> QED BY <1>5, <2>1 DEF Staged, Pinned, Has, MayCollect
<1>6. ASSUME NEW n \in ProjName, RestoreCut(n)
      PROVE  Staged' /\ Pinned'
  BY <1>5, <1>6 DEF RestoreCut
<1>7. ASSUME NEW s \in ProjName, NEW t \in ProjName, MergeProject(s, t)
      PROVE  Staged' /\ Pinned'
  <2>1. /\ s # t /\ Has(s) /\ row[s].into = NoName
        /\ Has(t) /\ MayCollect(t) /\ row[t].into = NoName
        /\ row' = MergedRows(s, t) /\ pin' = MergedPin(s, t)
    BY <1>7 DEF MergeProject, PutRows, MayCollect
  <2>2. deeds'.peer = deeds.peer /\ deeds'.auto = deeds.auto
    BY <1>7, EditedKeeps DEF MergeProject
  <2>3. \A n \in ProjName : Has(n)' <=> Has(n)
    BY <2>1, MergedTyped DEF Has
  <2>4. /\ row'[t].into = NoName /\ row'[t].excl = row[t].excl /\ row'[t].frozen = row[t].frozen
        /\ Has(t)'
    <3>1. row[t].excl \in BOOLEAN
      BY <2>1, HasTyped DEF TreeRows
    <3> QED BY <2>1, <2>3, <3>1, MergedTyped, ProjNotNone
  <2>5. Staged'
    <3> SUFFICES ASSUME NEW n \in ProjName, Has(n)', row'[n].into # NoName
                 PROVE  /\ row'[n].excl /\ Has(row[n].into)'
                        /\ deeds'.peer = 0 => row'[row'[n].into].into = NoName
      BY DEF Staged
    <3>1. Has(n) /\ row'[n].excl = (n = s \/ row[n].excl)
          /\ row'[n].into = IF n = s \/ row[n].into = s THEN t ELSE row[n].into
      BY <2>1, <2>3, MergedTyped
    <3>2. CASE n = s \/ row[n].into = s
      BY <2>4, <3>1, <3>2, ProjNotNone DEF Staged
    <3>3. CASE n # s /\ row[n].into # s
      <4>1. row'[n].into = row[n].into /\ row[n].excl /\ Has(row[n].into) /\ row[n].into \in ProjName
        BY <3>1, <3>3, ParentTyped DEF Staged
      <4>2. deeds.peer = 0 => row[row[n].into].into = NoName
        BY <3>1, <4>1 DEF Staged
      <4>3. row[row[n].into].into = NoName => row'[row[n].into].into = NoName
        BY <2>1, <3>3, <4>1, MergedTyped, ProjNotNone
      <4> QED BY <2>2, <2>3, <3>1, <3>3, <4>1, <4>2, <4>3
    <3> QED BY <3>2, <3>3
  <2>6. CASE pin = s \/ pin = t
    <3>1. pin' = t
      BY <2>1, <2>6 DEF MergedPin
    <3> QED BY <2>1, <2>4, <2>5, <3>1 DEF Pinned, MayCollect
  <2>7. CASE pin # s /\ pin # t /\ pin # NoName
    <3>1. pin' = pin /\ pin \in ProjName /\ Has(pin)
      BY <1>1, <2>1, <2>7 DEF MergedPin, Pinned
    <3>2. /\ row'[pin].excl = row[pin].excl /\ row'[pin].frozen = row[pin].frozen /\ Has(pin)'
      BY <2>1, <2>3, <2>7, <3>1, MergedTyped, HasTyped DEF TreeRows
    <3> QED BY <2>2, <2>5, <2>7, <3>1, <3>2 DEF Pinned, MayCollect
  <2>8. CASE pin = NoName
    <3>1. pin' = NoName
      BY <2>1, <2>8, ProjNotNone DEF MergedPin
    <3> QED BY <2>5, <3>1 DEF Pinned
  <2> QED BY <2>6, <2>7, <2>8
<1>8. ASSUME NEW n \in ProjName, Unmerge(n)
      PROVE  Staged' /\ Pinned'
  <2> DEFINE q == [row[n] EXCEPT !.into = NoName, !.excl = FALSE]
  <2>1. Has(n) /\ row[n].into # NoName /\ row[n] \in TreeRows
    BY <1>8, HasTyped DEF Unmerge
  <2>2. q \in TreeRows /\ q.into = NoName /\ q.excl = FALSE /\ q.frozen = row[n].frozen
    BY <2>1 DEF TreeRows
  <2>3. row' = [row EXCEPT ![n] = q]
    BY <1>1, <1>8 DEF Unmerge, PutRows, Tables
  <2> HIDE DEF q
  <2>4. deeds'.peer = deeds.peer /\ deeds'.auto = deeds.auto /\ pin' = pin
    BY <1>8, EditedKeeps DEF Unmerge
  <2>5. Staged'
    BY <2>1, <2>2, <2>3, <2>4, StagedPut
  <2>6. CASE pin = n
    <3>1. row'[n] = q
      BY <2>2, <2>3, PutTyped
    <3>2. ~MayCollect(n)
      BY <2>1 DEF MayCollect, Staged
    <3> QED BY <2>2, <2>4, <2>5, <2>6, <3>1, <3>2, RowIsThere DEF Pinned, Has
  <2>7. CASE pin # n
    <3>1. pin # NoName => row'[pin] = row[pin]
      BY <1>1, <2>2, <2>3, <2>7, PutTyped
    <3> QED BY <2>4, <2>5, <3>1, PinnedStays
  <2> QED BY <2>6, <2>7
<1>9. ASSUME NEW n \in ProjName, DeleteOne(n)
      PROVE  Staged' /\ Pinned'
  BY <1>9, RemovedKeeps DEF DeleteOne, Deletable
<1>10. CASE DeleteAllExcluded
  <2> DEFINE gone == {n \in ProjName : Deletable(n) /\ row[n].excl /\ row[n].into = NoName}
  <2>1. gone \in SUBSET ProjName /\ \A n \in gone : Stages(n) = {}
    BY DEF Deletable
  <2>2. Edited /\ RemoveProjects(gone)
    BY <1>10 DEF DeleteAllExcluded
  <2> HIDE DEF gone
  <2> QED BY <2>1, <2>2, RemovedKeeps
<1>11. CASE ForgetFolder
  BY <1>5, <1>11 DEF ForgetFolder
<1>12. ASSUME NEW n \in ProjName \cup {NoName}, PinApp(n)
       PROVE  Staged' /\ Pinned'
  BY <1>5, <1>12 DEF PinApp
<1>13. deeds' = [deeds EXCEPT !.peer = @ + 1] => deeds'.peer # 0
  BY DEF TreeTypeOK
<1>14. ASSUME NEW n \in ProjName, NEW r \in PeerVersions, PeerRow(n, r)
       PROVE  Staged' /\ Pinned'
  <2> DEFINE kept == IF Has(n) THEN row[n].thawed ELSE FALSE
             q == [r EXCEPT !.thawed = kept]
             rows == [row EXCEPT ![n] = q]
  <2>1. q \in TreeRows /\ (q.into # NoName => q.excl)
    BY HasTyped DEF PeerVersions, TreeRows
  <2>2. row' = Repaired(rows) /\ pin' = pin /\ deeds'.peer # 0
    BY <1>13, <1>14 DEF PeerRow
  <2> HIDE DEF q
  <2>3. rows \in Tables /\ rows[n] = q /\ \A m \in ProjName \ {n} : rows[m] = row[m]
    BY <2>1, PutTyped
  <2> HIDE DEF rows
  <2>4. \A m \in ProjName : rows[m] # NoProject /\ rows[m].into # NoName => rows[m].excl
    BY <2>1, <2>3 DEF Staged, Has
  <2>5. pin' # NoName => pin' \in ProjName /\ rows[pin'] # NoProject
    BY <1>1, <2>1, <2>2, <2>3, RowIsThere DEF Pinned, Has
  <2> QED BY <2>2, <2>3, <2>4, <2>5, PeerKeeps
<1>15. ASSUME NEW n \in ProjName, PeerDelete(n)
       PROVE  Staged' /\ Pinned'
  <2> DEFINE rows == [row EXCEPT ![n] = NoProject]
  <2>1. row' = Repaired(rows) /\ pin' = Detached(n) /\ deeds'.peer # 0
    BY <1>13, <1>15 DEF PeerDelete
  <2>2. rows \in Tables /\ rows[n] = NoProject /\ \A m \in ProjName \ {n} : rows[m] = row[m]
    BY <1>1 DEF Tables
  <2> HIDE DEF rows
  <2>3. \A m \in ProjName : rows[m] # NoProject /\ rows[m].into # NoName => rows[m].excl
    BY <2>2 DEF Staged, Has
  <2>4. pin' # NoName => pin' \in ProjName /\ rows[pin'] # NoProject
    BY <1>1, <2>1, <2>2 DEF Pinned, Has, Detached
  <2> QED BY <2>1, <2>2, <2>3, <2>4, PeerKeeps
<1>16. CASE \/ \E n \in ProjName : CreateProject(n) \/ FreezeProject(n) \/ UnfreezeProject(n)
            \/ \E names \in SUBSET ProjName : ProjectsFromFolders(names) \/ AutoCreate(names)
            \/ \E stale, recent \in SUBSET ProjName : AutoFreeze(stale, recent)
  BY <1>2, <1>16 DEF Plain
<1> QED BY <1>3, <1>4, <1>6, <1>7, <1>8, <1>9, <1>10, <1>11, <1>12, <1>14, <1>15, <1>16 DEF TreeNext

\* TimeHasAHome: through every command a stage is excluded and its parent is there and no
\* stage itself, also after a sync it is excluded and its parent is there, and the time
\* of the application or of a file goes to a project that is shown.
THEOREM HomeTheorem == TreeSpec => []TimeHasAHome
<1> DEFINE Inv == TreeTypeOK /\ Staged /\ Pinned
<1>1. TreeInit => Inv
  BY TypeInit, HomeInit
<1>2. Inv /\ [TreeNext]_treeVars => Inv'
  <2> SUFFICES ASSUME Inv, [TreeNext]_treeVars
               PROVE  Inv'
    OBVIOUS
  <2>1. CASE TreeNext
    BY <2>1, TypeStep, HomeStep
  <2>2. CASE UNCHANGED treeVars
    BY <2>2 DEF treeVars, TreeTypeOK, Staged, Pinned, Has, MayCollect
  <2> QED BY <2>1, <2>2
<1>3. Inv => TimeHasAHome
  BY HomeGives
<1> QED BY <1>1, <1>2, <1>3, PTL DEF TreeSpec

-----------------------------------------------------------------------------
(* Clients: the links first, then the summary, which rests on PM's names     *)
(* alone.                                                                    *)

\* A link names a client of the table, or it was typed by hand or left behind.
LinksHeld == \A p \in CliProj : link[p] \in Listed \cup {Nothing} \/ p \in loose

LEMMA GroupsAreRaw ==
  ASSUME CliTypeOK
  PROVE  /\ RawSet \subseteq RawNames /\ PmGroups \subseteq RawSet
         /\ \A p \in CliProj : PmClientOf(p) \in PmGroups \cup {Nothing}
<1>1. RawSet \subseteq RawNames
  BY DEF CliTypeOK, RawSet
<1>2. \A r \in RawSet : GroupOf(r) \in RawSet
  BY DEF GroupOf
<1>3. ASSUME NEW p \in CliProj
      PROVE  PmClientOf(p) \in PmGroups \cup {Nothing}
  <2>1. CASE pm[p] = Nothing
    BY <2>1 DEF PmClientOf
  <2>2. CASE pm[p] # Nothing
    <3>1. pm[p] \in RawSet
      BY <2>2 DEF RawSet
    <3> QED BY <2>2, <3>1 DEF PmClientOf, PmGroups
  <2> QED BY <2>1, <2>2
<1> QED BY <1>1, <1>2, <1>3 DEF PmGroups

\* PM's groups are clients, and every link PM gives is one of them or none.
LEMMA GroupsAreClients ==
  ASSUME CliTypeOK
  PROVE  /\ PmGroups \subseteq Client
         /\ \A p \in CliProj : PmClientOf(p) \in Client \cup {Nothing}
BY GroupsAreRaw, ClientAssumption

LEMMA ClientTypes ==
  ASSUME CliTypeOK, [CliNext]_cliVars
  PROVE  CliTypeOK'
<1> USE DEF CliTypeOK
<1>1. ASSUME NEW c \in Client, CreateClient(c) \/ DeleteClient(c)
      PROVE  CliTypeOK'
  BY <1>1 DEF CreateClient, DeleteClient, Relink, Unlinked
<1>2. ASSUME NEW c \in Client, NEW archived \in BOOLEAN, ArchiveClient(c, archived)
      PROVE  CliTypeOK'
  BY <1>2 DEF ArchiveClient
<1>3. ASSUME NEW c \in Client, NEW d \in Client, RenameClient(c, d)
      PROVE  CliTypeOK'
  BY <1>3 DEF RenameClient, Relink, RenamedLink
<1>4. ASSUME NEW p \in CliProj, NEW c \in Client \cup {Nothing}, SetClient(p, c)
      PROVE  CliTypeOK'
  BY <1>4 DEF SetClient, Relink
<1>5. ASSUME NEW p \in CliProj, MoveOutside(p)
      PROVE  CliTypeOK'
  BY <1>5 DEF MoveOutside
<1>6. ASSUME NEW p \in CliProj, NEW r \in RawNames \cup {Nothing}, PmChanges(p, r)
      PROVE  CliTypeOK'
  BY <1>6 DEF PmChanges
<1>7. ASSUME SyncFromPm
      PROVE  CliTypeOK'
  BY <1>7, GroupsAreClients DEF SyncFromPm, Relink, AssignedLink, ResetLink, OnlyPm, PmUpserted
<1>8. ASSUME NEW done \in SUBSET CliProj, SyncFromPmCut(done)
      PROVE  CliTypeOK'
  BY <1>8, GroupsAreClients DEF SyncFromPmCut, Relink, AssignedLink, ResetLink, PmUpserted
<1>9. CASE UNCHANGED cliVars
  BY <1>9 DEF cliVars
<1> QED BY <1>1, <1>2, <1>3, <1>4, <1>5, <1>6, <1>7, <1>8, <1>9 DEF CliNext

\* A relinked project keeps what it may keep when every link that is not free is one of
\* the clients that are listed afterwards.
LEMMA RelinkHolds ==
  ASSUME NEW new \in [CliProj -> Client \cup {Nothing}], NEW free, Relink(new, free),
         \A p \in CliProj : new[p] \in Listed' \cup {Nothing} \/ p \in free
  PROVE  LinksHeld'
BY DEF Relink, LinksHeld

LEMMA LinksStep ==
  ASSUME CliTypeOK, LinksHeld, [CliNext]_cliVars
  PROVE  LinksHeld'
<1>1. ASSUME NEW c \in Client, CreateClient(c)
      PROVE  LinksHeld'
  BY <1>1 DEF CreateClient, LinksHeld, Listed, CliTypeOK
<1>2. ASSUME NEW c \in Client, DeleteClient(c)
      PROVE  LinksHeld'
  <2>1. Unlinked(c) \in [CliProj -> Client \cup {Nothing}]
    BY DEF Unlinked, CliTypeOK
  <2>2. \A p \in CliProj : Unlinked(c)[p] \in Listed' \cup {Nothing} \/ p \in loose
    <3>1. Listed' = Listed \ Same(c)
      BY <1>2 DEF DeleteClient, Listed
    <3> QED BY <3>1 DEF Unlinked, LinksHeld
  <2> QED BY <1>2, <2>1, <2>2, RelinkHolds DEF DeleteClient
<1>3. ASSUME NEW c \in Client, NEW archived \in BOOLEAN, ArchiveClient(c, archived)
      PROVE  LinksHeld'
  BY <1>3 DEF ArchiveClient, LinksHeld, Listed, CliTypeOK
<1>4. ASSUME NEW c \in Client, NEW d \in Client, RenameClient(c, d)
      PROVE  LinksHeld'
  <2>1. RenamedLink(c, d) \in [CliProj -> Client \cup {Nothing}]
    BY DEF RenamedLink, CliTypeOK
  <2>2. Listed' = (Listed \ {c}) \cup {d}
    BY <1>4 DEF RenameClient, Listed, CliTypeOK
  <2>3. \A p \in CliProj : RenamedLink(c, d)[p] \in Listed' \cup {Nothing} \/ p \in loose
    BY <2>2 DEF RenamedLink, LinksHeld
  <2> QED BY <1>4, <2>1, <2>3, RelinkHolds DEF RenameClient
<1>5. ASSUME NEW p \in CliProj, NEW c \in Client \cup {Nothing}, SetClient(p, c)
      PROVE  LinksHeld'
  <2> DEFINE new == [link EXCEPT ![p] = c]
             free == IF c \in Listed THEN loose \ {p} ELSE loose \cup {p}
  <2>1. new \in [CliProj -> Client \cup {Nothing}]
    BY DEF CliTypeOK
  <2>2. Listed' = Listed
    BY <1>5 DEF SetClient, Listed
  <2>3. \A q \in CliProj : new[q] \in Listed' \cup {Nothing} \/ q \in free
    BY <2>2 DEF LinksHeld, CliTypeOK
  <2>4. Relink(new, free)
    BY <1>5 DEF SetClient
  <2> QED BY <2>1, <2>3, <2>4, RelinkHolds
<1>6. ASSUME NEW p \in CliProj, MoveOutside(p)
      PROVE  LinksHeld'
  BY <1>6 DEF MoveOutside, LinksHeld, Listed
<1>7. ASSUME NEW p \in CliProj, NEW r \in RawNames \cup {Nothing}, PmChanges(p, r)
      PROVE  LinksHeld'
  BY <1>7 DEF PmChanges, LinksHeld, Listed
<1>8. ASSUME SyncFromPm
      PROVE  LinksHeld'
  <2>1. AssignedLink(CliProj) \in [CliProj -> Client \cup {Nothing}]
    BY GroupsAreClients DEF AssignedLink, ResetLink, CliTypeOK
  <2>2. CASE PmGroups = {}
    <3>1. Listed' = Listed
      BY <1>8, <2>2 DEF SyncFromPm, Listed
    <3>2. \A p \in CliProj : PmClientOf(p) = Nothing
      BY <2>2, GroupsAreRaw
    <3>3. \A p \in CliProj : \/ AssignedLink(CliProj)[p] \in Listed' \cup {Nothing}
                             \/ p \in {q \in outside : PmGroups # {} \/ q \in loose}
      BY <3>1, <3>2 DEF AssignedLink, ResetLink, LinksHeld
    <3> QED BY <1>8, <2>1, <3>3, RelinkHolds DEF SyncFromPm
  <2>3. CASE PmGroups # {}
    <3>1. PmGroups \subseteq Listed'
      BY <1>8, <2>3, GroupsAreClients DEF SyncFromPm, Listed, OnlyPm, PmUpserted
    <3>2. \A p \in CliProj : \/ AssignedLink(CliProj)[p] \in Listed' \cup {Nothing}
                             \/ p \in {q \in outside : PmGroups # {} \/ q \in loose}
      BY <2>3, <3>1, GroupsAreRaw DEF AssignedLink, ResetLink
    <3> QED BY <1>8, <2>1, <3>2, RelinkHolds DEF SyncFromPm
  <2> QED BY <2>2, <2>3
<1>9. ASSUME NEW done \in SUBSET CliProj, SyncFromPmCut(done)
      PROVE  LinksHeld'
  <2>1. Listed \cup PmGroups \subseteq Listed'
    BY <1>9, GroupsAreClients DEF SyncFromPmCut, Listed, PmUpserted
  <2>2. CASE UNCHANGED <<link, loose>>
    BY <2>1, <2>2 DEF LinksHeld
  <2>3. CASE Relink(AssignedLink(done), loose \cap outside)
    <3>1. AssignedLink(done) \in [CliProj -> Client \cup {Nothing}]
      BY GroupsAreClients DEF AssignedLink, ResetLink, CliTypeOK
    <3>2. \A p \in CliProj : \/ AssignedLink(done)[p] \in Listed' \cup {Nothing}
                             \/ p \in loose \cap outside
      BY <2>1, GroupsAreRaw DEF AssignedLink, ResetLink, LinksHeld
    <3> QED BY <2>3, <3>1, <3>2, RelinkHolds
  <2> QED BY <1>9, <2>2, <2>3 DEF SyncFromPmCut
<1>10. CASE UNCHANGED cliVars
  BY <1>10 DEF cliVars, LinksHeld, Listed
<1> QED BY <1>1, <1>2, <1>3, <1>4, <1>5, <1>6, <1>7, <1>8, <1>9, <1>10 DEF CliNext

\* However a project spells its client, the summary shows PM's spelling of it.
LEMMA OneLinePerClient ==
  ASSUME CliTypeOK, NEW c \in SummaryBuckets, NEW g \in PmGroups, c \in Same(g)
  PROVE  c = g
<1>1. PmGroups # {} /\ PmGroups \subseteq RawNames
  BY GroupsAreRaw
<1>2. CASE c \in PmGroups
  BY <1>1, <1>2, ClientAssumption DEF Same
<1>3. CASE c \notin PmGroups
  <2>1. PICK p \in CliProj : c = SummaryClient(p) /\ c # Nothing
    BY <1>1, <1>3 DEF SummaryBuckets
  <2>2. c = PanelClient(p) /\ link[p] # Nothing
    BY <2>1 DEF SummaryClient
  <2>3. pm[p] = Nothing
    BY <1>3, <2>1, <2>2, GroupsAreRaw DEF PanelClient
  <2>4. c = Normalized(link[p])
    BY <2>2, <2>3 DEF PanelClient
  <2>5. PmGroups \cap Same(link[p]) = {} /\ c = link[p]
    BY <1>3, <2>4 DEF Normalized
  <2>6. g \in Same(c)
    BY <1>1, ClientAssumption DEF Same
  <2> QED BY <2>5, <2>6
<1> QED BY <1>2, <1>3

\* No project is left with a client that is gone, by renaming, deleting, or a sync from PM
\* that stops half-way, and the summary has one line for each client of PM: for any names,
\* projects and number of changes.
THEOREM ClientTheorem == CliSpec => []ClientsHoldTogether
<1>1. CliInit => CliTypeOK /\ LinksHeld
  BY DEF CliInit, CliTypeOK, LinksHeld
<1>2. CliTypeOK /\ LinksHeld /\ [CliNext]_cliVars => (CliTypeOK /\ LinksHeld)'
  BY ClientTypes, LinksStep
<1>3. CliTypeOK /\ LinksHeld => ClientsHoldTogether
  BY OneLinePerClient DEF LinksHeld, ClientsHoldTogether
<1> QED BY <1>1, <1>2, <1>3, PTL DEF CliSpec

-----------------------------------------------------------------------------
(* The greatest element of a set of numbers, which the rollback picks.       *)

Before == {p \in Nat \X Nat : p[1] < p[2]}

LEMMA BeforeWellFounded == IsWellFoundedOn(Before, Nat)
<1>1. Before = OpToRel(<, Nat)
  BY DEF Before, OpToRel
<1> QED BY <1>1, NatLessThanWellFounded

LEMMA LeastOf ==
  ASSUME NEW T \in SUBSET Nat, T # {}
  PROVE  \E m \in T : \A k \in T : m <= k
<1>1. PICK m \in T : \A k \in T : <<k, m>> \notin Before
  BY BeforeWellFounded, WFMin
<1>2. ASSUME NEW k \in T
      PROVE  m <= k
  <2>1. k \in Nat /\ m \in Nat
    OBVIOUS
  <2>2. ~(k < m)
    BY <1>1, <2>1 DEF Before
  <2> QED BY <2>1, <2>2
<1> QED BY <1>2

LEMMA GreatestOf ==
  ASSUME NEW n \in Nat, NEW T \in SUBSET (1..n), T # {}
  PROVE  \E m \in T : \A k \in T : k <= m
<1> DEFINE back == {n - k : k \in T}
<1>1. back \in SUBSET Nat /\ back # {}
  <2>1. \A k \in T : n - k \in Nat
    OBVIOUS
  <2> QED BY <2>1
<1>2. PICK d \in back : \A e \in back : d <= e
  BY <1>1, LeastOf
<1>3. PICK m \in T : d = n - m
  OBVIOUS
<1>4. \A k \in T : n - m <= n - k
  BY <1>2, <1>3
<1>5. \A k \in T : k <= m
  BY <1>4
<1> QED BY <1>5

-----------------------------------------------------------------------------
(* Automatic assignment: types. *)

\* What a step leaves alone keeps its type.
LEMMA LabelsKept ==
  ASSUME LabelsOK, UNCHANGED <<label, chosen, origin, shared, live>>
  PROVE  LabelsOK'
BY DEF LabelsOK

LEMMA RunsKept ==
  ASSUME RunsOK, UNCHANGED <<runs, auto>>
  PROVE  RunsOK'
BY DEF RunsOK

LEMMA TrainingKept ==
  ASSUME TrainingOK, UNCHANGED <<lessons, trainer, learned>>
  PROVE  TrainingOK'
BY DEF TrainingOK

LEMMA NotedKept ==
  ASSUME NotedOK, UNCHANGED noted
  PROVE  NotedOK'
BY DEF NotedOK

LEMMA CountedTyped ==
  ASSUME NotedOK, Act
  PROVE  /\ Counted \in Noted /\ Counted.acts = noted.acts + 1 /\ Counted.acts <= MaxAsg
         /\ Counted.torn = noted.torn /\ Counted.taught = noted.taught
         /\ Counted.wiped = noted.wiped /\ Counted.acts # noted.acts
<1>1. noted \in Noted /\ noted.acts \in Nat /\ noted.acts + 1 <= MaxAsg
  BY AssignAssumption DEF NotedOK, Act, Noted
<1>2. noted.acts + 1 \in Nat /\ noted.acts + 1 # noted.acts
  BY <1>1
<1>3. Counted.acts = noted.acts + 1 /\ Counted.torn = noted.torn /\ Counted.taught = noted.taught
      /\ Counted.wiped = noted.wiped
  BY <1>1 DEF Counted, Noted
<1>4. Counted \in Noted
  BY <1>1, <1>2 DEF Counted, Noted
<1> QED BY <1>1, <1>2, <1>3, <1>4

\* What an act leaves of the history when it also marks a run or a lesson.
LEMMA NotedMade ==
  ASSUME NotedOK, Act,
         \/ noted' = Counted
         \/ \E p \in MaybeProj : noted' = [Counted EXCEPT !.taught = @ \cup ({p} \ {Unset})]
         \/ \E i \in Nat : noted' = [Counted EXCEPT !.torn = @ \cup {i}]
         \/ noted' = [Counted EXCEPT !.wiped = TRUE, !.torn = {}]
  PROVE  NotedOK'
<1> DEFINE q == Counted
<1>1. q \in Noted /\ q.acts <= MaxAsg
  BY CountedTyped
<1>2. ASSUME NEW p \in MaybeProj
      PROVE  LET r == [q EXCEPT !.taught = @ \cup ({p} \ {Unset})] IN r \in Noted /\ r.acts = q.acts
  <2> HIDE DEF q
  <2> QED BY <1>1 DEF Noted, MaybeProj
<1>3. ASSUME NEW i \in Nat
      PROVE  LET r == [q EXCEPT !.torn = @ \cup {i}] IN r \in Noted /\ r.acts = q.acts
  <2> HIDE DEF q
  <2> QED BY <1>1 DEF Noted
<1>4. LET r == [q EXCEPT !.wiped = TRUE, !.torn = {}] IN r \in Noted /\ r.acts = q.acts
  <2> HIDE DEF q
  <2> QED BY <1>1 DEF Noted
<1> QED BY <1>1, <1>2, <1>3, <1>4 DEF NotedOK

LEMMA TornTyped ==
  ASSUME NotedOK, NEW i \in Nat, noted' = [noted EXCEPT !.torn = @ \cup {i}]
  PROVE  NotedOK'
<1>1. noted' \in Noted /\ noted'.acts = noted.acts
  BY DEF NotedOK, Noted
<1> QED BY <1>1 DEF NotedOK

LEMMA AutoFields ==
  ASSUME RunsOK
  PROVE  /\ auto.pc \in {"off", "batch", "count"} /\ auto.todo \in SUBSET AsgSess
         /\ auto.count \in Count /\ auto.count \in Nat
<1>1. auto \in AutoState
  BY DEF RunsOK
<1>2. auto.pc \in {"off", "batch", "count"} /\ auto.todo \in SUBSET AsgSess /\ auto.count \in Count
  BY <1>1 DEF AutoState
<1> QED BY <1>2 DEF Count

LEMMA AutoMade ==
  ASSUME NEW pc \in {"off", "batch", "count"}, NEW todo \in SUBSET AsgSess, NEW count \in Count
  PROVE  [pc |-> pc, todo |-> todo, count |-> count] \in AutoState
BY DEF AutoState

LEMMA RunChanged ==
  ASSUME NEW q \in Seq(AutoRun), NEW i \in DOMAIN q, NEW r \in AutoRun
  PROVE  /\ [q EXCEPT ![i] = r] \in Seq(AutoRun) /\ [q EXCEPT ![i] = r] # <<>>
         /\ DOMAIN [q EXCEPT ![i] = r] = DOMAIN q /\ Len([q EXCEPT ![i] = r]) = Len(q)
OBVIOUS

LEMMA LastRun ==
  ASSUME RunsOK, runs # <<>>
  PROVE  /\ Len(runs) \in DOMAIN runs /\ runs[Len(runs)] \in AutoRun /\ runs \in Seq(AutoRun)
         /\ Len(runs) \in Nat
BY DEF RunsOK

\* Writing a field of a run leaves a sequence of as many runs.
LEMMA AssignedWritten ==
  ASSUME NEW q \in Seq(AutoRun), NEW i \in DOMAIN q, NEW n \in Count
  PROVE  /\ [q EXCEPT ![i].assigned = n] \in Seq(AutoRun) /\ [q EXCEPT ![i].assigned = n] # <<>>
         /\ Len([q EXCEPT ![i].assigned = n]) = Len(q)
<1> DEFINE r == [q[i] EXCEPT !.assigned = n]
<1>1. r \in AutoRun
  <2>1. q[i] \in AutoRun
    OBVIOUS
  <2> QED BY <2>1 DEF AutoRun
<1>2. [q EXCEPT ![i].assigned = n] = [q EXCEPT ![i] = r]
  OBVIOUS
<1> HIDE DEF r
<1> QED BY <1>1, <1>2, RunChanged

LEMMA ItemWritten ==
  ASSUME NEW q \in Seq(AutoRun), NEW i \in DOMAIN q, NEW x \in AsgSess \X AsgProj
  PROVE  /\ [q EXCEPT ![i].items = @ \cup {x}] \in Seq(AutoRun)
         /\ [q EXCEPT ![i].items = @ \cup {x}] # <<>>
         /\ Len([q EXCEPT ![i].items = @ \cup {x}]) = Len(q)
<1> DEFINE r == [q[i] EXCEPT !.items = @ \cup {x}]
           new == [q EXCEPT ![i].items = @ \cup {x}]
<1>1. q[i] \in AutoRun
  OBVIOUS
<1>2. r \in AutoRun
  BY <1>1 DEF AutoRun
<1>3. new = [q EXCEPT ![i] = r]
  OBVIOUS
<1>4. new \in Seq(AutoRun) /\ new # <<>> /\ Len(new) = Len(q)
  <2> HIDE DEF r, new
  <2> QED BY <1>2, <1>3, RunChanged
<1> QED BY <1>4

LEMMA RolledWritten ==
  ASSUME NEW q \in Seq(AutoRun), NEW i \in DOMAIN q
  PROVE  /\ [q EXCEPT ![i].rolled = TRUE] \in Seq(AutoRun) /\ [q EXCEPT ![i].rolled = TRUE] # <<>>
         /\ Len([q EXCEPT ![i].rolled = TRUE]) = Len(q)
<1> DEFINE r == [q[i] EXCEPT !.rolled = TRUE]
<1>1. q[i] \in AutoRun
  OBVIOUS
<1>2. r \in AutoRun
  BY <1>1 DEF AutoRun
<1>3. [q EXCEPT ![i].rolled = TRUE] = [q EXCEPT ![i] = r]
  OBVIOUS
<1> HIDE DEF r
<1> QED BY <1>2, <1>3, RunChanged

LEMMA RolledOne ==
  ASSUME RunsOK, Undoable # {}
  PROVE  RolledRun \in Undoable /\ RolledRun \in DOMAIN runs /\ RolledRun \in Nat
<1>1. Undoable \in SUBSET (1..Len(runs)) /\ Len(runs) \in Nat
  BY DEF Undoable, RunsOK
<1>2. PICK m \in Undoable : \A k \in Undoable : k <= m
  BY <1>1, GreatestOf
<1>3. RolledRun \in Undoable
  BY <1>2 DEF RolledRun
<1> QED BY <1>1, <1>3 DEF Undoable

LEMMA TrainerFields ==
  ASSUME TrainingOK
  PROVE  /\ trainer.pc \in {"off", "full", "incremental", "record"} /\ trainer.flag \in BOOLEAN
         /\ trainer.last \in Date \cup {Never} /\ trainer.day \in Date
<1>1. trainer \in Trainer
  BY DEF TrainingOK
<1> QED BY <1>1 DEF Trainer

LEMMA SessionsFinite ==
  /\ Cardinality(AsgSess) \in Nat /\ Cardinality({}) = 0 /\ 0 \in Count
  /\ \A T \in SUBSET AsgSess : /\ IsFiniteSet(T) /\ Cardinality(T) \in Nat
                               /\ Cardinality(T) <= Cardinality(AsgSess)
                               /\ \A s \in T : Cardinality(T \ {s}) = Cardinality(T) - 1
BY AssignAssumption, FS_Subset, FS_CardinalityType, FS_EmptySet, FS_RemoveElement DEF Count

LEMMA SuggestedTyped ==
  ASSUME LabelsOK, TrainingOK, NEW s \in AsgSess
  PROVE  Suggestions(s) \subseteq AsgProj
BY DEF LabelsOK, TrainingOK, Suggestions, PathFact, StoredFact, Remembered

LEMMA LessonsTyped ==
  ASSUME TrainingOK
  PROVE  /\ \A i \in DOMAIN lessons : lessons[i].to \in AsgProj
         /\ \A days : Lessons(days) \subseteq AsgProj
<1>1. ASSUME NEW i \in DOMAIN lessons
      PROVE  lessons[i].to \in AsgProj
  <2>1. lessons[i] \in Lesson
    BY DEF TrainingOK
  <2> QED BY <2>1 DEF Lesson
<1> QED BY <1>1 DEF Lessons

LEMMA LearnedTyped ==
  ASSUME LabelsOK, TrainingOK
  PROVE  retrain_model \subseteq AsgProj /\ retrain_model_incremental \subseteq AsgProj
<1>1. \A s \in AsgSess : UserLabel(s) => label[s] \in AsgProj
  BY DEF UserLabel, LabelsOK, MaybeProj
<1> QED BY <1>1, LessonsTyped DEF retrain_model, retrain_model_incremental, TrainingOK

LEMMA NextInSet ==
  ASSUME NEW todo, todo # {}
  PROVE  NextIn(todo) \in todo
BY DEF NextIn

-----------------------------------------------------------------------------
(* A run under way. *)

\* What is assigned and what is still to do never exceed the sessions there are.
RunFits ==
  /\ auto.pc # "off" => runs # <<>>
  /\ auto.count + Cardinality(auto.todo) <= Cardinality(AsgSess)

LEMMA RunFitsKept ==
  ASSUME RunFits, UNCHANGED <<runs, auto>>
  PROVE  RunFits'
BY DEF RunFits

\* A batch under way leaves room for one more.
LEMMA BatchFits ==
  ASSUME RunsOK, RunFits, NEW s \in AsgSess, auto.todo # {}, s = NextIn(auto.todo)
  PROVE  /\ auto.todo \ {s} \in SUBSET AsgSess /\ auto.count + 1 \in Count
         /\ auto.count + 1 + Cardinality(auto.todo \ {s}) <= Cardinality(AsgSess)
         /\ auto.count + Cardinality(auto.todo \ {s}) <= Cardinality(AsgSess)
<1>1. s \in auto.todo /\ auto.todo \in SUBSET AsgSess /\ auto.count \in Nat
  BY NextInSet, AutoFields
<1>2. /\ Cardinality(auto.todo) \in Nat /\ Cardinality(AsgSess) \in Nat
      /\ Cardinality(auto.todo \ {s}) = Cardinality(auto.todo) - 1
      /\ Cardinality(auto.todo \ {s}) \in Nat
  BY <1>1, SessionsFinite
<1>3. auto.count + Cardinality(auto.todo) <= Cardinality(AsgSess)
  BY DEF RunFits
<1>4. auto.count + 1 + Cardinality(auto.todo \ {s}) <= Cardinality(AsgSess)
  BY <1>1, <1>2, <1>3
<1>5. auto.count + 1 \in Count
  BY <1>1, <1>2, <1>4 DEF Count
<1> QED BY <1>1, <1>2, <1>4, <1>5

LEMMA EndedFits ==
  ASSUME auto' = [pc |-> "off", todo |-> {}, count |-> 0]
  PROVE  auto' \in AutoState /\ RunFits'
<1>1. auto' \in AutoState
  BY SessionsFinite, AutoMade
<1> QED BY <1>1, SessionsFinite DEF RunFits

LEMMA RunTypes ==
  ASSUME AsgTypeOK, RunFits,
         \/ StartRun \/ CountBatch \/ FinishRun \/ CrashInRun \/ rollback_run
         \/ \E s \in AsgSess : SkipBatch(s) \/ AssignBatch(s) \/ FailBatch(s)
  PROVE  AsgTypeOK' /\ RunFits'
<1> USE DEF AsgTypeOK
<1>1. ASSUME StartRun
      PROVE  AsgTypeOK' /\ RunFits'
  <2> DEFINE new == [assigned |-> 0, items |-> {}, rolled |-> FALSE]
             todo == {s \in AsgSess : label[s] = Unset}
  <2>1. new \in AutoRun
    BY SessionsFinite DEF AutoRun
  <2>2. Append(runs, new) \in Seq(AutoRun) /\ Append(runs, new) # <<>>
    <3> HIDE DEF new
    <3>1. runs \in Seq(AutoRun)
      BY DEF RunsOK
    <3> QED BY <2>1, <3>1
  <2>3. todo \in SUBSET AsgSess
    OBVIOUS
  <2> HIDE DEF new, todo
  <2>4. auto' = [pc |-> "batch", todo |-> todo, count |-> 0] /\ runs' = Append(runs, new)
    BY <1>1 DEF StartRun, new, todo
  <2>5. RunsOK'
    BY <2>2, <2>3, <2>4, SessionsFinite, AutoMade DEF RunsOK
  <2>6. RunFits'
    BY <2>2, <2>3, <2>4, SessionsFinite DEF RunFits
  <2>7. LabelsOK' /\ TrainingOK' /\ NotedOK'
    BY <1>1, LabelsKept, TrainingKept, NotedMade DEF StartRun
  <2> QED BY <2>5, <2>6, <2>7
<1>2. ASSUME CountBatch \/ FinishRun
      PROVE  AsgTypeOK' /\ RunFits'
  <2>1. runs # <<>> /\ runs' = [runs EXCEPT ![Len(runs)].assigned = auto.count]
    BY <1>2 DEF CountBatch, FinishRun, WrittenCount, RunFits
  <2>2. runs' \in Seq(AutoRun) /\ runs' # <<>>
    BY <2>1, LastRun, AutoFields, AssignedWritten
  <2>3. PICK n \in Count : /\ n \in {0, auto.count}
                           /\ auto' = [auto EXCEPT !.pc = IF FinishRun THEN "off" ELSE "batch", !.count = n]
    <3>1. CASE CountBatch
      <4>1. auto' = [auto EXCEPT !.pc = "batch", !.count = auto.count]
        BY <3>1, AutoFields DEF CountBatch, RunsOK, AutoState
      <4>2. ~FinishRun
        BY <3>1 DEF CountBatch, FinishRun
      <4> QED BY <4>1, <4>2, AutoFields
    <3>2. CASE FinishRun
      BY <3>2, SessionsFinite DEF FinishRun
    <3> QED BY <1>2, <3>1, <3>2
  <2>4. auto' \in AutoState /\ auto'.todo = auto.todo /\ auto'.count = n
    BY <2>3 DEF RunsOK, AutoState
  <2>5. RunFits'
    BY <2>2, <2>3, <2>4, SessionsFinite, AutoFields DEF RunFits
  <2>6. LabelsOK' /\ TrainingOK' /\ NotedOK'
    BY <1>2, LabelsKept, TrainingKept, NotedKept DEF CountBatch, FinishRun
  <2> QED BY <2>2, <2>4, <2>5, <2>6 DEF RunsOK
<1>3. ASSUME CrashInRun
      PROVE  AsgTypeOK' /\ RunFits'
  <2>1. auto' \in AutoState /\ RunFits' /\ RunsOK'
    BY <1>3, EndedFits DEF CrashInRun, RunsOK
  <2>2. NotedOK'
    <3>1. Len(runs) \in Nat
      BY DEF RunsOK
    <3>2. CASE auto.pc = "count"
      BY <1>3, <3>1, <3>2, NotedMade DEF CrashInRun
    <3>3. CASE auto.pc # "count"
      <4>1. noted' = Counted
        BY <1>3, <3>3, CountedTyped DEF CrashInRun, Noted
      <4> QED BY <1>3, <4>1, NotedMade DEF CrashInRun
    <3> QED BY <3>2, <3>3
  <2>3. LabelsOK' /\ TrainingOK'
    BY <1>3, LabelsKept, TrainingKept DEF CrashInRun
  <2> QED BY <2>1, <2>2, <2>3
<1>4. ASSUME rollback_run
      PROVE  AsgTypeOK' /\ RunFits'
  <2>1. RolledRun \in DOMAIN runs /\ RolledRun \in Nat
    BY <1>4, RolledOne DEF rollback_run
  <2>2. runs' = [runs EXCEPT ![RolledRun].rolled = TRUE] /\ auto' = auto
    BY <1>4 DEF rollback_run
  <2>3. runs' \in Seq(AutoRun) /\ runs' # <<>>
    BY <2>1, <2>2, RolledWritten DEF RunsOK
  <2>4. RunsOK' /\ RunFits'
    BY <2>2, <2>3 DEF RunsOK, RunFits
  <2>5. NotedOK'
    BY <1>4, <2>1, TornTyped, NotedKept DEF rollback_run
  <2>6. LabelsOK'
    BY <1>4 DEF rollback_run, LabelsOK, MaybeProj
  <2>7. TrainingOK'
    BY <1>4, TrainingKept DEF rollback_run
  <2> QED BY <2>4, <2>5, <2>6, <2>7
<1>5. ASSUME NEW s \in AsgSess, SkipBatch(s)
      PROVE  AsgTypeOK' /\ RunFits'
  <2>1. /\ auto.todo \ {s} \in SUBSET AsgSess
        /\ auto.count + Cardinality(auto.todo \ {s}) <= Cardinality(AsgSess)
    BY <1>5, BatchFits DEF SkipBatch
  <2>2. auto' = [auto EXCEPT !.todo = auto.todo \ {s}] /\ runs' = runs
    BY <1>5 DEF SkipBatch
  <2>3. /\ auto' \in AutoState /\ auto'.todo = auto.todo \ {s} /\ auto'.count = auto.count
        /\ auto'.pc = auto.pc
    BY <2>1, <2>2 DEF RunsOK, AutoState
  <2>4. RunsOK' /\ RunFits'
    BY <2>1, <2>2, <2>3 DEF RunsOK, RunFits
  <2>5. LabelsOK' /\ TrainingOK' /\ NotedOK'
    BY <1>5, LabelsKept, TrainingKept, NotedKept DEF SkipBatch
  <2> QED BY <2>4, <2>5
<1>6. ASSUME NEW s \in AsgSess, AssignBatch(s)
      PROVE  AsgTypeOK' /\ RunFits'
  <2>1. /\ auto.todo \ {s} \in SUBSET AsgSess /\ auto.count + 1 \in Count
        /\ auto.count + 1 + Cardinality(auto.todo \ {s}) <= Cardinality(AsgSess)
    BY <1>6, BatchFits DEF AssignBatch
  <2>2. PICK p \in AsgProj : /\ label' = [label EXCEPT ![s] = p] /\ shared' = FilledIn(p)
                             /\ runs' = [runs EXCEPT ![Len(runs)].items = @ \cup {<<s, p>>}]
    BY <1>6, SuggestedTyped DEF AssignBatch
  <2>3. runs # <<>>
    BY <1>6 DEF AssignBatch, RunFits
  <2>4. runs' \in Seq(AutoRun) /\ runs' # <<>>
    BY <2>2, <2>3, LastRun, ItemWritten, ZenonT(40)
  <2>5. auto' = [pc |-> "count", todo |-> auto.todo \ {s}, count |-> auto.count + 1]
    BY <1>6 DEF AssignBatch
  <2>6. RunsOK' /\ RunFits'
    <3>1. auto' \in AutoState
      BY <2>1, <2>5, AutoMade
    <3>2. auto'.todo = auto.todo \ {s} /\ auto'.count = auto.count + 1
      BY <2>5
    <3> QED BY <2>1, <2>4, <3>1, <3>2 DEF RunsOK, RunFits
  <2>7. NotedOK'
    BY <1>6, <2>3, LastRun, TornTyped, NotedKept DEF AssignBatch
  <2>8. LabelsOK'
    <3>1. origin' = [origin EXCEPT ![s] = "auto_accept"] /\ chosen' = chosen /\ live' = live
      BY <1>6 DEF AssignBatch
    <3> QED BY <2>2, <3>1 DEF LabelsOK, MaybeProj, FilledIn
  <2>9. TrainingOK'
    BY <1>6, TrainingKept DEF AssignBatch
  <2> QED BY <2>6, <2>7, <2>8, <2>9
<1>7. ASSUME NEW s \in AsgSess, FailBatch(s)
      PROVE  AsgTypeOK' /\ RunFits'
  <2>1. auto.count + 1 \in Count /\ runs # <<>>
    BY <1>7, BatchFits DEF FailBatch, RunFits
  <2>2. runs' = [runs EXCEPT ![Len(runs)].assigned = auto.count + 1]
        /\ auto' = [pc |-> "off", todo |-> {}, count |-> 0]
    BY <1>7 DEF FailBatch
  <2>3. runs' \in Seq(AutoRun)
    BY <2>1, <2>2, LastRun, AssignedWritten
  <2>4. auto' \in AutoState /\ RunFits'
    BY <2>2, EndedFits
  <2>5. LabelsOK' /\ TrainingOK' /\ NotedOK'
    BY <1>7, LabelsKept, TrainingKept, NotedMade DEF FailBatch
  <2> QED BY <2>3, <2>4, <2>5 DEF RunsOK
<1> QED BY <1>1, <1>2, <1>3, <1>4, <1>5, <1>6, <1>7

LEMMA AsgTypes ==
  ASSUME AsgTypeOK, RunFits, [AsgNext]_asgVars
  PROVE  AsgTypeOK' /\ RunFits'
<1> USE DEF AsgTypeOK
<1>1. ASSUME NEW s \in AsgSess, NEW p \in MaybeProj, AssignByHand(s, p)
      PROVE  AsgTypeOK' /\ RunFits'
  <2>1. lessons' \in Seq(Lesson)
    <3>1. lessons \in Seq(Lesson)
      BY DEF TrainingOK
    <3>2. CASE p = Unset
      BY <1>1, <3>1, <3>2 DEF AssignByHand
    <3>3. CASE p # Unset
      <4> DEFINE l == [to |-> p, day |-> trainer.day]
      <4>1. l \in Lesson
        BY <3>3, TrainerFields DEF Lesson, MaybeProj
      <4>2. lessons' = Append(lessons, l)
        BY <1>1, <3>3 DEF AssignByHand
      <4> HIDE DEF l
      <4> QED BY <3>1, <4>1, <4>2
    <3> QED BY <3>2, <3>3
  <2>2. TrainingOK'
    BY <1>1, <2>1 DEF AssignByHand, TrainingOK
  <2>3. LabelsOK'
    BY <1>1 DEF AssignByHand, LabelsOK
  <2>4. NotedOK'
    BY <1>1, NotedMade DEF AssignByHand
  <2>5. RunsOK' /\ RunFits'
    BY <1>1, RunsKept, RunFitsKept DEF AssignByHand
  <2> QED BY <2>2, <2>3, <2>4, <2>5
<1>2. ASSUME NEW p \in AsgProj, SetActive(p)
      PROVE  AsgTypeOK' /\ RunFits'
  <2>1. LabelsOK'
    BY <1>2 DEF SetActive, LabelsOK
  <2> QED BY <1>2, <2>1, RunsKept, RunFitsKept, TrainingKept, NotedMade DEF SetActive
<1>3. ASSUME Rule
      PROVE  AsgTypeOK' /\ RunFits'
  <2>1. LabelsOK'
    BY <1>3 DEF Rule, RuleProjects, FilledIn, LabelsOK, MaybeProj
  <2> QED BY <1>3, <2>1, RunsKept, RunFitsKept, TrainingKept, NotedKept DEF Rule
<1>4. ASSUME \/ Train
             \/ \E full \in BOOLEAN : StartTraining(full)
             \/ \E done \in BOOLEAN : EndTraining(done)
             \/ CrashInTraining \/ ResetWeights \/ NextDay
      PROVE  AsgTypeOK' /\ RunFits'
  <2>1. trainer \in Trainer /\ lessons \in Seq(Lesson)
    BY DEF TrainingOK
  <2>2. trainer' \in Trainer
    <3>1. CASE Train
      BY <2>1, <3>1 DEF Train, Trainer
    <3>2. ASSUME NEW full \in BOOLEAN, StartTraining(full)
          PROVE  trainer' \in Trainer
      BY <2>1, <3>2 DEF StartTraining, Trainer
    <3>3. ASSUME NEW done \in BOOLEAN, EndTraining(done)
          PROVE  trainer' \in Trainer
      BY <2>1, <3>3 DEF EndTraining, Trainer
    <3>4. CASE CrashInTraining \/ ResetWeights
      BY <2>1, <3>4 DEF CrashInTraining, ResetWeights, Trainer
    <3>5. CASE NextDay
      <4>1. trainer.day + 1 \in Date
        BY <3>5, TrainerFields, AssignAssumption DEF NextDay, Date
      <4> QED BY <2>1, <3>5, <4>1 DEF NextDay, Trainer
    <3> QED BY <1>4, <3>1, <3>2, <3>3, <3>4, <3>5
  <2>3. learned' \subseteq AsgProj /\ lessons' = lessons
    BY <1>4, LearnedTyped DEF Train, StartTraining, EndTraining, CrashInTraining, ResetWeights,
      NextDay, TrainingOK
  <2>4. NotedOK'
    BY <1>4, NotedMade, NotedKept DEF Train, StartTraining, EndTraining, CrashInTraining,
      ResetWeights, NextDay
  <2>5. LabelsOK' /\ RunsOK' /\ RunFits'
    BY <1>4, LabelsKept, RunsKept, RunFitsKept DEF Train, StartTraining, EndTraining,
      CrashInTraining, ResetWeights, NextDay
  <2> QED BY <2>1, <2>2, <2>3, <2>4, <2>5 DEF TrainingOK
<1>5. ASSUME ResetFull
      PROVE  AsgTypeOK' /\ RunFits'
  <2>1. trainer' \in Trainer
    BY <1>5 DEF ResetFull, TrainingOK, Trainer
  <2>2. NotedOK'
    BY <1>5, NotedMade DEF ResetFull
  <2>3. LabelsOK'
    BY <1>5 DEF ResetFull, LabelsOK
  <2>4. RunsOK' /\ RunFits'
    BY <1>5 DEF ResetFull, RunsOK, RunFits
  <2>5. TrainingOK'
    BY <1>5, <2>1 DEF ResetFull, TrainingOK
  <2> QED BY <2>2, <2>3, <2>4, <2>5
<1>6. CASE UNCHANGED asgVars
  BY <1>6, LabelsKept, RunsKept, RunFitsKept, TrainingKept, NotedKept DEF asgVars
<1> QED BY <1>1, <1>2, <1>3, <1>4, <1>5, <1>6, RunTypes DEF AsgNext

-----------------------------------------------------------------------------
(* Learning: labels that count as the user's, the feedback and the weights   *)
(* name only projects that the user taught.                                  *)

Taught ==
  noted.wiped \/ /\ learned \subseteq noted.taught
                 /\ \A i \in DOMAIN lessons : lessons[i].to \in noted.taught
                 /\ \A s \in AsgSess : UserLabel(s) => label[s] \in noted.taught

\* The labels that count as the user's are those of before, and nothing is forgotten.
LEMMA TaughtFrame ==
  ASSUME Taught, UNCHANGED <<lessons, learned>>,
         noted.wiped => noted'.wiped, noted.taught \subseteq noted'.taught,
         \A s \in AsgSess : UserLabel(s)' => UserLabel(s) /\ label'[s] = label[s]
  PROVE  Taught'
BY DEF Taught

LEMMA NotedFields ==
  ASSUME NotedOK
  PROVE  /\ noted.wiped \in BOOLEAN /\ noted.acts \in Nat /\ noted.torn \in SUBSET Nat
         /\ \A i : LET n == [noted EXCEPT !.torn = @ \cup {i}] IN
              /\ n.wiped = noted.wiped /\ n.taught = noted.taught /\ n.acts = noted.acts
              /\ n.torn = noted.torn \cup {i}
         /\ Counted.taught = noted.taught /\ Counted.wiped = noted.wiped /\ Counted.torn = noted.torn
         /\ Counted.acts = noted.acts + 1 /\ Counted.acts # noted.acts
<1>1. noted \in Noted
  BY DEF NotedOK
<1>2. noted.acts \in Nat /\ noted.acts + 1 # noted.acts
  BY <1>1 DEF Noted
<1> QED BY <1>1, <1>2 DEF Noted, Counted

LEMMA TaughtStep ==
  ASSUME AsgTypeOK, Taught, [AsgNext]_asgVars
  PROVE  Taught'
<1> USE DEF AsgTypeOK
<1>1. ASSUME NEW s \in AsgSess, NEW p \in MaybeProj, AssignByHand(s, p)
      PROVE  Taught'
  <2> DEFINE n == [Counted EXCEPT !.taught = @ \cup ({p} \ {Unset})]
  <2>1. n.wiped = noted.wiped /\ n.taught = noted.taught \cup ({p} \ {Unset})
    BY <1>1, CountedTyped DEF AssignByHand, Noted
  <2>2. noted' = n
    BY <1>1 DEF AssignByHand
  <2> HIDE DEF n
  <2>3. \A t \in AsgSess : UserLabel(t)' => \/ UserLabel(t) /\ label'[t] = label[t]
                                            \/ label'[t] = p /\ p # Unset
    BY <1>1 DEF AssignByHand, UserLabel, LabelsOK
  <2>4. \A i \in DOMAIN lessons' : \/ i \in DOMAIN lessons /\ lessons'[i] = lessons[i]
                                   \/ lessons'[i].to = p /\ p # Unset
    <3>1. lessons \in Seq(Lesson)
      BY DEF TrainingOK
    <3>2. CASE p = Unset
      BY <1>1, <3>2 DEF AssignByHand
    <3>3. CASE p # Unset
      <4> DEFINE l == [to |-> p, day |-> trainer.day]
      <4>1. lessons' = Append(lessons, l) /\ l.to = p
        BY <1>1, <3>3 DEF AssignByHand
      <4> HIDE DEF l
      <4> QED BY <3>1, <3>3, <4>1
    <3> QED BY <3>2, <3>3
  <2>5. learned' = learned
    BY <1>1 DEF AssignByHand
  <2> QED BY <2>1, <2>2, <2>3, <2>4, <2>5 DEF Taught
<1>2. ASSUME NEW p \in AsgProj, SetActive(p)
      PROVE  Taught'
  BY <1>2, NotedFields, TaughtFrame DEF SetActive, UserLabel
<1>3. ASSUME \/ StartRun \/ CountBatch \/ FinishRun \/ CrashInTraining \/ NextDay
             \/ \E s \in AsgSess : SkipBatch(s) \/ FailBatch(s)
             \/ \E full \in BOOLEAN : StartTraining(full)
             \/ \E done \in BOOLEAN : EndTraining(done)
      PROVE  Taught'
  <2>1. UNCHANGED <<label, origin, lessons, learned>> /\ noted' \in {noted, Counted}
    BY <1>3 DEF StartRun, CountBatch, FinishRun, CrashInTraining, NextDay, SkipBatch, FailBatch,
      StartTraining, EndTraining
  <2> QED BY <2>1, NotedFields, TaughtFrame, SMTT(30) DEF UserLabel
<1>4. ASSUME CrashInRun
      PROVE  Taught'
  <2>1. noted'.wiped = noted.wiped /\ noted'.taught = noted.taught
    BY <1>4, CountedTyped DEF CrashInRun, Noted
  <2> QED BY <1>4, <2>1, TaughtFrame DEF CrashInRun, UserLabel
<1>5. ASSUME NEW s \in AsgSess, AssignBatch(s)
      PROVE  Taught'
  <2>1. noted'.wiped = noted.wiped /\ noted'.taught = noted.taught
    BY <1>5, NotedFields DEF AssignBatch
  <2>2. PICK p : label' = [label EXCEPT ![s] = p]
    BY <1>5 DEF AssignBatch
  <2>3. origin' = [origin EXCEPT ![s] = "auto_accept"] /\ UNCHANGED <<lessons, learned>>
    BY <1>5 DEF AssignBatch
  <2>4. \A t \in AsgSess : UserLabel(t)' => UserLabel(t) /\ label'[t] = label[t]
    BY <2>2, <2>3 DEF UserLabel, LabelsOK
  <2> QED BY <2>1, <2>3, <2>4, TaughtFrame
<1>6. ASSUME rollback_run
      PROVE  Taught'
  <2>1. noted'.wiped = noted.wiped /\ noted'.taught = noted.taught
    BY <1>6, NotedFields DEF rollback_run
  <2>2. \A t \in AsgSess : UserLabel(t)' => UserLabel(t) /\ label'[t] = label[t]
    BY <1>6 DEF rollback_run, UserLabel
  <2> QED BY <1>6, <2>1, <2>2, TaughtFrame DEF rollback_run
<1>7. ASSUME Rule
      PROVE  Taught'
  <2>1. \A t \in AsgSess : UserLabel(t)' => UserLabel(t) /\ label'[t] = label[t]
    BY <1>7 DEF Rule, RuleProjects, Unlabelled, UserLabel
  <2> QED BY <1>7, <2>1, TaughtFrame DEF Rule
<1>8. ASSUME Train
      PROVE  Taught'
  <2>1. noted' = noted /\ lessons' = lessons /\ label' = label /\ origin' = origin
    BY <1>8 DEF Train
  <2>2. CASE noted.wiped
    BY <2>1, <2>2 DEF Taught
  <2>3. CASE ~noted.wiped
    <3>1. \A days : Lessons(days) \subseteq noted.taught
      BY <2>3 DEF Taught, Lessons
    <3>2. learned' \subseteq noted.taught
      BY <1>8, <2>3, <3>1 DEF Train, Taught, retrain_model, retrain_model_incremental
    <3> QED BY <2>1, <3>2 DEF Taught, UserLabel
  <2> QED BY <2>2, <2>3
<1>9. ASSUME ResetWeights
      PROVE  Taught'
  BY <1>9, NotedFields DEF ResetWeights, Taught, UserLabel
<1>10. ASSUME ResetFull
      PROVE  Taught'
  <2>1. noted'.wiped
    BY <1>10, CountedTyped DEF ResetFull, Noted
  <2> QED BY <2>1 DEF Taught
<1>11. CASE UNCHANGED asgVars
  BY <1>11 DEF asgVars, Taught, UserLabel
<1>12. AsgNext => Taught'
  BY <1>1, <1>2, <1>3, <1>4, <1>5, <1>6, <1>7, <1>8, <1>9, <1>10, Zenon DEF AsgNext
<1> QED BY <1>11, <1>12

-----------------------------------------------------------------------------
(* Undoing: the counts of a run follow its batches.                          *)

CountsFollow ==
  /\ auto.pc = "batch" => runs[Len(runs)].assigned = auto.count
  /\ auto.pc = "count" => /\ auto.count > 0
                          /\ runs[Len(runs)].rolled => Len(runs) \in noted.torn

LEMMA StillUndoable ==
  ASSUME AutoRunsCanBeUndone, NEW i \in DOMAIN runs, NEW s \in AsgSess,
         <<s, label[s]>> \in runs[i].items, origin[s] = "auto_accept"
  PROVE  \/ i \in Undoable \/ i \in noted.torn \/ (i = Len(runs) /\ auto.pc = "count")
         \/ \E j \in i + 1..Len(runs) : <<s, label[s]>> \in runs[j].items
BY DEF AutoRunsCanBeUndone

\* A step that gives no session to a run keeps every assignment undoable when it keeps
\* the runs that can be picked and those whose counts are still to be written.
LEMMA UndoFrame ==
  ASSUME AutoRunsCanBeUndone, RunsOK,
         DOMAIN runs' = DOMAIN runs, Len(runs') = Len(runs),
         \A i \in DOMAIN runs : runs'[i].items = runs[i].items,
         noted.torn \subseteq noted'.torn,
         \A s \in AsgSess : origin'[s] = "auto_accept"
                              => origin[s] = "auto_accept" /\ label'[s] = label[s],
         \A i \in DOMAIN runs : i \in Undoable => i \in Undoable',
         auto.pc = "count" => \/ auto'.pc = "count" \/ Len(runs) \in noted'.torn
                              \/ Len(runs) \in Undoable'
  PROVE  AutoRunsCanBeUndone'
<1> SUFFICES ASSUME NEW i \in DOMAIN runs, NEW s \in AsgSess,
                    <<s, label'[s]>> \in runs[i].items, origin'[s] = "auto_accept"
             PROVE  \/ i \in Undoable' \/ i \in noted'.torn
                    \/ i = Len(runs) /\ auto'.pc = "count"
                    \/ \E j \in i + 1..Len(runs) : <<s, label'[s]>> \in runs'[j].items
  BY DEF AutoRunsCanBeUndone
<1>1. origin[s] = "auto_accept" /\ label'[s] = label[s]
  OBVIOUS
<1>2. \/ i \in Undoable \/ i \in noted.torn \/ (i = Len(runs) /\ auto.pc = "count")
      \/ \E j \in i + 1..Len(runs) : <<s, label[s]>> \in runs[j].items
  <2>1. <<s, label[s]>> \in runs[i].items
    BY <1>1
  <2> QED BY <1>1, <2>1, StillUndoable
<1>3. ASSUME NEW j \in i + 1..Len(runs)
      PROVE  runs'[j].items = runs[j].items
  <2>1. j \in DOMAIN runs
    BY DEF RunsOK
  <2> QED BY <2>1
<1> QED BY <1>1, <1>2, <1>3

LEMMA UndoFrameSameRuns ==
  ASSUME AutoRunsCanBeUndone, RunsOK, runs' = runs, noted.torn \subseteq noted'.torn,
         \A s \in AsgSess : origin'[s] = "auto_accept"
                              => origin[s] = "auto_accept" /\ label'[s] = label[s],
         auto.pc = "count" => auto'.pc = "count" \/ Len(runs) \in noted'.torn
  PROVE  AutoRunsCanBeUndone'
BY UndoFrame DEF Undoable

\* What writing the count of the last run does.
LEMMA CountWritten ==
  ASSUME RunsOK, runs # <<>>, NEW n \in Nat, runs' = [runs EXCEPT ![Len(runs)].assigned = n]
  PROVE  /\ DOMAIN runs' = DOMAIN runs /\ Len(runs') = Len(runs) /\ Len(runs) \in DOMAIN runs
         /\ \A i \in DOMAIN runs : runs'[i].items = runs[i].items /\ runs'[i].rolled = runs[i].rolled
         /\ \A i \in DOMAIN runs : i # Len(runs) => runs'[i].assigned = runs[i].assigned
         /\ runs'[Len(runs)].assigned = n
<1> DEFINE r == [runs[Len(runs)] EXCEPT !.assigned = n]
<1>1. Len(runs) \in DOMAIN runs /\ runs[Len(runs)] \in AutoRun /\ runs \in Seq(AutoRun)
  BY LastRun
<1>2. r.items = runs[Len(runs)].items /\ r.rolled = runs[Len(runs)].rolled /\ r.assigned = n
  BY <1>1 DEF AutoRun
<1>3. runs' = [runs EXCEPT ![Len(runs)] = r]
  OBVIOUS
<1> HIDE DEF r
<1> QED BY <1>1, <1>2, <1>3

LEMMA UndoStep ==
  ASSUME AsgTypeOK, RunFits, CountsFollow, AutoRunsCanBeUndone, [AsgNext]_asgVars
  PROVE  CountsFollow' /\ AutoRunsCanBeUndone'
<1> USE DEF AsgTypeOK
<1>1. ASSUME NEW s \in AsgSess, NEW p \in MaybeProj, AssignByHand(s, p)
      PROVE  CountsFollow' /\ AutoRunsCanBeUndone'
  <2>1. noted'.torn = noted.torn
    BY <1>1, CountedTyped DEF AssignByHand, Noted
  <2>2. UNCHANGED <<runs, auto>>
    BY <1>1 DEF AssignByHand
  <2>3. \A t \in AsgSess : origin'[t] = "auto_accept"
                             => origin[t] = "auto_accept" /\ label'[t] = label[t]
    BY <1>1 DEF AssignByHand, LabelsOK
  <2> QED BY <2>1, <2>2, <2>3, UndoFrameSameRuns DEF CountsFollow
<1>2. ASSUME \/ CrashInTraining \/ NextDay \/ Train \/ ResetWeights
             \/ \E p \in AsgProj : SetActive(p)
             \/ \E full \in BOOLEAN : StartTraining(full)
             \/ \E done \in BOOLEAN : EndTraining(done)
      PROVE  CountsFollow' /\ AutoRunsCanBeUndone'
  <2>1. UNCHANGED <<label, origin, runs, auto>> /\ noted' \in {noted, Counted}
    BY <1>2 DEF CrashInTraining, NextDay, Train, ResetWeights, SetActive, StartTraining, EndTraining
  <2>2. noted'.torn = noted.torn
    BY <2>1, NotedFields
  <2> QED BY <2>1, <2>2, UndoFrameSameRuns DEF CountsFollow
<1>3. ASSUME StartRun
      PROVE  CountsFollow' /\ AutoRunsCanBeUndone'
  <2> DEFINE new == [assigned |-> 0, items |-> {}, rolled |-> FALSE]
  <2>1. new.assigned = 0 /\ new.items = {}
    OBVIOUS
  <2>2. runs' = Append(runs, new) /\ runs \in Seq(AutoRun)
    BY <1>3 DEF StartRun, RunsOK
  <2> HIDE DEF new
  <2>3. /\ Len(runs') = Len(runs) + 1 /\ DOMAIN runs' = DOMAIN runs \cup {Len(runs')}
        /\ \A i \in DOMAIN runs : runs'[i] = runs[i]
        /\ runs'[Len(runs')] = new
    BY <2>2
  <2>4. auto'.pc = "batch" /\ auto'.count = 0 /\ auto.pc = "off"
    BY <1>3 DEF StartRun
  <2>5. UNCHANGED <<label, origin>> /\ noted'.torn = noted.torn
    BY <1>3, NotedFields DEF StartRun
  <2>6. CountsFollow'
    BY <2>1, <2>3, <2>4 DEF CountsFollow
  <2>7. AutoRunsCanBeUndone'
    <3> SUFFICES ASSUME NEW i \in DOMAIN runs', NEW s \in AsgSess,
                        <<s, label'[s]>> \in runs'[i].items, origin'[s] = "auto_accept"
                 PROVE  \/ i \in Undoable' \/ i \in noted'.torn
                        \/ \E j \in i + 1..Len(runs') : <<s, label'[s]>> \in runs'[j].items
      BY DEF AutoRunsCanBeUndone
    <3>1. i \in DOMAIN runs /\ runs'[i] = runs[i]
      BY <2>1, <2>3
    <3>2. \/ i \in Undoable \/ i \in noted.torn
          \/ \E j \in i + 1..Len(runs) : <<s, label[s]>> \in runs[j].items
      BY <2>4, <2>5, <3>1 DEF AutoRunsCanBeUndone
    <3>3. i \in Undoable => i \in Undoable'
      BY <2>3, <3>1 DEF Undoable
    <3>4. \A j \in i + 1..Len(runs) : j \in i + 1..Len(runs') /\ runs'[j] = runs[j]
      BY <2>2, <2>3, <3>1
    <3> QED BY <2>5, <3>2, <3>3, <3>4
  <2> QED BY <2>6, <2>7
<1>4. ASSUME NEW s \in AsgSess, SkipBatch(s)
      PROVE  CountsFollow' /\ AutoRunsCanBeUndone'
  <2>1. UNCHANGED <<label, origin, runs, noted>> /\ auto.pc = "batch"
    BY <1>4 DEF SkipBatch
  <2>2. auto'.pc = auto.pc /\ auto'.count = auto.count
    BY <1>4 DEF SkipBatch, RunsOK, AutoState
  <2> QED BY <2>1, <2>2, UndoFrameSameRuns DEF CountsFollow
<1>5. ASSUME NEW s \in AsgSess, AssignBatch(s)
      PROVE  CountsFollow' /\ AutoRunsCanBeUndone'
  <2>1. runs # <<>> /\ auto.pc = "batch"
    BY <1>5 DEF AssignBatch, RunFits
  <2>2. PICK p \in AsgProj : /\ label' = [label EXCEPT ![s] = p]
                             /\ runs' = [runs EXCEPT ![Len(runs)].items = @ \cup {<<s, p>>}]
    BY <1>5, SuggestedTyped DEF AssignBatch
  <2> DEFINE last == Len(runs)
             r == [runs[last] EXCEPT !.items = @ \cup {<<s, p>>}]
  <2>3. last \in DOMAIN runs /\ runs[last] \in AutoRun /\ runs \in Seq(AutoRun) /\ last \in Nat
    BY <2>1, LastRun
  <2>4. /\ r.items = runs[last].items \cup {<<s, p>>} /\ r.rolled = runs[last].rolled
        /\ r.assigned = runs[last].assigned
    BY <2>3 DEF AutoRun
  <2>5. runs' = [runs EXCEPT ![last] = r]
    BY <2>2
  <2> HIDE DEF r
  <2>6. /\ DOMAIN runs' = DOMAIN runs /\ Len(runs') = last
        /\ \A i \in DOMAIN runs : i # last => runs'[i] = runs[i]
        /\ runs'[last] = r
    BY <2>3, <2>5
  <2>7. auto'.pc = "count" /\ auto'.count = auto.count + 1 /\ auto.count \in Nat
    BY <1>5, AutoFields DEF AssignBatch
  <2>8. noted.torn \subseteq noted'.torn /\ (runs[last].rolled => last \in noted'.torn)
    BY <1>5, NotedFields DEF AssignBatch
  <2>9. CountsFollow'
    BY <2>4, <2>6, <2>7, <2>8 DEF CountsFollow
  <2>10. AutoRunsCanBeUndone'
    <3> SUFFICES ASSUME NEW i \in DOMAIN runs', NEW t \in AsgSess,
                        <<t, label'[t]>> \in runs'[i].items, origin'[t] = "auto_accept", i # last
                 PROVE  \/ i \in Undoable' \/ i \in noted'.torn
                        \/ \E j \in i + 1..Len(runs') : <<t, label'[t]>> \in runs'[j].items
      BY <2>6, <2>7 DEF AutoRunsCanBeUndone
    <3>1. i \in DOMAIN runs /\ runs'[i] = runs[i] /\ i + 1 <= last /\ i \in Nat
      BY <2>3, <2>6
    <3>2. i \in Undoable => i \in Undoable'
      BY <2>6, <3>1 DEF Undoable
    <3>3. CASE t = s
      <4>1. <<t, label'[t]>> \in runs'[last].items
        BY <2>2, <2>4, <2>6, <3>3 DEF LabelsOK
      <4> QED BY <2>3, <2>6, <3>1, <4>1
    <3>4. CASE t # s
      <4>1. label'[t] = label[t] /\ origin[t] = "auto_accept"
        BY <1>5, <2>2, <3>4 DEF AssignBatch, LabelsOK
      <4>2. \/ i \in Undoable \/ i \in noted.torn
            \/ \E j \in i + 1..Len(runs) : <<t, label[t]>> \in runs[j].items
        BY <2>1, <3>1, <4>1 DEF AutoRunsCanBeUndone
      <4>3. \A j \in i + 1..Len(runs) : j \in DOMAIN runs /\ runs[j].items \subseteq runs'[j].items
        BY <2>3, <2>4, <2>6, <3>1
      <4> QED BY <2>6, <2>8, <3>2, <4>1, <4>2, <4>3
    <3> QED BY <3>3, <3>4
  <2> QED BY <2>9, <2>10
<1>6. ASSUME CountBatch \/ FinishRun
      PROVE  CountsFollow' /\ AutoRunsCanBeUndone'
  <2>1. runs # <<>> /\ auto.count \in Nat /\ runs' = [runs EXCEPT ![Len(runs)].assigned = auto.count]
    BY <1>6, AutoFields DEF CountBatch, FinishRun, WrittenCount, RunFits
  <2>2. UNCHANGED <<label, origin, noted>>
    BY <1>6 DEF CountBatch, FinishRun
  <2>3. CASE CountBatch
    <3>1. auto'.pc = "batch" /\ auto'.count = auto.count /\ auto.pc = "count"
      BY <2>3 DEF CountBatch, RunsOK, AutoState
    <3>2. CountsFollow'
      BY <2>1, <3>1, CountWritten DEF CountsFollow
    <3>3. Len(runs) \in noted'.torn \/ Len(runs) \in Undoable'
      BY <2>1, <2>2, <3>1, CountWritten DEF CountsFollow, Undoable
    <3>4. \A i \in DOMAIN runs : i \in Undoable => i \in Undoable'
      BY <2>1, <3>1, CountWritten DEF CountsFollow, Undoable
    <3> QED BY <2>1, <2>2, <3>2, <3>3, <3>4, CountWritten, UndoFrame
  <2>4. CASE FinishRun
    <3>1. auto.pc = "batch" /\ auto'.pc = "off"
      BY <2>4 DEF FinishRun, RunsOK, AutoState
    <3>2. \A i \in DOMAIN runs : i \in Undoable => i \in Undoable'
      BY <2>1, <3>1, CountWritten DEF CountsFollow, Undoable
    <3> QED BY <2>1, <2>2, <3>1, <3>2, CountWritten, UndoFrame DEF CountsFollow
  <2> QED BY <1>6, <2>3, <2>4
<1>7. ASSUME NEW s \in AsgSess, FailBatch(s)
      PROVE  CountsFollow' /\ AutoRunsCanBeUndone'
  <2>1. /\ runs # <<>> /\ auto.count \in Nat /\ auto.pc = "batch" /\ auto.count + 1 \in Nat
        /\ auto.count + 1 > 0
        /\ runs' = [runs EXCEPT ![Len(runs)].assigned = auto.count + 1]
    BY <1>7, AutoFields DEF FailBatch, RunFits
  <2>2. UNCHANGED <<label, origin>> /\ noted'.torn = noted.torn /\ auto'.pc = "off"
    BY <1>7, NotedFields DEF FailBatch
  <2>3. \A i \in DOMAIN runs : i \in Undoable => i \in Undoable'
    BY <2>1, CountWritten DEF Undoable
  <2> QED BY <2>1, <2>2, <2>3, CountWritten, UndoFrame DEF CountsFollow
<1>8. ASSUME CrashInRun
      PROVE  CountsFollow' /\ AutoRunsCanBeUndone'
  <2>1. UNCHANGED <<label, origin, runs>> /\ auto'.pc = "off"
    BY <1>8 DEF CrashInRun
  <2>2. noted.torn \subseteq noted'.torn /\ (auto.pc = "count" => Len(runs) \in noted'.torn)
    BY <1>8, CountedTyped DEF CrashInRun, Noted
  <2> QED BY <2>1, <2>2, UndoFrameSameRuns DEF CountsFollow
<1>9. ASSUME rollback_run
      PROVE  CountsFollow' /\ AutoRunsCanBeUndone'
  <2> DEFINE d == RolledRun
             r == [runs[d] EXCEPT !.rolled = TRUE]
  <2>1. d \in DOMAIN runs /\ d \in Nat /\ runs[d] \in AutoRun /\ runs \in Seq(AutoRun)
    BY <1>9, RolledOne DEF rollback_run, RunsOK
  <2>2. r.items = runs[d].items /\ r.assigned = runs[d].assigned
    BY <2>1 DEF AutoRun
  <2>3. runs' = [runs EXCEPT ![d] = r]
    BY <1>9 DEF rollback_run
  <2>4. \A s \in AsgSess : origin'[s] = "auto_accept"
          => /\ origin[s] = "auto_accept" /\ label'[s] = label[s]
             /\ <<s, label[s]>> \notin runs[d].items
    BY <1>9 DEF rollback_run, Reverted
  <2>5. noted.torn \subseteq noted'.torn /\ (auto.pc = "count" /\ d = Len(runs) => d \in noted'.torn)
    BY <1>9, <2>1, NotedFields DEF rollback_run
  <2>6. auto' = auto
    BY <1>9 DEF rollback_run
  <2> HIDE DEF d, r
  <2>7. /\ DOMAIN runs' = DOMAIN runs /\ Len(runs') = Len(runs)
        /\ \A i \in DOMAIN runs : runs'[i].items = runs[i].items
        /\ \A i \in DOMAIN runs : runs'[i].assigned = runs[i].assigned
        /\ \A i \in DOMAIN runs : i # d => runs'[i] = runs[i]
    BY <2>1, <2>2, <2>3
  <2>8. CountsFollow'
    <3>1. CASE auto.pc = "off"
      BY <2>6, <3>1 DEF CountsFollow
    <3>2. CASE auto.pc # "off"
      <4>1. Len(runs) \in DOMAIN runs
        BY <3>2, LastRun DEF RunFits
      <4> QED BY <2>5, <2>6, <2>7, <4>1 DEF CountsFollow
    <3> QED BY <3>1, <3>2
  <2>9. AutoRunsCanBeUndone'
    <3> SUFFICES ASSUME NEW i \in DOMAIN runs, NEW s \in AsgSess,
                        <<s, label'[s]>> \in runs[i].items, origin'[s] = "auto_accept"
                 PROVE  \/ i \in Undoable' \/ i \in noted'.torn
                        \/ i = Len(runs) /\ auto.pc = "count"
                        \/ \E j \in i + 1..Len(runs) : <<s, label[s]>> \in runs'[j].items
      BY <2>4, <2>6, <2>7 DEF AutoRunsCanBeUndone
    <3>1. i # d /\ origin[s] = "auto_accept" /\ label'[s] = label[s]
      BY <2>4
    <3>2. i \in Undoable => i \in Undoable'
      BY <2>7, <3>1 DEF Undoable
    <3>3. \A j \in i + 1..Len(runs) : j \in DOMAIN runs
      BY <2>1
    <3> QED BY <2>5, <2>7, <3>1, <3>2, <3>3, ZenonT(40) DEF AutoRunsCanBeUndone
  <2> QED BY <2>8, <2>9
<1>10. ASSUME Rule
      PROVE  CountsFollow' /\ AutoRunsCanBeUndone'
  <2>1. \A t \in AsgSess : origin'[t] = "auto_accept"
                             => origin[t] = "auto_accept" /\ label'[t] = label[t]
    BY <1>10 DEF Rule, RuleProjects, Unlabelled
  <2>2. UNCHANGED <<runs, auto, noted>>
    BY <1>10 DEF Rule
  <2> QED BY <2>1, <2>2, UndoFrameSameRuns DEF CountsFollow
<1>11. ASSUME ResetFull
      PROVE  CountsFollow' /\ AutoRunsCanBeUndone'
  BY <1>11 DEF ResetFull, CountsFollow, AutoRunsCanBeUndone
<1>12. CASE UNCHANGED asgVars
  <2>1. UNCHANGED <<label, origin, runs, auto, noted>>
    BY <1>12 DEF asgVars
  <2> QED BY <2>1, UndoFrameSameRuns DEF CountsFollow
<1>13. AsgNext => CountsFollow' /\ AutoRunsCanBeUndone'
  BY <1>1, <1>2, <1>3, <1>4, <1>5, <1>6, <1>7, <1>8, <1>9, <1>10, <1>11, Zenon DEF AsgNext
<1> QED BY <1>12, <1>13

-----------------------------------------------------------------------------
(* The user's choices. *)

LEMMA ChoicesStep ==
  ASSUME AsgTypeOK, [AsgNext]_asgVars
  PROVE  KeepsChoices
<1> USE DEF AsgTypeOK
<1>1. ASSUME NEW s \in AsgSess, NEW p \in MaybeProj, AssignByHand(s, p)
      PROVE  KeepsChoices
  <2>1. noted'.acts # noted.acts
    BY <1>1, CountedTyped DEF AssignByHand, Noted
  <2> QED BY <2>1 DEF KeepsChoices
<1>2. ASSUME NEW s \in AsgSess, AssignBatch(s)
      PROVE  KeepsChoices
  <2>1. PICK p : label' = [label EXCEPT ![s] = p]
    BY <1>2 DEF AssignBatch
  <2>2. label[s] = Unset /\ chosen[s] \notin live
    BY <1>2 DEF AssignBatch, check_manual_override
  <2>3. \A t \in AsgSess : t # s => label'[t] = label[t]
    BY <2>1 DEF LabelsOK
  <2> QED BY <2>2, <2>3 DEF KeepsChoices
<1>3. ASSUME rollback_run
      PROVE  KeepsChoices
  <2>1. /\ RolledRun \in Undoable /\ RolledRun \in DOMAIN runs
        /\ runs' = [runs EXCEPT ![RolledRun].rolled = TRUE] /\ runs \in Seq(AutoRun)
    BY <1>3, RolledOne DEF rollback_run, RunsOK
  <2>2. runs[RolledRun] \in AutoRun
    BY <2>1
  <2>3. runs'[RolledRun].rolled /\ ~runs[RolledRun].rolled
    BY <2>1, <2>2 DEF Undoable, AutoRun
  <2>4. \A s \in AsgSess : label'[s] # label[s] => <<s, label[s]>> \in runs[RolledRun].items
    BY <1>3 DEF rollback_run, Reverted
  <2> QED BY <2>1, <2>3, <2>4 DEF KeepsChoices
<1>4. ASSUME Rule
      PROVE  KeepsChoices
  <2>1. \A s \in AsgSess : label'[s] # label[s] => label[s] = Unset
    BY <1>4 DEF Rule, RuleProjects
  <2> QED BY <2>1, AssignAssumption DEF KeepsChoices, LabelsOK
<1>5. CASE label' = label
  BY <1>5, SMTT(30) DEF KeepsChoices
<1>6. ASSUME \/ StartRun \/ CountBatch \/ FinishRun \/ CrashInRun \/ Train
             \/ CrashInTraining \/ ResetWeights \/ ResetFull \/ NextDay \/ UNCHANGED asgVars
             \/ \E s \in AsgSess : SkipBatch(s) \/ FailBatch(s)
             \/ \E p \in AsgProj : SetActive(p)
             \/ \E full \in BOOLEAN : StartTraining(full)
             \/ \E done \in BOOLEAN : EndTraining(done)
      PROVE  label' = label
  BY <1>6 DEF StartRun, CountBatch, FinishRun, CrashInRun, Train, CrashInTraining, ResetWeights,
    ResetFull, NextDay, SkipBatch, FailBatch, SetActive, StartTraining, EndTraining, asgVars
<1> QED BY <1>1, <1>2, <1>3, <1>4, <1>5, <1>6 DEF AsgNext

-----------------------------------------------------------------------------

LEMMA AsgBegins ==
  ASSUME AsgInit
  PROVE  AsgTypeOK /\ RunFits /\ Taught /\ CountsFollow /\ AutoRunsCanBeUndone
<1>1. auto = [pc |-> "off", todo |-> {}, count |-> 0] /\ runs = <<>> /\ lessons = <<>> /\ learned = {}
  BY DEF AsgInit
<1>2. auto \in AutoState /\ RunFits
  <2>1. auto.pc = "off" /\ auto.todo = {} /\ auto.count = 0
    BY <1>1
  <2>2. auto \in AutoState
    BY <1>1, SessionsFinite, AutoMade
  <2> QED BY <2>1, <2>2, SessionsFinite DEF RunFits
<1>3. trainer \in Trainer
  <2>1. 0 \in Date
    BY AssignAssumption DEF Date
  <2> QED BY <2>1 DEF AsgInit, Trainer
<1>4. noted \in Noted /\ noted.acts = 0
  BY DEF AsgInit, Noted
<1>5. LabelsOK
  BY DEF AsgInit, LabelsOK, MaybeProj
<1>6. AsgTypeOK
  BY <1>1, <1>2, <1>3, <1>4, <1>5, AssignAssumption DEF AsgTypeOK, RunsOK, TrainingOK, NotedOK
<1>7. Taught
  BY <1>1 DEF AsgInit, Taught, UserLabel
<1> QED BY <1>1, <1>2, <1>6, <1>7 DEF CountsFollow, AutoRunsCanBeUndone

\* The labels, runs, weights and counts keep their types; a run never assigns more
\* sessions than there are.
THEOREM AssignTypes == AsgSpec => [](AsgTypeOK /\ RunFits)
<1> QED BY AsgBegins, AsgTypes, PTL DEF AsgSpec

\* The model learns no project that the user did not give to a session, until a full reset
\* makes it forget which labels were its own.
THEOREM LearningTheorem == AsgSpec => []LearnsOnlyFromTheUser
<1>1. Taught => LearnsOnlyFromTheUser
  BY DEF Taught, LearnsOnlyFromTheUser
<1> QED BY <1>1, AsgBegins, AsgTypes, TaughtStep, PTL DEF AsgSpec

\* An assignment made by a run that still stands can be undone by a rollback that picks its
\* run, or a later run that made the same assignment, with the two exceptions the property
\* names: the counts are still to be written, or were cut off.
THEOREM UndoTheorem == AsgSpec => []AutoRunsCanBeUndone
<1> QED BY AsgBegins, AsgTypes, UndoStep, PTL DEF AsgSpec

\* No automatic step takes away or changes what the user assigned to a project that is
\* active, but the rollback of a run that had given the session the same project.
THEOREM ChoicesTheorem == AsgSpec => AutomationKeepsChoices
<1>1. AsgTypeOK /\ [AsgNext]_asgVars => [KeepsChoices]_asgVars
  BY ChoicesStep
<1> QED BY <1>1, AsgBegins, AsgTypes, PTL DEF AsgSpec, AutomationKeepsChoices

-----------------------------------------------------------------------------
(* ProjectTime: the cache that every report reads. *)

PtStarts == {x[1] : x \in Spans \cup Imported}
PtEnds == {x[2] : x \in Spans \cup Imported}
WorkedRows == [from : PtStarts, to : PtEnds, proj : Series, hidden : BOOLEAN]
CachedRows == [day : {DateOf(t) : t \in PtStarts}, from : PtStarts, to : PtEnds, proj : Series]

\* Rows of sessions and of the cache, or none.
PtRowsOK ==
  /\ worked \in [PtSess -> WorkedRows \cup {NoSlice}]
  /\ cached \in [PtSess -> CachedRows \cup {NoSlice}]
  /\ tree \in [PtProj -> {"active", "excluded", "gone"} \cup PtProj]
  /\ history \in [edits : Nat, orphans : BOOLEAN]

\* A day without rows in the cache.
Uncached(d) == \A s \in PtSess : cached[s] = NoSlice \/ cached[s].day # d
Settled(d) == UpToDate(d) \/ Uncached(d)
\* A day that is not dirty has no rows in the cache, or those of a rebuild.
CacheInv == ~history.orphans => \A d \in PtDays \ dirty : Settled(d)

PtInv == PtRowsOK /\ CacheInv /\ CacheIsCurrent

LEMMA WorkedRowIsThere ==
  ASSUME NEW r \in WorkedRows
  PROVE  r # NoSlice
<1>1. DOMAIN r = {"from", "to", "proj", "hidden"}
  BY DEF WorkedRows
<1>2. DOMAIN NoSlice = {"from", "to"}
  BY DEF NoSlice
<1> QED BY <1>1, <1>2

LEMMA CachedRowIsThere ==
  ASSUME NEW r \in CachedRows
  PROVE  r # NoSlice
<1>1. DOMAIN r = {"day", "from", "to", "proj"}
  BY DEF CachedRows
<1>2. DOMAIN NoSlice = {"from", "to"}
  BY DEF NoSlice
<1> QED BY <1>1, <1>2

LEMMA DateOfThere ==
  ASSUME NEW r, r # NoSlice
  PROVE  DateOfRow(r) = {DateOf(r.from)}
BY DEF DateOfRow

\* A session's project, or that of a file that runs at the same time.
LEMMA ResolvedFrom ==
  ASSUME NEW s \in PtSess
  PROVE  \/ Resolved(s) = Nobody
         \/ Exists(worked[s].proj) /\ Resolved(s) = worked[s].proj
         \/ \E f \in FilesAround(worked[s]) : Resolved(s) = f.proj
<1> DEFINE owners == {f.proj : f \in FilesAround(worked[s])}
<1>1. CASE Exists(worked[s].proj)
  BY <1>1 DEF Resolved
<1>2. CASE ~Exists(worked[s].proj) /\ Cardinality(owners) = 1
           /\ 2 * Sum([f \in FilesAround(worked[s]) |-> Overlap(worked[s], f)]) >= worked[s].to - worked[s].from
  <2>1. Resolved(s) = CHOOSE p \in owners : TRUE
    BY <1>2 DEF Resolved
  <2> HIDE DEF owners
  <2>2. Cardinality(owners) = 1
    BY <1>2
  <2>4. owners # {}
    BY <2>2, FS_EmptySet
  <2>3. Resolved(s) \in owners
    BY <2>1, <2>4
  <2> QED BY <2>3 DEF owners
<1>3. CASE ~Exists(worked[s].proj)
           /\ ~(Cardinality(owners) = 1
                /\ 2 * Sum([f \in FilesAround(worked[s]) |-> Overlap(worked[s], f)]) >= worked[s].to - worked[s].from)
  BY <1>3 DEF Resolved
<1> QED BY <1>1, <1>2, <1>3

LEMMA ResolvedTyped ==
  ASSUME NEW s \in PtSess
  PROVE  Resolved(s) \in Series
BY ResolvedFrom DEF Series, Exists, FilesAround

LEMMA CacheRowTyped ==
  ASSUME NEW s \in PtSess, worked[s] \in WorkedRows
  PROVE  /\ CacheRow(s) \in CachedRows /\ CacheRow(s) # NoSlice
         /\ CacheRow(s).day = DateOf(worked[s].from)
         /\ CacheRow(s).proj = Resolved(s)
<1>1. worked[s].from \in PtStarts /\ worked[s].to \in PtEnds
  BY DEF WorkedRows
<1>2. CacheRow(s) \in CachedRows
  BY <1>1, ResolvedTyped DEF CacheRow, CachedRows
<1> QED BY <1>2, CachedRowIsThere DEF CacheRow

\* What the resolution of a session reads.
LEMMA ResolvedSame ==
  ASSUME NEW s \in PtSess, worked'[s] = worked[s],
         Exists(worked[s].proj)' <=> Exists(worked[s].proj),
         FilesAround(worked[s])' = FilesAround(worked[s])
  PROVE  Resolved(s)' = Resolved(s) /\ CacheRow(s)' = CacheRow(s)
<1> DEFINE around == FilesAround(worked[s])
           over == Sum([f \in around |-> Overlap(worked[s], f)])
           owners == {f.proj : f \in around}
           owner == CHOOSE p \in owners : TRUE
<1>1. over' = over
  BY DEF Overlap, Earlier, Later
<1>2. owners' = owners /\ owner' = owner
  OBVIOUS
<1>3. Resolved(s) = CASE Exists(worked[s].proj) -> worked[s].proj
                      [] ~Exists(worked[s].proj) /\ Cardinality(owners) = 1
                         /\ 2 * over >= worked[s].to - worked[s].from -> owner
                      [] OTHER -> Nobody
  BY DEF Resolved
<1>4. Resolved(s)' = CASE Exists(worked[s].proj)' -> worked[s].proj'
                      [] ~Exists(worked[s].proj)' /\ Cardinality(owners') = 1
                         /\ 2 * over' >= worked[s].to' - worked[s].from' -> owner'
                      [] OTHER -> Nobody
  BY DEF Resolved
<1> HIDE DEF over, owners, owner
<1>5. Resolved(s)' = Resolved(s)
  BY <1>1, <1>2, <1>3, <1>4
<1> QED BY <1>5 DEF CacheRow

\* A change that leaves a day's sessions alone, with what they resolve to.
DayUntouched(d) ==
  \A s \in PtSess :
    /\ OnDay(s, d)' <=> OnDay(s, d)
    /\ OnDay(s, d) => CacheRow(s)' = CacheRow(s)
    /\ \/ cached'[s] = cached[s]
       \/ cached'[s] = NoSlice /\ ~OnDay(s, d)
       \/ /\ cached[s] # NoSlice /\ cached'[s].day = cached[s].day
          /\ ~(OnDay(s, d) /\ cached[s] = CacheRow(s))

LEMMA UntouchedSettled ==
  ASSUME NEW d, DayUntouched(d), Settled(d)
  PROVE  Settled(d)'
<1>1. CASE UpToDate(d)
  <2>1. ASSUME NEW s \in PtSess
        PROVE  /\ OnDay(s, d)' => cached'[s] = CacheRow(s)'
               /\ cached'[s] # NoSlice /\ cached'[s].day = d => OnDay(s, d)'
    <3>1. /\ OnDay(s, d) => cached[s] = CacheRow(s)
          /\ cached[s] # NoSlice /\ cached[s].day = d => OnDay(s, d)
      BY <1>1 DEF UpToDate
    <3> QED BY <3>1 DEF DayUntouched
  <2> QED BY <2>1 DEF Settled, UpToDate
<1>2. CASE Uncached(d)
  <2>1. ASSUME NEW s \in PtSess
        PROVE  cached'[s] = NoSlice \/ cached'[s].day # d
    BY <1>2 DEF Uncached, DayUntouched
  <2> QED BY <2>1 DEF Settled, Uncached
<1> QED BY <1>1, <1>2 DEF Settled

\* A change whose untouched days stay clean: every day it touches is dirty afterwards.
LEMMA ChangeKeepsInv ==
  ASSUME CacheInv, dirty \subseteq dirty', answer' = NoAnswer,
         history'.orphans = history.orphans,
         \A d \in PtDays \ dirty' : DayUntouched(d)
  PROVE  CacheInv' /\ CacheIsCurrent'
<1>1. ASSUME ~history'.orphans, NEW d \in PtDays \ dirty'
      PROVE  Settled(d)'
  BY <1>1, UntouchedSettled DEF CacheInv
<1>2. CacheInv'
  BY <1>1 DEF CacheInv, Settled, Uncached
<1> QED BY <1>2 DEF CacheIsCurrent

LEMMA EditFacts ==
  ASSUME PtRowsOK, Edit
  PROVE  /\ answer' = NoAnswer /\ history'.orphans = history.orphans
         /\ history' \in [edits : Nat, orphans : BOOLEAN]
BY DEF PtRowsOK, Edit

\* A session whose row stays, in a day whose files and projects stay.
LEMMA RowUntouched ==
  ASSUME NEW s \in PtSess, NEW d, worked'[s] = worked[s],
         OnDay(s, d) => /\ Exists(worked[s].proj)' <=> Exists(worked[s].proj)
                        /\ FilesAround(worked[s])' = FilesAround(worked[s])
  PROVE  /\ OnDay(s, d)' <=> OnDay(s, d)
         /\ OnDay(s, d) => CacheRow(s)' = CacheRow(s)
<1>1. OnDay(s, d)' <=> OnDay(s, d)
  BY DEF OnDay, IsShown
<1>2. ASSUME OnDay(s, d)
      PROVE  CacheRow(s)' = CacheRow(s)
  BY <1>2, ResolvedSame
<1> QED BY <1>1, <1>2

LEMMA ExistsSame ==
  ASSUME tree' = tree, NEW x
  PROVE  Exists(x)' <=> Exists(x)
BY DEF Exists

LEMMA AroundSame ==
  ASSUME tree' = tree, traces' = traces, NEW s \in PtSess, worked'[s] = worked[s]
  PROVE  FilesAround(worked[s])' = FilesAround(worked[s])
BY DEF FilesAround, Exists

LEMMA PutRow ==
  ASSUME PtInv, NEW s \in PtSess, NEW r \in WorkedRows, PutSession(s, r)
  PROVE  PtInv'
<1>1. /\ worked' = [worked EXCEPT ![s] = r] /\ dirty' = dirty \cup DirtiedBy(worked[s], r)
      /\ traces' = traces /\ tree' = tree /\ cached' = cached /\ Edit
  BY DEF PutSession
<1>2. PtRowsOK /\ CacheInv
  BY DEF PtInv
<1>3. PtRowsOK'
  BY <1>1, <1>2, EditFacts DEF PtRowsOK
<1>4. ASSUME NEW d \in PtDays \ dirty', NEW t \in PtSess, t # s
      PROVE  /\ OnDay(t, d)' <=> OnDay(t, d)
             /\ OnDay(t, d) => CacheRow(t)' = CacheRow(t)
  <2>1. worked'[t] = worked[t]
    BY <1>1, <1>2, <1>4 DEF PtRowsOK
  <2>2. /\ Exists(worked[t].proj)' <=> Exists(worked[t].proj)
        /\ FilesAround(worked[t])' = FilesAround(worked[t])
    BY <1>1, <2>1, AroundSame DEF Exists
  <2> QED BY <2>1, <2>2, RowUntouched
<1>5. ASSUME NEW d \in PtDays \ dirty'
      PROVE  ~OnDay(s, d) /\ ~OnDay(s, d)'
  <2>1. d \notin DateOfRow(worked[s]) /\ d \notin DateOfRow(r)
    BY <1>1 DEF DirtiedBy
  <2>2. worked'[s] = r
    BY <1>1, <1>2 DEF PtRowsOK
  <2>3. ~OnDay(s, d)
    BY <2>1, DateOfThere DEF OnDay, IsShown
  <2>4. ~OnDay(s, d)'
    BY <2>1, <2>2, DateOfThere DEF OnDay, IsShown
  <2> QED BY <2>3, <2>4
<1>6. \A d \in PtDays \ dirty' : DayUntouched(d)
  BY <1>1, <1>4, <1>5 DEF DayUntouched
<1> QED BY <1>1, <1>2, <1>3, <1>6, EditFacts, ChangeKeepsInv DEF PtInv

LEMMA InsertRow ==
  ASSUME PtInv, NEW s \in PtSess, NEW span \in Spans, NEW p \in Series, InsertSession(s, span, p)
  PROVE  PtInv'
<1> DEFINE r == [from |-> span[1], to |-> span[2], proj |-> p, hidden |-> FALSE]
<1>1. span[1] \in PtStarts /\ span[2] \in PtEnds
  BY DEF PtStarts, PtEnds
<1>2. r \in WorkedRows
  BY <1>1 DEF WorkedRows
<1>3. PutSession(s, r)
  BY DEF InsertSession
<1> HIDE DEF r
<1> QED BY <1>2, <1>3, PutRow

LEMMA UpdateRow ==
  ASSUME PtInv, NEW s \in PtSess, NEW to, NEW p \in Series, NEW hidden \in BOOLEAN,
         UpdateSession(s, to, p, hidden)
  PROVE  PtInv'
<1> DEFINE r == [worked[s] EXCEPT !.to = to, !.proj = p, !.hidden = hidden]
<1>1. worked[s] \in WorkedRows
  BY DEF UpdateSession, PtInv, PtRowsOK
<1>2. <<worked[s].from, to>> \in Spans
  BY DEF UpdateSession
<1>3. to \in PtEnds
  <2>1. <<worked[s].from, to>>[2] = to
    OBVIOUS
  <2> QED BY <1>2, <2>1 DEF PtEnds
<1>4. r \in WorkedRows
  BY <1>1, <1>3 DEF WorkedRows
<1>5. PutSession(s, r)
  BY DEF UpdateSession
<1> HIDE DEF r
<1> QED BY <1>4, <1>5, PutRow

LEMMA RemoveRow ==
  ASSUME PtInv, NEW s \in PtSess, NEW cascade \in BOOLEAN, RemoveSession(s, cascade)
  PROVE  PtInv'
<1>1. /\ worked' = [worked EXCEPT ![s] = NoSlice]
      /\ dirty' = dirty \cup DirtiedBy(worked[s], NoSlice)
      /\ traces' = traces /\ tree' = tree /\ Edit
      /\ cached' = cached \/ cached' = [cached EXCEPT ![s] = NoSlice]
  BY DEF RemoveSession
<1>2. PtRowsOK /\ CacheInv
  BY DEF PtInv
<1>3. PtRowsOK'
  BY <1>1, <1>2, EditFacts DEF PtRowsOK
<1>4. ASSUME NEW d \in PtDays \ dirty', NEW t \in PtSess, t # s
      PROVE  /\ OnDay(t, d)' <=> OnDay(t, d)
             /\ OnDay(t, d) => CacheRow(t)' = CacheRow(t)
             /\ cached'[t] = cached[t]
  <2>1. worked'[t] = worked[t] /\ cached'[t] = cached[t]
    BY <1>1, <1>2, <1>4 DEF PtRowsOK
  <2>2. /\ Exists(worked[t].proj)' <=> Exists(worked[t].proj)
        /\ FilesAround(worked[t])' = FilesAround(worked[t])
    BY <1>1, <2>1, AroundSame DEF Exists
  <2> QED BY <2>1, <2>2, RowUntouched
<1>5. ASSUME NEW d \in PtDays \ dirty'
      PROVE  /\ ~OnDay(s, d) /\ ~OnDay(s, d)'
             /\ cached'[s] = cached[s] \/ cached'[s] = NoSlice
  <2>1. d \notin DateOfRow(worked[s])
    BY <1>1 DEF DirtiedBy
  <2>2. worked'[s] = NoSlice /\ (cached'[s] = cached[s] \/ cached'[s] = NoSlice)
    BY <1>1, <1>2 DEF PtRowsOK
  <2>3. ~OnDay(s, d)
    BY <2>1, DateOfThere DEF OnDay, IsShown
  <2>4. ~OnDay(s, d)'
    BY <2>2 DEF OnDay, IsShown
  <2> QED BY <2>2, <2>3, <2>4
<1>6. \A d \in PtDays \ dirty' : DayUntouched(d)
  BY <1>4, <1>5 DEF DayUntouched
<1> QED BY <1>1, <1>2, <1>3, <1>6, EditFacts, ChangeKeepsInv DEF PtInv

LEMMA WriteFileKeeps ==
  ASSUME PtInv, NEW f, WriteFile(f)
  PROVE  PtInv'
<1>1. /\ worked' = worked /\ dirty' = dirty \cup {DateOf(f.from)}
      /\ tree' = tree /\ cached' = cached /\ Edit
      /\ traces' \subseteq traces \cup {f} /\ traces \subseteq traces' \cup {f}
  BY DEF WriteFile, DirtiedByFile
<1>2. PtRowsOK /\ CacheInv
  BY DEF PtInv
<1>3. PtRowsOK'
  BY <1>1, <1>2, EditFacts DEF PtRowsOK
<1>4. ASSUME NEW d \in PtDays \ dirty', NEW s \in PtSess
      PROVE  /\ OnDay(s, d)' <=> OnDay(s, d)
             /\ OnDay(s, d) => CacheRow(s)' = CacheRow(s)
  <2>1. worked'[s] = worked[s]
    BY <1>1
  <2>2. d # DateOf(f.from)
    BY <1>1
  <2>3. ASSUME OnDay(s, d)
        PROVE  /\ Exists(worked[s].proj)' <=> Exists(worked[s].proj)
               /\ FilesAround(worked[s])' = FilesAround(worked[s])
    <3>1. DateOf(worked[s].from) = d
      BY <2>3 DEF OnDay
    <3>2. \A g : DateOf(g.from) = d => (g \in traces' <=> g \in traces)
      BY <1>1, <2>2
    <3>3. \A x : Exists(x)' <=> Exists(x)
      BY <1>1, ExistsSame
    <3>4. FilesAround(worked[s])' = FilesAround(worked[s])
      BY <2>1, <3>1, <3>2, <3>3 DEF FilesAround
    <3> QED BY <1>1, <3>4 DEF Exists
  <2> QED BY <2>1, <2>3, RowUntouched
<1>5. \A d \in PtDays \ dirty' : DayUntouched(d)
  BY <1>1, <1>4 DEF DayUntouched
<1> QED BY <1>1, <1>2, <1>3, <1>5, EditFacts, ChangeKeepsInv DEF PtInv

LEMMA WriteManualKeeps ==
  ASSUME PtInv, NEW p, WriteManual(p)
  PROVE  PtInv'
<1>1. /\ worked' = worked /\ dirty' = dirty /\ traces' = traces
      /\ tree' = tree /\ cached' = cached /\ Edit
  BY DEF WriteManual
<1>2. PtRowsOK /\ CacheInv
  BY DEF PtInv
<1>3. PtRowsOK'
  BY <1>1, <1>2, EditFacts DEF PtRowsOK
<1>4. ASSUME NEW d, NEW s \in PtSess
      PROVE  /\ OnDay(s, d)' <=> OnDay(s, d)
             /\ OnDay(s, d) => CacheRow(s)' = CacheRow(s)
  <2>1. worked'[s] = worked[s]
    BY <1>1
  <2>2. /\ Exists(worked[s].proj)' <=> Exists(worked[s].proj)
        /\ FilesAround(worked[s])' = FilesAround(worked[s])
    BY <1>1, <2>1, AroundSame DEF Exists
  <2> QED BY <2>1, <2>2, RowUntouched
<1>5. \A d \in PtDays \ dirty' : DayUntouched(d)
  BY <1>1, <1>4 DEF DayUntouched
<1> QED BY <1>1, <1>2, <1>3, <1>5, EditFacts, ChangeKeepsInv DEF PtInv

\* Excluding, merging and their undoing: no session changes the project it resolves to.
LEMMA SetTreeKeeps ==
  ASSUME PtInv, NEW p \in PtProj, NEW state \in {"active", "excluded"} \cup (PtProj \ {p}),
         SetTree(p, state)
  PROVE  PtInv'
<1>1. /\ worked' = worked /\ dirty' = dirty /\ traces' = traces
      /\ tree' = [tree EXCEPT ![p] = state] /\ cached' = cached /\ Edit /\ Exists(p)
  BY DEF SetTree
<1>2. PtRowsOK /\ CacheInv
  BY DEF PtInv
<1>3. PtRowsOK'
  BY <1>1, <1>2, EditFacts DEF PtRowsOK
<1>4. ASSUME NEW x
      PROVE  Exists(x)' <=> Exists(x)
  BY <1>1, <1>2, PtAssumption DEF Exists, PtRowsOK
<1>5. ASSUME NEW d, NEW s \in PtSess
      PROVE  /\ OnDay(s, d)' <=> OnDay(s, d)
             /\ OnDay(s, d) => CacheRow(s)' = CacheRow(s)
  <2>1. worked'[s] = worked[s]
    BY <1>1
  <2>2. FilesAround(worked[s])' = FilesAround(worked[s])
    BY <1>1, <1>4, <2>1 DEF FilesAround
  <2>3. Exists(worked[s].proj)' <=> Exists(worked[s].proj)
    BY <1>1, <1>2, PtAssumption DEF Exists, PtRowsOK
  <2> QED BY <2>1, <2>2, <2>3, RowUntouched
<1>6. \A d \in PtDays \ dirty' : DayUntouched(d)
  BY <1>1, <1>5 DEF DayUntouched
<1> QED BY <1>1, <1>2, <1>3, <1>6, EditFacts, ChangeKeepsInv DEF PtInv

\* Taking a project from its sessions changes the sessions it had, and their days are dirty.
LEMMA UnassignedRows ==
  ASSUME PtRowsOK, NEW p \in PtProj, NEW s \in PtSess
  PROVE  /\ Unassigned(p) \in [PtSess -> WorkedRows \cup {NoSlice}]
         /\ Unassigned(p)[s] = worked[s] =>
              worked[s] = NoSlice \/ worked[s].proj # p
         /\ Unassigned(p)[s] # worked[s] => DateOfRow(worked[s]) \subseteq DirtiedByDelete(p)
         /\ Unassigned(p)[s] # worked[s] =>
              /\ worked[s] \in WorkedRows /\ Unassigned(p)[s] \in WorkedRows
              /\ Unassigned(p)[s].from = worked[s].from
<1>0. Nobody \in Series /\ Nobody # p
  BY PtAssumption DEF Series
<1>1. ASSUME NEW t \in PtSess, worked[t] # NoSlice
      PROVE  /\ worked[t] \in WorkedRows
             /\ [worked[t] EXCEPT !.proj = Nobody] \in WorkedRows
             /\ [worked[t] EXCEPT !.proj = Nobody].from = worked[t].from
             /\ [worked[t] EXCEPT !.proj = Nobody].proj = Nobody
  <2>1. worked[t] \in WorkedRows
    BY <1>1 DEF PtRowsOK
  <2> QED BY <1>0, <2>1 DEF WorkedRows
<1>2. Unassigned(p) \in [PtSess -> WorkedRows \cup {NoSlice}]
  BY <1>1 DEF Unassigned, PtRowsOK
<1>3. Unassigned(p)[s] = worked[s] => worked[s] = NoSlice \/ worked[s].proj # p
  BY <1>0, <1>1 DEF Unassigned
<1>4. Unassigned(p)[s] # worked[s] => DateOfRow(worked[s]) \subseteq DirtiedByDelete(p)
  BY DEF DirtiedByDelete, DirtiedBy
<1>5. Unassigned(p)[s] # worked[s] =>
        /\ worked[s] \in WorkedRows /\ Unassigned(p)[s] \in WorkedRows
        /\ Unassigned(p)[s].from = worked[s].from
  BY <1>1 DEF Unassigned
<1> QED BY <1>2, <1>3, <1>4, <1>5

LEMMA DeleteKeeps ==
  ASSUME PtInv, NEW p \in PtProj, delete_project(p)
  PROVE  PtInv'
<1>1. /\ worked' = Unassigned(p) /\ tree' = [tree EXCEPT ![p] = "gone"]
      /\ traces' = {f \in traces : f.proj # p} /\ Edit /\ Exists(p)
      /\ dirty' = dirty \cup DirtiedByDelete(p)
                    \cup UNION {DirtiedByFile(f) : f \in traces \ traces'}
      /\ cached' = [s \in PtSess |-> IF cached[s] # NoSlice /\ cached[s].proj = p
                                     THEN [cached[s] EXCEPT !.proj = Nobody] ELSE cached[s]]
  BY DEF delete_project
<1>2. PtRowsOK /\ CacheInv
  BY DEF PtInv
<1>3. ASSUME NEW s \in PtSess, cached[s] # NoSlice
      PROVE  /\ cached[s] \in CachedRows
             /\ [cached[s] EXCEPT !.proj = Nobody] \in CachedRows
             /\ [cached[s] EXCEPT !.proj = Nobody].day = cached[s].day
  <2>1. cached[s] \in CachedRows
    BY <1>2, <1>3 DEF PtRowsOK
  <2> QED BY <2>1 DEF CachedRows, Series
<1>4. PtRowsOK'
  <2>1. worked' \in [PtSess -> WorkedRows \cup {NoSlice}]
    BY <1>1, <1>2, UnassignedRows DEF Unassigned
  <2>2. cached' \in [PtSess -> CachedRows \cup {NoSlice}]
    BY <1>1, <1>2, <1>3 DEF PtRowsOK
  <2>3. tree' \in [PtProj -> {"active", "excluded", "gone"} \cup PtProj]
    BY <1>1, <1>2 DEF PtRowsOK
  <2> QED BY <1>1, <1>2, <2>1, <2>2, <2>3, EditFacts DEF PtRowsOK
<1>5. ASSUME NEW x, x # p
      PROVE  Exists(x)' <=> Exists(x)
  BY <1>1, <1>2, <1>5 DEF Exists, PtRowsOK
<1>6. ASSUME NEW d \in PtDays \ dirty', NEW f \in traces, DateOf(f.from) = d
      PROVE  f.proj # p /\ f \in traces'
  <2>1. f \in traces'
    BY <1>1, <1>6 DEF DirtiedByFile
  <2> QED BY <1>1, <2>1
<1>7. ASSUME NEW d \in PtDays \ dirty', NEW s \in PtSess, worked'[s] # worked[s]
      PROVE  ~OnDay(s, d) /\ ~OnDay(s, d)'
  <2>1. /\ DateOfRow(worked[s]) \subseteq dirty'
        /\ worked[s] \in WorkedRows /\ worked'[s] \in WorkedRows
        /\ worked'[s].from = worked[s].from
    BY <1>1, <1>2, <1>7, UnassignedRows
  <2>2. DateOf(worked[s].from) # d
    BY <2>1, WorkedRowIsThere, DateOfThere
  <2>3. DateOf(worked'[s].from) # d
    BY <2>1, <2>2
  <2> QED BY <2>2, <2>3 DEF OnDay
<1>8. ASSUME NEW d \in PtDays \ dirty', NEW s \in PtSess, OnDay(s, d)
      PROVE  /\ worked'[s] = worked[s] /\ worked[s] # NoSlice /\ worked[s].proj # p
             /\ FilesAround(worked[s])' = FilesAround(worked[s])
             /\ Resolved(s) # p
  <2>1. worked'[s] = worked[s]
    BY <1>7, <1>8
  <2>2. worked[s] # NoSlice /\ DateOf(worked[s].from) = d
    BY <1>8 DEF OnDay, IsShown
  <2>3. worked[s].proj # p
    BY <1>1, <1>2, <2>1, <2>2, UnassignedRows
  <2>4. \A g \in traces : DateOf(g.from) = d => g \in traces' /\ (Exists(g.proj)' <=> Exists(g.proj))
    BY <1>5, <1>6
  <2>5. FilesAround(worked[s])' = FilesAround(worked[s])
    BY <1>1, <2>1, <2>2, <2>4 DEF FilesAround
  <2>6. \A g \in FilesAround(worked[s]) : g.proj # p
    BY <1>6, <2>2 DEF FilesAround
  <2>7. Resolved(s) # p
    BY <2>3, <2>6, ResolvedFrom, PtAssumption
  <2> QED BY <2>1, <2>2, <2>3, <2>5, <2>7
<1>9. ASSUME NEW d \in PtDays \ dirty', NEW s \in PtSess
      PROVE  /\ OnDay(s, d)' <=> OnDay(s, d)
             /\ OnDay(s, d) => CacheRow(s)' = CacheRow(s)
  <2>1. CASE worked'[s] # worked[s]
    BY <1>7, <2>1
  <2>2. CASE worked'[s] = worked[s]
    <3>1. OnDay(s, d) => /\ Exists(worked[s].proj)' <=> Exists(worked[s].proj)
                         /\ FilesAround(worked[s])' = FilesAround(worked[s])
      <4> SUFFICES ASSUME OnDay(s, d)
                   PROVE  /\ Exists(worked[s].proj)' <=> Exists(worked[s].proj)
                          /\ FilesAround(worked[s])' = FilesAround(worked[s])
        OBVIOUS
      <4>1. worked[s].proj # p
        BY <1>8
      <4>2. Exists(worked[s].proj)' <=> Exists(worked[s].proj)
        BY <1>1, <1>2, <2>2, <4>1 DEF Exists, PtRowsOK
      <4> QED BY <1>8, <4>2
    <3> QED BY <2>2, <3>1, RowUntouched
  <2> QED BY <2>1, <2>2
<1>10. ASSUME NEW d \in PtDays \ dirty', NEW s \in PtSess, cached'[s] # cached[s]
       PROVE  /\ cached[s] # NoSlice /\ cached'[s].day = cached[s].day
              /\ ~(OnDay(s, d) /\ cached[s] = CacheRow(s))
  <2>1. cached[s] # NoSlice /\ cached[s].proj = p /\ cached'[s].day = cached[s].day
    BY <1>1, <1>3, <1>10
  <2>2. ASSUME OnDay(s, d), cached[s] = CacheRow(s)
        PROVE  FALSE
    <3>1. worked[s] \in WorkedRows
      BY <1>2, <1>8, <2>2 DEF PtRowsOK
    <3>2. CacheRow(s).proj = Resolved(s)
      BY <3>1, CacheRowTyped
    <3> QED BY <1>8, <2>1, <2>2, <3>2
  <2> QED BY <2>1, <2>2
<1>11. \A d \in PtDays \ dirty' : DayUntouched(d)
  BY <1>9, <1>10 DEF DayUntouched
<1>12. dirty \subseteq dirty'
  BY <1>1
<1>13. answer' = NoAnswer /\ history'.orphans = history.orphans
  BY <1>1, <1>2, EditFacts
<1> QED BY <1>2, <1>4, <1>11, <1>12, <1>13, ChangeKeepsInv DEF PtInv

\* After a deletion that came by LAN sync nothing more is promised.
LEMMA TombstoneKeeps ==
  ASSUME PtInv, NEW p \in PtProj, TombstoneProject(p)
  PROVE  PtInv'
<1>1. /\ worked' = Unassigned(p) /\ tree' = [tree EXCEPT ![p] = "gone"]
      /\ cached' = cached /\ answer' = NoAnswer
      /\ history' = [edits |-> history.edits + 1, orphans |-> TRUE]
  BY DEF TombstoneProject
<1>2. PtRowsOK
  BY DEF PtInv
<1>3. worked' \in [PtSess -> WorkedRows \cup {NoSlice}]
  BY <1>1, <1>2, UnassignedRows DEF Unassigned
<1>4. tree' \in [PtProj -> {"active", "excluded", "gone"} \cup PtProj]
  BY <1>1, <1>2 DEF PtRowsOK
<1>5. history' \in [edits : Nat, orphans : BOOLEAN] /\ history'.orphans
  BY <1>1, <1>2 DEF PtRowsOK
<1>6. PtRowsOK'
  BY <1>1, <1>2, <1>3, <1>4, <1>5 DEF PtRowsOK
<1>7. CacheInv' /\ CacheIsCurrent'
  BY <1>5 DEF CacheInv, CacheIsCurrent
<1> QED BY <1>6, <1>7 DEF PtInv

\* The cache after a query: rows of the stale days anew, the others as they were.
LEMMA RebuiltRow ==
  ASSUME PtRowsOK, NEW stale, NEW s \in PtSess
  PROVE  LET new == rebuild_session_project_cache(stale)[s]
         IN /\ new \in CachedRows \cup {NoSlice}
            /\ \A d \in stale : OnDay(s, d) => new = CacheRow(s)
            /\ \A d \in stale : new # NoSlice /\ new.day = d => OnDay(s, d)
            /\ \A d : d \notin stale /\ OnDay(s, d) /\ cached[s] = CacheRow(s) => new = cached[s]
            /\ \A d : d \notin stale /\ new # NoSlice /\ new.day = d => new = cached[s]
<1> DEFINE new == rebuild_session_project_cache(stale)[s]
<1>1. new = IF \E d \in stale : OnDay(s, d) THEN CacheRow(s)
            ELSE IF cached[s] # NoSlice /\ cached[s].day \in stale THEN NoSlice ELSE cached[s]
  BY DEF rebuild_session_project_cache
<1>2. \A d : OnDay(s, d) => worked[s] \in WorkedRows /\ DateOf(worked[s].from) = d
  BY DEF OnDay, IsShown, PtRowsOK
<1>3. \A d : OnDay(s, d) =>
        CacheRow(s) \in CachedRows /\ CacheRow(s) # NoSlice /\ CacheRow(s).day = d
  BY <1>2, CacheRowTyped
<1>4. cached[s] \in CachedRows \cup {NoSlice}
  BY DEF PtRowsOK
<1> HIDE DEF new
<1>5. CASE \E d \in stale : OnDay(s, d)
  <2>1. PICK e \in stale : OnDay(s, e)
    BY <1>5
  <2>2. new = CacheRow(s) /\ new \in CachedRows /\ new.day = e
    BY <1>1, <1>3, <1>5, <2>1
  <2>3. \A d : OnDay(s, d) => d = e
    BY <1>2, <2>1
  <2> QED BY <2>1, <2>2, <2>3 DEF new
<1>6. CASE ~(\E d \in stale : OnDay(s, d))
  <2>1. CASE cached[s] # NoSlice /\ cached[s].day \in stale
    <3>1. new = NoSlice
      BY <1>1, <1>6, <2>1
    <3>2. \A d : OnDay(s, d) /\ cached[s] = CacheRow(s) => d \in stale
      BY <1>3, <2>1
    <3> QED BY <1>6, <3>1, <3>2 DEF new
  <2>2. CASE ~(cached[s] # NoSlice /\ cached[s].day \in stale)
    <3>1. new = cached[s]
      BY <1>1, <1>6, <2>2
    <3> QED BY <1>4, <1>6, <2>2, <3>1 DEF new
  <2> QED BY <2>1, <2>2
<1> QED BY <1>5, <1>6

LEMMA QueryKeeps ==
  ASSUME PtInv, NEW range \in Ranges, NEW view, Query(range, view)
  PROVE  PtInv'
<1> DEFINE stale == StaleDates(range)
           new == rebuild_session_project_cache(stale)
<1>1. /\ cached' = new /\ dirty' = dirty \ stale
      /\ worked' = worked /\ traces' = traces /\ tree' = tree /\ history' = history
  BY DEF Query
<1>2. answer'.days = range
  BY DEF Query, Answered
<1>3. PtRowsOK /\ CacheInv
  BY DEF PtInv
<1>4. range \subseteq PtDays
  BY DEF Ranges
<1>5. \A d \in range \ stale : d \notin dirty /\ ~NotCached(d)
  BY DEF StaleDates
<1> HIDE DEF stale
<1>6. \A s \in PtSess : new[s] \in CachedRows \cup {NoSlice}
  BY <1>3, RebuiltRow
<1>7. PtRowsOK'
  <2>1. cached' \in [PtSess -> CachedRows \cup {NoSlice}]
    <3>1. new = [s \in PtSess |-> new[s]]
      BY DEF rebuild_session_project_cache
    <3> HIDE DEF new
    <3> QED BY <1>1, <1>6, <3>1
  <2> QED BY <1>1, <1>3, <2>1 DEF PtRowsOK
<1>8. ASSUME NEW s \in PtSess
      PROVE  /\ CacheRow(s)' = CacheRow(s) /\ \A d : OnDay(s, d)' <=> OnDay(s, d)
             /\ cached'[s] = new[s]
  <2>1. worked'[s] = worked[s]
    BY <1>1
  <2>2. FilesAround(worked[s])' = FilesAround(worked[s])
    BY <1>1, <2>1, AroundSame
  <2>3. Exists(worked[s].proj)' <=> Exists(worked[s].proj)
    BY <1>1 DEF Exists
  <2>4. CacheRow(s)' = CacheRow(s)
    BY <2>1, <2>2, <2>3, ResolvedSame
  <2> QED BY <1>1, <2>4 DEF OnDay, IsShown
<1>9. ASSUME NEW d \in stale
      PROVE  UpToDate(d)'
  <2>1. ASSUME NEW s \in PtSess
        PROVE  /\ OnDay(s, d)' => cached'[s] = CacheRow(s)'
               /\ cached'[s] # NoSlice /\ cached'[s].day = d => OnDay(s, d)'
    <3>1. /\ OnDay(s, d) => new[s] = CacheRow(s)
          /\ new[s] # NoSlice /\ new[s].day = d => OnDay(s, d)
      BY <1>3, <1>9, RebuiltRow
    <3> QED BY <1>8, <3>1
  <2> QED BY <2>1 DEF UpToDate
<1>10. ASSUME NEW d, d \notin stale, UpToDate(d)
       PROVE  UpToDate(d)'
  <2>1. ASSUME NEW s \in PtSess
        PROVE  /\ OnDay(s, d)' => cached'[s] = CacheRow(s)'
               /\ cached'[s] # NoSlice /\ cached'[s].day = d => OnDay(s, d)'
    <3>1. /\ OnDay(s, d) => cached[s] = CacheRow(s)
          /\ cached[s] # NoSlice /\ cached[s].day = d => OnDay(s, d)
      BY <1>10 DEF UpToDate
    <3>2. /\ OnDay(s, d) /\ cached[s] = CacheRow(s) => new[s] = cached[s]
          /\ new[s] # NoSlice /\ new[s].day = d => new[s] = cached[s]
      BY <1>3, <1>10, RebuiltRow
    <3> QED BY <1>8, <3>1, <3>2
  <2> QED BY <2>1 DEF UpToDate
<1>11. ASSUME NEW d, d \notin stale, Uncached(d)
       PROVE  Uncached(d)'
  <2>1. ASSUME NEW s \in PtSess
        PROVE  cached'[s] = NoSlice \/ cached'[s].day # d
    <3>1. cached[s] = NoSlice \/ cached[s].day # d
      BY <1>11 DEF Uncached
    <3>2. new[s] # NoSlice /\ new[s].day = d => new[s] = cached[s]
      BY <1>3, <1>11, RebuiltRow
    <3> QED BY <1>8, <3>1, <3>2
  <2> QED BY <2>1 DEF Uncached
<1>12. ASSUME ~history.orphans, NEW d \in PtDays, d \in stale \/ d \notin dirty
       PROVE  Settled(d)'
  <2>1. d \notin stale => Settled(d)
    BY <1>3, <1>12 DEF CacheInv
  <2>2. UpToDate(d)' \/ Uncached(d)'
    BY <1>9, <1>10, <1>11, <2>1 DEF Settled
  <2> QED BY <2>2 DEF Settled
<1>13. CacheInv'
  <2>1. ~history'.orphans => \A d \in PtDays \ dirty' : Settled(d)'
    BY <1>1, <1>12
  <2> QED BY <2>1 DEF CacheInv, Settled, Uncached
<1>14. CacheIsCurrent'
  <2>1. ASSUME ~history.orphans, NEW d \in range, d \notin stale
        PROVE  UpToDate(d)
    <3>1. Settled(d)
      BY <1>3, <1>4, <1>5, <2>1 DEF CacheInv
    <3>2. ASSUME Uncached(d)
          PROVE  UpToDate(d)
      <4>1. \A s \in PtSess : ~OnDay(s, d)
        BY <1>5, <2>1, <3>2 DEF NotCached, Uncached
      <4> QED BY <3>2, <4>1 DEF UpToDate, Uncached
    <3> QED BY <3>1, <3>2 DEF Settled
  <2>2. ~history'.orphans => \A d \in answer'.days : UpToDate(d)'
    BY <1>1, <1>2, <1>9, <1>10, <2>1
  <2> QED BY <2>2 DEF CacheIsCurrent
<1> QED BY <1>7, <1>13, <1>14 DEF PtInv

LEMMA PtInitInv == PtInit => PtInv
<1> SUFFICES ASSUME PtInit PROVE PtInv
  OBVIOUS
<1>1. ASSUME NEW x \in Imported
      PROVE  [from |-> x[1], to |-> x[2], proj |-> Nobody, hidden |-> FALSE] \in WorkedRows
  BY DEF WorkedRows, PtStarts, PtEnds, Series
<1>2. worked \in [PtSess -> WorkedRows \cup {NoSlice}]
  BY <1>1 DEF PtInit
<1>3. PtRowsOK
  BY <1>2 DEF PtInit, PtRowsOK
<1>4. \A d : Uncached(d)
  BY DEF PtInit, Uncached
<1>5. CacheInv
  BY <1>4 DEF CacheInv, Settled
<1>6. CacheIsCurrent
  BY DEF PtInit, CacheIsCurrent
<1> QED BY <1>3, <1>5, <1>6 DEF PtInv

LEMMA PtStepInv == PtInv /\ [PtNext]_ptVars => PtInv'
<1> SUFFICES ASSUME PtInv, [PtNext]_ptVars PROVE PtInv'
  OBVIOUS
<1>1. CASE \E s \in PtSess, span \in Spans, p \in Series : InsertSession(s, span, p)
  BY <1>1, InsertRow
<1>2. CASE \E s \in PtSess, span \in Spans, p \in Series, hidden \in BOOLEAN :
             UpdateSession(s, span[2], p, hidden)
  BY <1>2, UpdateRow
<1>3. CASE \E s \in PtSess, cascade \in BOOLEAN : RemoveSession(s, cascade)
  BY <1>3, RemoveRow
<1>4. CASE \E f \in FileRows : WriteFile(f)
  BY <1>4, WriteFileKeeps
<1>5. CASE \E p \in PtProj : WriteManual(p)
  BY <1>5, WriteManualKeeps
<1>6. CASE \E p \in PtProj : delete_project(p)
  BY <1>6, DeleteKeeps
<1>7. CASE \E p \in PtProj : TombstoneProject(p)
  BY <1>7, TombstoneKeeps
<1>8. CASE \E p \in PtProj : \E state \in {"active", "excluded"} \cup (PtProj \ {p}) : SetTree(p, state)
  BY <1>8, SetTreeKeeps
<1>9. CASE \E range \in Ranges, v \in DOMAIN Views : Query(range, Views[v])
  BY <1>9, QueryKeeps
<1>10. CASE UNCHANGED ptVars
  <2>1. \A d : UpToDate(d)' <=> UpToDate(d)
    BY <1>10, AroundSame, ResolvedSame DEF ptVars, UpToDate, OnDay, IsShown, Exists
  <2>2. PtRowsOK'
    BY <1>10 DEF ptVars, PtInv, PtRowsOK
  <2>3. CacheInv' /\ CacheIsCurrent'
    BY <1>10, <2>1 DEF ptVars, PtInv, CacheInv, CacheIsCurrent, Settled, Uncached
  <2> QED BY <2>2, <2>3 DEF PtInv
<1> QED BY <1>1, <1>2, <1>3, <1>4, <1>5, <1>6, <1>7, <1>8, <1>9, <1>10 DEF PtNext

\* Every answer is computed from rows that are what a rebuild of the tables would give now, for
\* all of its days and whatever the commands, the triggers and the merge changed before, unless
\* a deleted project came by LAN sync (sql_fragments.rs, the triggers of schema.sql).
THEOREM CacheTheorem == PtSpec => []CacheIsCurrent
<1>1. PtInv => CacheIsCurrent
  BY DEF PtInv
<1> QED BY <1>1, PtInitInv, PtStepInv, PTL DEF PtSpec
===============================================================================
