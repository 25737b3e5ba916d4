---------------------------- MODULE ProjectTree ----------------------------
(***************************************************************************)
(* The life of projects (commands/projects.rs): creation by hand, from     *)
(* folders and from detected files, freezing, exclusion with its blacklist *)
(* of names (the triggers of schema.sql), merging into a parent, deletion, *)
(* and the row that a LAN sync brings (sync_common.rs).  An application    *)
(* may be pinned to a project, and new time follows the pin.               *)
(***************************************************************************)
EXTENDS Naturals, FiniteSets

CONSTANTS
  ProjName,      \* names, which are what merged_into and a sync refer to
  NoName,
  MaxTreeEdits,  \* bound: of the changes
  MaxPeerRows    \* bound: of the rows a sync brings

ASSUME TreeAssumption == NoName \notin ProjName

VARIABLES
  row,       \* projects: [excl, frozen, thawed, into], or NoProject
  banned,    \* project_name_blacklist
  pin,       \* applications.project_id, by name
  rooted,    \* a folder root is registered in project_folders
  deeds       \* [edits, peer: rows synced, auto: auto-freezing has happened]

treeVars == <<row, banned, pin, rooted, deeds>>

NoProject == [into |-> NoName]
FreshProject == [excl |-> FALSE, frozen |-> FALSE, thawed |-> FALSE, into |-> NoName]
TreeRows == [excl : BOOLEAN, frozen : BOOLEAN, thawed : BOOLEAN, into : ProjName \cup {NoName}]

Has(n) == row[n] # NoProject
MayCollect(n) == Has(n) /\ ~row[n].excl /\ ~row[n].frozen
Stages(n) == {c \in ProjName : Has(c) /\ row[c].into = n}

TreeTypeOK ==
  /\ row \in [ProjName -> TreeRows \cup {NoProject}]
  /\ banned \subseteq ProjName
  /\ pin \in ProjName \cup {NoName} /\ rooted \in BOOLEAN
  /\ deeds \in [edits : Nat, peer : Nat, auto : BOOLEAN]

TreeInit ==
  /\ row = [n \in ProjName |-> NoProject]
  /\ banned = {} /\ pin = NoName /\ rooted = FALSE
  /\ deeds = [edits |-> 0, peer |-> 0, auto |-> FALSE]

Edited == deeds.edits < MaxTreeEdits /\ deeds' = [deeds EXCEPT !.edits = @ + 1]
Detached(n) == IF pin = n THEN NoName ELSE pin

-----------------------------------------------------------------------------
(* Projects come into being. *)

ProjectExistsByName(n) == Has(n) \/ n \in banned

\* create_project_if_missing[_with_folder] for each of a list of names
CreatedFor(names) ==
  [n \in ProjName |-> IF n \in names /\ ~ProjectExistsByName(n) THEN FreshProject ELSE row[n]]

CreateProject(n) ==
  /\ Edited /\ ~ProjectExistsByName(n)
  /\ row' = CreatedFor({n})
  /\ rooted' \in {rooted, TRUE}       \* with a folder of its own, or without
  /\ UNCHANGED <<banned, pin>>

\* add_project_folder, sync_projects_from_folders and create_project_from_folder:
\* what the disk holds is any set of names.
ProjectsFromFolders(names) ==
  /\ Edited /\ row' = CreatedFor(names) /\ rooted' = TRUE
  /\ row' # row /\ UNCHANGED <<banned, pin>>

\* auto_create_projects_from_detection: files seen on two days below a root
AutoCreate(names) == rooted /\ ProjectsFromFolders(names)

\* remove_project_folder; cleanup_missing_project_folders when it is gone from disk
ForgetFolder ==
  /\ Edited /\ rooted /\ rooted' = FALSE /\ UNCHANGED <<row, banned, pin>>

-----------------------------------------------------------------------------
(* Freezing. *)

\* freeze_project_in_conn: nothing for an excluded row, but the pin is dropped.
FreezeProject(n) ==
  /\ Edited /\ Has(n)
  /\ row' = IF row[n].excl THEN row
            ELSE [row EXCEPT ![n].frozen = TRUE, ![n].thawed = FALSE]
  /\ pin' = Detached(n) /\ UNCHANGED <<banned, rooted>>

UnfreezeProject(n) ==
  /\ Edited /\ Has(n)
  /\ row' = [row EXCEPT ![n].frozen = FALSE, ![n].thawed = TRUE]
  /\ UNCHANGED <<banned, pin, rooted>>

\* auto_freeze_stale_projects: an unfreezing that is long ago is forgotten first.
AutoFreeze(stale, recent) ==
  LET thawed(n) == row[n].thawed /\ (row[n].excl \/ n \in recent)
      freezes(n) == n \in stale /\ MayCollect(n) /\ ~thawed(n)
  IN /\ deeds.edits < MaxTreeEdits
     /\ deeds' = [deeds EXCEPT !.edits = @ + 1, !.auto = TRUE]
     /\ row' = [n \in ProjName |->
                  IF ~Has(n) THEN NoProject
                  ELSE [row[n] EXCEPT !.frozen = @ \/ freezes(n),
                                      !.thawed = thawed(n) /\ ~freezes(n)]]
     /\ row' # row /\ UNCHANGED <<banned, pin, rooted>>

-----------------------------------------------------------------------------
(* Exclusion; the triggers keep the blacklist of names. *)

\* Mutant: no trigger for a deletion.
BannedAfterNoDelete(written, new, list) ==
  {n \in ProjName :
     IF n \in written /\ new[n].excl THEN TRUE
     ELSE n \in list /\ ~(Has(n) /\ row[n].excl /\ new[n] # NoProject /\ ~new[n].excl)}

\* trg_projects_blacklist_sync_insert and _exclude fire for the rows whose
\* excluded_at is written, _restore and _delete for the rows that were excluded.
BannedAfter(written, new, list) ==
  {n \in ProjName :
     IF n \in written /\ new[n].excl THEN TRUE
     ELSE n \in list /\ ~(Has(n) /\ row[n].excl /\ (new[n] = NoProject \/ ~new[n].excl))}

PutRows(written, new) == row' = new /\ banned' = BannedAfter(written, new, banned)

\* exclude_project, and the status "excluded" or "archived" of a client's panel
Exclude(n) ==
  /\ Edited /\ Has(n)
  /\ PutRows({n}, [row EXCEPT ![n].excl = TRUE])
  /\ pin' = Detached(n) /\ UNCHANGED rooted

\* restore_project_in_conn; the status "active" also unfreezes.
Restore(n, unfreeze) ==
  /\ Edited /\ Has(n) /\ row[n].into = NoName
  /\ banned' = banned \ {n}
  /\ row' = [row EXCEPT ![n].excl = FALSE,
                        ![n].frozen = @ /\ ~unfreeze,
                        ![n].thawed = @ \/ unfreeze]
  /\ UNCHANGED <<pin, rooted>>

\* The program ends between the two statements, which are no transaction.
RestoreCut(n) ==
  /\ Edited /\ Has(n) /\ row[n].into = NoName /\ n \in banned
  /\ banned' = banned \ {n} /\ UNCHANGED <<row, pin, rooted>>

-----------------------------------------------------------------------------
(* Stages are merged into a parent. *)

\* Mutant: the stages of the source stay where they are.
MergedRowsDeep(s, t) == [row EXCEPT ![s].into = t, ![s].excl = TRUE]

\* merge_project_in_conn: the hierarchy has one level.
MergedRows(s, t) ==
  [n \in ProjName |->
     IF n = s THEN [row[n] EXCEPT !.into = t, !.excl = TRUE]
     ELSE IF n \in Stages(s) THEN [row[n] EXCEPT !.into = t] ELSE row[n]]

\* Mutant: a merge leaves the application with the stage.
MergedPinKept(s, t) == pin

MergedPin(s, t) == IF pin = s THEN t ELSE pin

MergeProject(s, t) ==
  /\ Edited /\ s # t
  /\ MayCollect(t) /\ row[t].into = NoName
  /\ Has(s) /\ row[s].into = NoName
  /\ PutRows({s}, MergedRows(s, t))
  /\ pin' = MergedPin(s, t)
  /\ UNCHANGED rooted

Unmerge(n) ==
  /\ Edited /\ Has(n) /\ row[n].into # NoName
  /\ PutRows({n}, [row EXCEPT ![n].into = NoName, ![n].excl = FALSE])
  /\ UNCHANGED <<pin, rooted>>

-----------------------------------------------------------------------------
(* Deletion. *)

RemoveProjects(names) ==
  /\ PutRows({}, [n \in ProjName |-> IF n \in names THEN NoProject ELSE row[n]])
  /\ pin' = IF pin \in names THEN NoName ELSE pin
  /\ UNCHANGED rooted

\* Mutant: a parent may be deleted.
DeletableParent(n) == Has(n)

\* delete_project_in_conn
Deletable(n) == Has(n) /\ Stages(n) = {}

DeleteOne(n) == Edited /\ Deletable(n) /\ RemoveProjects({n})

\* delete_all_excluded_projects_in_conn
DeleteAllExcluded ==
  LET gone == {n \in ProjName : Deletable(n) /\ row[n].excl /\ row[n].into = NoName}
  IN Edited /\ gone # {} /\ RemoveProjects(gone)

-----------------------------------------------------------------------------
(* The application and its files. *)

\* assign_app_to_project
PinApp(n) ==
  /\ Edited /\ pin # n /\ n \in {NoName} \cup {m \in ProjName : MayCollect(m)}
  /\ pin' = n /\ UNCHANGED <<row, banned, rooted>>

\* ensure_app_project_from_file_hint: the project of a file whose title names n
HintFor(n) ==
  IF ~Has(n) THEN NoName
  ELSE IF row[n].into # NoName
       THEN IF row[n].into \in ProjName /\ MayCollect(row[n].into) THEN row[n].into ELSE NoName
       ELSE IF MayCollect(n) THEN n ELSE NoName

\* Layer 1 of import.rs: a new session follows the pin when it may.
NewTimeOf == IF pin # NoName /\ MayCollect(pin) THEN pin ELSE NoName

-----------------------------------------------------------------------------
(* A LAN sync replaces the row of a name, and repairs what dangles. *)

\* The peer is such a program, too: its stages are excluded.
PeerVersions == {r \in TreeRows : ~r.thawed /\ (r.into # NoName => r.excl)}

Repaired(rows) ==
  [n \in ProjName |->
     IF rows[n] # NoProject /\ rows[n].into # NoName /\ rows[rows[n].into] = NoProject
     THEN [rows[n] EXCEPT !.into = NoName] ELSE rows[n]]

PeerRow(n, r) ==
  LET kept == IF Has(n) THEN row[n].thawed ELSE FALSE
      new == Repaired([row EXCEPT ![n] = [r EXCEPT !.thawed = kept]])
  IN /\ deeds.peer < MaxPeerRows /\ deeds' = [deeds EXCEPT !.peer = @ + 1]
     /\ r.into # n
     /\ row' = new
     /\ banned' = BannedAfter({n}, new, IF r.excl THEN banned ELSE banned \ {n})
     /\ UNCHANGED <<pin, rooted>>

\* A tombstone of the peer deletes the row whatever is merged into it.
PeerDelete(n) ==
  LET new == Repaired([row EXCEPT ![n] = NoProject])
  IN /\ deeds.peer < MaxPeerRows /\ deeds' = [deeds EXCEPT !.peer = @ + 1]
     /\ Has(n) /\ row' = new
     /\ banned' = BannedAfter({}, new, banned)
     /\ pin' = Detached(n) /\ UNCHANGED rooted

-----------------------------------------------------------------------------

TreeNext ==
  \/ \E n \in ProjName : CreateProject(n) \/ FreezeProject(n) \/ UnfreezeProject(n) \/ Exclude(n)
       \/ RestoreCut(n) \/ Unmerge(n) \/ DeleteOne(n) \/ PeerDelete(n)
  \/ \E n \in ProjName, unfreeze \in BOOLEAN : Restore(n, unfreeze)
  \/ \E names \in SUBSET ProjName : ProjectsFromFolders(names) \/ AutoCreate(names)
  \/ ForgetFolder \/ DeleteAllExcluded
  \/ \E stale, recent \in SUBSET ProjName : AutoFreeze(stale, recent)
  \/ \E s, t \in ProjName : MergeProject(s, t)
  \/ \E n \in ProjName \cup {NoName} : PinApp(n)
  \/ \E n \in ProjName, r \in PeerVersions : PeerRow(n, r)

TreeSpec == TreeInit /\ [][TreeNext]_treeVars

-----------------------------------------------------------------------------
(* Properties. *)

\* Time that was worked on has a project that shows it.  A merged stage is excluded
\* and collects nothing itself, its parent exists and, as long as only this machine's
\* commands have touched the tree, is no stage (projects.rs:408, the flattening of
\* merge_project_in_conn).  New time of the application or of a file goes to a project
\* that is shown on its own, and a pin that a command has dropped stays dropped: only
\* auto-freezing and a sync leave one to a project that may not collect.
TimeHasAHome ==
  /\ \A n \in ProjName : Has(n) /\ row[n].into # NoName =>
       /\ row[n].excl /\ Has(row[n].into)
       /\ deeds.peer = 0 => row[row[n].into].into = NoName
  /\ \A n \in {NewTimeOf} \cup {HintFor(m) : m \in ProjName} :
       n # NoName => row[n].into = NoName
  /\ pin # NoName => Has(pin) /\ (deeds.peer = 0 /\ ~deeds.auto => MayCollect(pin))

\* A name is refused to new projects only as long as there is an excluded row
\* that a user can restore, unmerge or delete, whatever commands, interrupted
\* restores and syncs came before.
NamesCanComeBack == \A n \in banned : Has(n) /\ row[n].excl
=============================================================================
