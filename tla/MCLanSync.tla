------------------------------ MODULE MCLanSync ------------------------------
(* Two machines that have synced at second 1: the same rows, the two markers *)
(* of that sync, no tombstones.  p2 does not exist yet, or has been merged   *)
(* into p1.                                                                  *)
EXTENDS LanSync, TLC

CONSTANTS devA, devB, p1, p2, v0

MCAppOf == [s \in Sessions |-> CHOOSE a \in Apps : TRUE]

\* local ids differ between the machines
MCPid == [d \in Device |-> [p \in ProjectRef |->
            CASE p = None -> 0 [] p = p1 -> 1 [] OTHER -> IF d = devA THEN 2 ELSE 3]]

SyncedDb ==
  [projects  |-> [p \in Projects |->
                    IF p = p1 THEN [ts |-> 1, val |-> v0, excl |-> FALSE, merged |-> None]
                    ELSE None],
   blacklist |-> {},
   apps      |-> [a \in Apps |-> [ts |-> 1, val |-> v0, proj |-> p1]],
   sessions  |-> [s \in Sessions |->
                    [ts |-> 1, val |-> v0, hidden |-> FALSE, proj |-> p1, label |-> p1]],
   manuals   |-> [m \in Manuals |-> [ts |-> 1, val |-> v0, proj |-> p1]],
   tombs     |-> {},
   markers   |-> {[hash |-> 1, at |-> 1, dev |-> devA, peer |-> devB],
                  [hash |-> 2, at |-> 1, dev |-> devB, peer |-> devA]}]

MCStartDbs == {[d \in Device |-> SyncedDb]}

\* p2 was merged into p1 before that sync; merge_projects moves the applications
\* and leaves the sessions and manual sessions of p2 where they are.
MergedDb ==
  [SyncedDb EXCEPT
     !.projects  = [@ EXCEPT ![p2] = [ts |-> 1, val |-> v0, excl |-> TRUE, merged |-> p1]],
     !.blacklist = {p2},
     !.sessions  = [s \in Sessions |-> [@[s] EXCEPT !.proj = p2, !.label = p2]],
     !.manuals   = [m \in Manuals |-> [@[m] EXCEPT !.proj = p2]]]

MCMergedDbs == {[d \in Device |-> MergedDb]}

\* The keys of manual sessions are interchangeable.
MCManualSymmetry == Permutations(Manuals)

\* The commands that create, move, exclude or delete a row; lan_converge has the
\* others, which rewrite one in its place.
StructuralOps ==
  {"create_project", "exclude_project", "restore_project", "delete_project", "merge_project",
   "unmerge_project", "assign_app_to_project", "delete_app_and_data", "upsert_daily_data",
   "assign_session", "unassign_session", "delete_session", "create_manual_session",
   "update_manual_session", "delete_manual_session"}
=============================================================================
