--------------------------- MODULE TombstoneReplay ---------------------------
(***************************************************************************)
(* The loop over /data/tombstones at the head of merge_incoming_data       *)
(* (src/sync_common.rs), one iteration per step, on the rows of one open   *)
(* transaction.  SyncMerge!apply_tombstones states what the whole loop     *)
(* does; here the loop runs as the code runs it, each tombstone seeing     *)
(* what the earlier ones left: the stamps the updated_at triggers put on   *)
(* detached rows, the tombstones already recorded, the sessions already    *)
(* deleted.                                                                *)
(***************************************************************************)
EXTENDS SyncMerge

CONSTANTS LocalDbs,    \* databases a merge may start from
          TombSets,    \* sets of tombstones a peer may send
          Now          \* time of the merge, not before any stamp in them

\* The tables of a tombstone's key.
KeyFits(t) ==
  CASE t.tab = "projects" -> t.key \in Projects
    [] t.tab = "applications" -> t.key \in Apps
    [] t.tab = "sessions" -> t.key \in Sessions
    [] OTHER -> t.key \in Manuals

ASSUME ReplayAssumption ==
  /\ LocalDbs \subseteq Db /\ Now \in Nat
  /\ \A S \in TombSets : S \subseteq Tomb /\ \A t \in S : KeyFits(t)

VARIABLES local,       \* the database when the transaction began
          sent,        \* the tombstones of the payload
          tx,          \* the database as the transaction sees it
          left         \* tombstones not yet replayed

vars == <<local, sent, tx, left>>

Init == /\ local \in LocalDbs /\ sent \in TombSets
        /\ tx = local /\ left = sent

\* ORDER BY deleted_at; within one second, the order of the deleting transaction
Rank(t) == CASE t.tab = "projects" -> 2 [] t.tab = "applications" -> 1 [] OTHER -> 0

Before(t, u) == t.at < u.at \/ (t.at = u.at /\ Rank(t) < Rank(u))

First(t) == t \in left /\ \A u \in left : ~Before(u, t)

RowIn(rows, k, t) == rows[k] # None /\ rows[k].ts <= t.at

AlreadyRecorded(t) == \E u \in tx.tombs : SameRecord(t, u)

Record(db, t) == [db EXCEPT !.tombs = @ \cup {t}]

\* One action per kind of tombstone; a tombstone whose row is newer, or is not
\* there, or whose key is already recorded, changes no row.
DeleteProject(t) ==
  /\ t.tab = "projects" /\ RowIn(tx.projects, t.key, t)
  /\ tx' = Record([tx EXCEPT
       !.projects[t.key] = None,
       !.blacklist = IF tx.projects[t.key].excl THEN @ \ {t.key} ELSE @,
       !.apps      = [a \in Apps |-> Detach(tx.apps, a, {t.key}, Now)],
       !.sessions  = [s \in Sessions |-> Detach(tx.sessions, s, {t.key}, Now)],
       !.manuals   = [m \in Manuals |-> Detach(tx.manuals, m, {t.key}, Now)]], t)

DeleteApplication(t) ==
  /\ t.tab = "applications" /\ RowIn(tx.apps, t.key, t)
  /\ \A s \in Sessions :
       AppOf[s] = t.key /\ tx.sessions[s] # None => tx.sessions[s].ts <= t.at
  /\ tx' = Record([tx EXCEPT
       !.apps[t.key] = None,
       !.sessions = [s \in Sessions |-> IF AppOf[s] = t.key THEN None ELSE @[s]]], t)

DeleteSession(t) ==
  /\ t.tab = "sessions" /\ RowIn(tx.sessions, t.key, t)
  /\ tx' = Record([tx EXCEPT !.sessions[t.key] = None], t)

DeleteManualSession(t) ==
  /\ t.tab = "manual_sessions" /\ RowIn(tx.manuals, t.key, t)
  /\ tx' = Record([tx EXCEPT !.manuals[t.key] = None], t)

Spared(t) ==
  /\ CASE t.tab = "projects" -> ~RowIn(tx.projects, t.key, t)
       [] t.tab = "applications" ->
            \/ ~RowIn(tx.apps, t.key, t)
            \/ \E s \in Sessions :
                 AppOf[s] = t.key /\ tx.sessions[s] # None /\ tx.sessions[s].ts > t.at
       [] t.tab = "sessions" -> ~RowIn(tx.sessions, t.key, t)
       [] OTHER -> ~RowIn(tx.manuals, t.key, t)
  /\ tx' = Record(tx, t)

Replay(t) ==
  /\ First(t)
  /\ left' = left \ {t}
  /\ IF AlreadyRecorded(t) THEN UNCHANGED tx
     ELSE \/ DeleteProject(t) \/ DeleteApplication(t) \/ DeleteSession(t)
          \/ DeleteManualSession(t) \/ Spared(t)
  /\ UNCHANGED <<local, sent>>

Next == \E t \in left : Replay(t)

Spec == Init /\ [][Next]_vars

-----------------------------------------------------------------------------

\* When the loop ends, the transaction holds what apply_tombstones says: the
\* stamps, cascades and "already recorded" checks of the iterations compose to
\* the one-step description the other modules use.
LoopIsApplyTombstones ==
  left = {} => tx = apply_tombstones(local, [tombs |-> sent], Now)
=============================================================================
