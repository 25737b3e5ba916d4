------------------------- MODULE MCTombstoneReplay -------------------------
(* One project, one application with one session, one manual session; every *)
(* combination of rows and references, against every set of up to three     *)
(* tombstones stamped 1..3 with at most two for the session and one for each *)
(* other row; a tombstone of the session may be recorded already.           *)
EXTENDS TombstoneReplay

MCPid == [d \in Device |-> [p \in ProjectRef |-> IF p = None THEN 0 ELSE 1]]
MCAppOf == [s \in Sessions |-> CHOOSE a \in Apps : TRUE]

T(tab, K, Q, At) == [tab: {tab}, key: K, qual: Q, at: At]

UpTo(n, S) == {x \in SUBSET S : Cardinality(x) <= n}

MCTombSets ==
  {S \in {x \cup y \cup z \cup w :
     x \in UpTo(1, T("projects", Projects, {0}, 1..3)),
     y \in UpTo(1, T("applications", Apps, {0}, {1, 3})),
     z \in UpTo(2, T("sessions", Sessions, {0}, 1..3)),
     w \in UpTo(1, T("manual_sessions", Manuals, {0, 1}, {3}))} :
     Cardinality(S) <= 3}

ProjectRows == [ts: {2}, val: Vals, excl: BOOLEAN, merged: {None}]
AppRows     == [ts: {2}, val: Vals, proj: ProjectRef]
SessionRows == [ts: {1, 3}, val: Vals, hidden: {FALSE}, proj: ProjectRef, label: {None}]
ManualRows  == [ts: {2}, val: Vals, proj: ProjectRef]

MCLocalDbs ==
  {db \in {[projects |-> P, blacklist |-> {p \in Projects : P[p] # None /\ P[p].excl},
            apps |-> A, sessions |-> S, manuals |-> M, tombs |-> X, markers |-> {}] :
             P \in [Projects -> ProjectRows \cup {None}],
             A \in [Apps -> AppRows \cup {None}],
             S \in [Sessions -> SessionRows \cup {None}],
             M \in [Manuals -> ManualRows \cup {None}],
             X \in {{}} \cup {{t} : t \in [tab: {"sessions"}, key: Sessions, qual: {0}, at: {2}]}} :
     DbOK(db)}
=============================================================================
