------------------------------- MODULE Archive -------------------------------
(***************************************************************************)
(* Export and import of archives between two databases (import_data.rs,    *)
(* export.rs): an archive is a file, so it may be old when it is imported, *)
(* imported repeatedly, and on the machine it comes from.  The data: the   *)
(* sessions of one application by the instant they start at, one project,  *)
(* one manual session of it, and the tombstones.  Left out: labels,        *)
(* comments, rates and durations of sessions, the plain columns, file      *)
(* activities and daily files, which are merged row by row, ids in the     *)
(* keys of tombstones.                                                     *)
(***************************************************************************)
EXTENDS Naturals, Sequences, FiniteSets, SequencesExt

CONSTANTS
  Side,              \* the machines
  Absent,            \* no row
  SLOTS,             \* instants of the day
  MaxChanges, MaxFiles, MaxImports   \* bounds: edits, archives, imports

ASSUME ArcAssumption ==
  /\ SLOTS \in Nat /\ MaxChanges \in Nat /\ MaxImports \in Nat /\ MaxFiles \in Nat
  /\ Absent \notin Nat /\ Absent \notin [e: 1..SLOTS, hid: BOOLEAN, ofP: BOOLEAN]

VARIABLES
  held,      \* per machine: its database
  files,     \* the archives
  edits,     \* edits so far, and the clock that stamps them
  imports,   \* imports so far
  deleted    \* history: what users deleted, and when

arcVars == <<held, files, edits, imports, deleted>>

Slot == 0..(SLOTS - 1)
ArcTomb == [tab: {"projects", "manual_sessions"}, at: 0..MaxChanges]
ArcSession == [e: 1..SLOTS, hid: BOOLEAN, ofP: BOOLEAN]

ArcTypeOK ==
  /\ edits \in 0..MaxChanges /\ imports \in 0..MaxImports
  /\ Cardinality(files) <= MaxFiles
  /\ \A x \in Side :
       /\ \A s \in Slot : held[x].ses[s] = Absent \/ (held[x].ses[s] \in ArcSession /\ held[x].ses[s].e > s)
       /\ held[x].prj \in (0..MaxChanges) \cup {Absent} /\ held[x].man \in (0..MaxChanges) \cup {Absent}
       /\ held[x].tombs \in Seq(ArcTomb)
       \* the foreign keys
       /\ held[x].prj = Absent => held[x].man = Absent
       /\ \A s \in Slot : held[x].ses[s] # Absent /\ held[x].ses[s].ofP => held[x].prj # Absent

\* Both have the project and the manual session from an earlier archive.
ArcInit ==
  /\ held = [x \in Side |-> [ses |-> [s \in Slot |-> Absent], prj |-> 0, man |-> 0,
                             tombs |-> <<>>]]
  /\ files = {} /\ edits = 0 /\ imports = 0 /\ deleted = {}

-----------------------------------------------------------------------------
(* Import: the steps of one transaction, which is rolled back when one of  *)
(* them fails.                                                             *)

\* A tombstone is recorded with its own date, unless one of its key is there.
RecordTomb(own, t) ==
  IF \E k \in 1..Len(own) : own[k].tab = t.tab THEN own ELSE Append(own, t)

RecordTombs(own, theirs) ==
  LET rec[n \in 0..Len(theirs)] == IF n = 0 THEN own ELSE RecordTomb(rec[n - 1], theirs[n])
  IN rec[Len(theirs)]

\* Mutant of NotNewer: whatever was deleted anywhere is deleted here.
NotNewerIgnored(row, at) == row # Absent

\* A row changed after the deletion survives.
NotNewer(row, at) == row # Absent /\ row <= at

Orphaned(ses) == [s \in Slot |-> IF ses[s] = Absent THEN Absent ELSE [ses[s] EXCEPT !.ofP = FALSE]]

\* The project goes with its manual sessions (ON DELETE CASCADE, since 0 is no project).
apply_archive_tombstone(d, t) ==
  CASE t.tab = "projects" /\ NotNewer(d.prj, t.at) ->
         [d EXCEPT !.ses = Orphaned(@), !.prj = Absent, !.man = Absent]
    [] t.tab = "manual_sessions" /\ NotNewer(d.man, t.at) -> [d EXCEPT !.man = Absent]
    [] OTHER -> d

ApplyTombs(d, ts) ==
  LET done[n \in 0..Len(ts)] ==
        IF n = 0 THEN [d EXCEPT !.tombs = RecordTombs(@, ts)]
        ELSE apply_archive_tombstone(done[n - 1], ts[n])
  IN done[Len(ts)]

\* Inserted when missing, whatever was deleted here; updated when newer.
NewerOf(mine, theirs) ==
  IF mine = Absent \/ (theirs # Absent /\ theirs > mine) THEN theirs ELSE mine

\* The row of an interval that is new at its start, or meets one of the other track.
upsert_session_interval(ses, s, r) ==
  IF ses[s] = Absent THEN [ses EXCEPT ![s] = r]
  ELSE [ses EXCEPT ![s].e = IF r.e > @ THEN r.e ELSE @,
                   ![s].ofP = @ \/ r.ofP,
                   ![s].hid = @ /\ r.hid]

\* Mutant of SameTrack: a hidden session absorbs visible ones.
AnyTrack(row, r) == TRUE

SameTrack(row, r) == row.hid = r.hid

\* Sessions of r's track that touch the interval.
Touching(ses, r, from, to) ==
  {s \in Slot : /\ ses[s] # Absent /\ SameTrack(ses[s], r)
                /\ s <= to /\ ses[s].e >= from}

\* An interval with the sessions it touches.
Widened(ses, r, g) ==
  LET over == Touching(ses, r, g.from, g.to)
  IN [from |-> Min(over \cup {g.from}), to |-> Max({ses[i].e : i \in over} \cup {g.to})]

\* The interval grows until it touches nothing more.
Whole(ses, s, r) ==
  LET grow[n \in 0..SLOTS] ==
        IF n = 0 THEN [from |-> s, to |-> r.e] ELSE Widened(ses, r, grow[n - 1])
  IN grow[SLOTS]

\* All of it becomes one session.
merge_or_insert_session(ses, s, r) ==
  LET whole == Whole(ses, s, r)
      absorbed == Touching(ses, r, whole.from, whole.to)
      kept == [i \in Slot |-> IF i \in absorbed THEN Absent ELSE ses[i]]
  IN upsert_session_interval(kept, whole.from,
       [e |-> whole.to, hid |-> r.hid, ofP |-> r.ofP \/ \E i \in absorbed : ses[i].ofP])

Rows(ses) == {s \in Slot : ses[s] # Absent}

\* Mutant of TriggersArmed: the import runs with the tombstone triggers in place.
TriggersLeft == TRUE

\* They are dropped before the first statement and created again after the last.
TriggersArmed == FALSE

\* What the triggers record of the rows that an import deletes.
MintedBy(d, e) ==
  IF ~TriggersArmed THEN <<>>
  ELSE (IF d.prj # Absent /\ e.prj = Absent THEN <<[tab |-> "projects", at |-> edits]>> ELSE <<>>)
       \o (IF d.man # Absent /\ e.man = Absent THEN <<[tab |-> "manual_sessions", at |-> edits]>> ELSE <<>>)

\* The rows of an archive come in the order of their ids.
ArcMerged(ses, rows, order) ==
  LET done[n \in 0..Len(order)] ==
        IF n = 0 THEN ses ELSE merge_or_insert_session(done[n - 1], order[n], rows[order[n]])
  IN done[Len(order)]

import_archive_into_tx(d, a, order) ==
  LET cleared == ApplyTombs(d, a.tombs)
      mapped == [cleared EXCEPT !.tombs = @ \o MintedBy(d, cleared), !.prj = NewerOf(@, a.prj)]
  IN [mapped EXCEPT
        !.ses = ArcMerged(@, a.ses, order),
        !.man = NewerOf(@, a.man)]

ImportArchive(x) ==
  /\ imports < MaxImports
  /\ \E a \in files : \E order \in SetToSeqs(Rows(a.ses)) :
       held' = [held EXCEPT ![x] = import_archive_into_tx(@, a, order)]
  /\ imports' = imports + 1
  /\ UNCHANGED <<files, edits, deleted>>

-----------------------------------------------------------------------------
(* Export, and what users and daemons change. *)

build_export_archive(x) ==
  /\ Cardinality(files) < MaxFiles /\ held[x] \notin files
  /\ files' = files \cup {held[x]}
  /\ UNCHANGED <<held, edits, imports, deleted>>

Change(x, d, dels) ==
  /\ edits < MaxChanges /\ edits' = edits + 1
  /\ held' = [held EXCEPT ![x] = d]
  /\ deleted' = deleted \cup dels
  /\ UNCHANGED <<files, imports>>

ArcClock == edits + 1

\* The daemon's data: an interval that meets no other session of the application.
RecordsSession(x, s, e) ==
  /\ e > s /\ \A i \in Rows(held[x].ses) : i >= e \/ held[x].ses[i].e <= s
  /\ Change(x, [held[x] EXCEPT !.ses[s] = [e |-> e, hid |-> FALSE, ofP |-> held[x].prj # Absent]], {})

HidesSession(x, s) ==
  /\ held[x].ses[s] # Absent /\ ~held[x].ses[s].hid
  /\ Change(x, [held[x] EXCEPT !.ses[s].hid = TRUE], {})

SavesProject(x) == Change(x, [held[x] EXCEPT !.prj = ArcClock], {})

\* The triggers record the project, and the manual session deleted with it.
DropsProject(x) ==
  /\ held[x].prj # Absent
  /\ LET mans == IF held[x].man = Absent THEN <<>> ELSE <<[tab |-> "manual_sessions", at |-> ArcClock]>>
         ts == mans \o <<[tab |-> "projects", at |-> ArcClock]>>
     IN Change(x, [held[x] EXCEPT !.ses = Orphaned(@), !.prj = Absent, !.man = Absent,
                                  !.tombs = @ \o ts], ToSet(ts))

SavesManual(x) ==
  /\ held[x].prj # Absent
  /\ Change(x, [held[x] EXCEPT !.man = ArcClock], {})

DropsManual(x) ==
  /\ held[x].man # Absent
  /\ LET t == [tab |-> "manual_sessions", at |-> ArcClock]
     IN Change(x, [held[x] EXCEPT !.man = Absent, !.tombs = Append(@, t)], {t})

ArcNext ==
  \E x \in Side :
    \/ ImportArchive(x) \/ build_export_archive(x)
    \/ SavesProject(x) \/ DropsProject(x) \/ SavesManual(x) \/ DropsManual(x)
    \/ \E s \in Slot : \/ HidesSession(x, s)
                       \/ \E e \in 1..SLOTS : RecordsSession(x, s, e)

ArcSpec == ArcInit /\ [][ArcNext]_arcVars

-----------------------------------------------------------------------------
VisibleTime(d) == UNION {s..(d.ses[s].e - 1) : s \in {i \in Rows(d.ses) : ~d.ses[i].hid}}

VisibleTimeKept ==
  imports' # imports =>
    \E a \in files : \A x \in Side :
      \/ held'[x] = held[x]
      \/ VisibleTime(held[x]) \cup VisibleTime(a) \subseteq VisibleTime(held'[x])

EditsSurvive ==
  \A x \in Side :
    held[x].man # Absent /\ (held'[x].man = Absent \/ held'[x].man < held[x].man)
      => \E t \in deleted' : t.tab = "projects" \/ t.at >= held[x].man

\* "a hidden session must never absorb overlapping visible time (it would silently drop
\* those hours from every stat)": no import, of any archive in any order of its rows,
\* hides an instant that was visible, and what is visible in an archive is visible after.
\* "a record re-created or updated after the deletion must survive": whatever archives are
\* imported, a manual session disappears or becomes older only if it was deleted after its
\* last change, or its project was deleted.
ImportKeepsWork == [][VisibleTimeKept /\ EditsSurvive]_arcVars

\* "trigger-minted copies would propagate false deletions to peers": every tombstone in
\* any database or archive is a deletion that some user made, at the time it says.
DeletionsAreReal ==
  \A d \in {held[x] : x \in Side} \cup files : ToSet(d.tombs) \subseteq deleted
=============================================================================
