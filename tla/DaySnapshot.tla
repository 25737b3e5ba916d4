---------------------------- MODULE DaySnapshot ----------------------------
(***************************************************************************)
(* What the daily store promises of a day: it holds nothing, or the last   *)
(* snapshot that was saved, the last entry of a file winning; saving       *)
(* another one is one step.                                                *)
(***************************************************************************)
EXTENDS Naturals, Sequences, FiniteSets

CONSTANTS Snapshots, NoSnapshot

VARIABLE snapshot

\* Entries of the same file: the last one stays, in its place.
LastOfEach(files) ==
  LET last == {i \in 1..Len(files) : ~\E j \in (i + 1)..Len(files) : files[j].file = files[i].file}
      Nth(k) == CHOOSE i \in last : Cardinality({j \in last : j < i}) = k - 1
  IN [k \in 1..Cardinality(last) |-> files[Nth(k)]]

AsSaved(s) == [x \in DOMAIN s |-> [s[x] EXCEPT !.files = LastOfEach(@)]]

SnapInit == snapshot = NoSnapshot

SavedOnes == {AsSaved(s) : s \in Snapshots}

SaveSnapshot == snapshot' # snapshot /\ snapshot' \in SavedOnes

SnapSpec == SnapInit /\ [][SaveSnapshot]_snapshot
=============================================================================
