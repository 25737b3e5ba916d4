----------------------------- MODULE StoreProofs -----------------------------
(***************************************************************************)
(* The daily store implements DaySnapshot, and a reader returns committed  *)
(* data only: for any applications, files, snapshots and bounds.  The      *)
(* first part is about sequences: the entries that stay, in the order of   *)
(* their ordinals, are the last entries of each file.  The last part is    *)
(* about the sessions the dashboard makes of the store's slices: recorded  *)
(* time stays visible, and the user's assignments come back.               *)
(***************************************************************************)
EXTENDS DailyStore, SessionEdits, FiniteSetTheorems, FunctionTheorems, WellFoundedInduction, TLAPS

Numbered == {p \in Nat \X Nat : p[1] < p[2]}

LEMMA NumberedWellFounded == IsWellFoundedOn(Numbered, Nat)
<1>1. Numbered = OpToRel(<, Nat)
  BY DEF Numbered, OpToRel
<1> QED BY <1>1, NatLessThanWellFounded

\* A set of positions that is not empty has a last one.
LEMMA LastPosition ==
  ASSUME NEW n \in Nat, NEW T \in SUBSET (1..n), T # {}
  PROVE  \E m \in T : \A k \in T : k <= m
<1> DEFINE back == {n - k : k \in T}
<1>1. back \in SUBSET Nat /\ back # {}
  <2>1. \A k \in T : n - k \in Nat
    OBVIOUS
  <2> QED BY <2>1
<1>2. PICK d \in back : \A e \in back : <<e, d>> \notin Numbered
  BY <1>1, NumberedWellFounded, WFMin
<1>3. PICK m \in T : d = n - m
  OBVIOUS
<1>4. ASSUME NEW k \in T
      PROVE  k <= m
  <2>1. n - k \in back /\ n - k \in Nat /\ d \in Nat
    BY <1>1
  <2>2. ~(n - k < d)
    BY <1>2, <2>1 DEF Numbered
  <2> QED BY <1>3, <2>2
<1> QED BY <1>4

-----------------------------------------------------------------------------
(* Ranks: the number of positions of a set before a given one.               *)

Rank(S, i) == Cardinality({j \in S : j < i})

LEMMA PositionsFinite ==
  ASSUME NEW n \in Nat, NEW S \in SUBSET (1..n)
  PROVE  /\ IsFiniteSet(S) /\ Cardinality(S) \in Nat
         /\ \A i \in S : IsFiniteSet({j \in S : j < i}) /\ Rank(S, i) \in 0..Cardinality(S) - 1
<1>1. IsFiniteSet(1..n)
  BY FS_Interval
<1>2. IsFiniteSet(S) /\ Cardinality(S) \in Nat
  BY <1>1, FS_Subset, FS_CardinalityType
<1>3. ASSUME NEW i \in S
      PROVE  IsFiniteSet({j \in S : j < i}) /\ Rank(S, i) \in 0..Cardinality(S) - 1
  <2> DEFINE B == {j \in S : j < i}
  <2>1. B \in SUBSET S /\ i \notin B /\ B # S
    <3>1. i \in 1..n
      OBVIOUS
    <3>2. ~(i < i)
      BY <3>1
    <3> QED BY <3>2
  <2>2. IsFiniteSet(B) /\ Cardinality(B) <= Cardinality(S) /\ Cardinality(S) # Cardinality(B)
    BY <1>2, <2>1, FS_Subset
  <2>3. Cardinality(B) \in Nat
    BY <2>2, FS_CardinalityType
  <2> QED BY <1>2, <2>2, <2>3 DEF Rank
<1> QED BY <1>2, <1>3

\* Later positions have greater ranks.
LEMMA RankGrows ==
  ASSUME NEW n \in Nat, NEW S \in SUBSET (1..n), NEW i \in S, NEW j \in S, i < j
  PROVE  Rank(S, i) < Rank(S, j)
<1> DEFINE A == {k \in S : k < i}
           B == {k \in S : k < j}
<1>1. A \in SUBSET B /\ i \in B /\ i \notin A
  <2>1. \A k \in S : k \in Nat
    OBVIOUS
  <2>2. ~(i < i) /\ \A k \in S : k < i => k < j
    BY <2>1
  <2> QED BY <2>2
<1>2. IsFiniteSet(B) /\ IsFiniteSet(A)
  BY PositionsFinite
<1>3. Cardinality(A) <= Cardinality(B) /\ Cardinality(A) # Cardinality(B)
  <2>1. A # B
    BY <1>1
  <2> HIDE DEF A, B
  <2> QED BY <1>1, <1>2, <2>1, FS_Subset
<1>4. Cardinality(A) \in Nat /\ Cardinality(B) \in Nat
  BY <1>2, FS_CardinalityType
<1>5. Cardinality(A) < Cardinality(B)
  BY <1>3, <1>4
<1> QED BY <1>5 DEF Rank

LEMMA RankOrders ==
  ASSUME NEW n \in Nat, NEW S \in SUBSET (1..n), NEW i \in S, NEW j \in S
  PROVE  /\ Rank(S, i) < Rank(S, j) <=> i < j
         /\ Rank(S, i) = Rank(S, j) <=> i = j
<1>1. i \in Nat /\ j \in Nat /\ Rank(S, i) \in Nat /\ Rank(S, j) \in Nat
  <2>1. Cardinality(S) \in Nat /\ Rank(S, i) \in 0..Cardinality(S) - 1 /\ Rank(S, j) \in 0..Cardinality(S) - 1
    BY PositionsFinite
  <2> QED BY <2>1
<1>2. CASE i < j
  <2>1. Rank(S, i) < Rank(S, j)
    BY <1>2, RankGrows
  <2> QED BY <1>1, <1>2, <2>1
<1>3. CASE j < i
  <2>1. Rank(S, j) < Rank(S, i)
    BY <1>3, RankGrows
  <2> QED BY <1>1, <1>3, <2>1
<1>4. CASE i = j
  BY <1>1, <1>4
<1> QED BY <1>1, <1>2, <1>3, <1>4

\* Every rank below the number of positions is taken.
LEMMA RankReached ==
  ASSUME NEW n \in Nat, NEW S \in SUBSET (1..n), NEW k \in 1..Cardinality(S)
  PROVE  \E i \in S : Rank(S, i) = k - 1
<1> DEFINE T == 0..Cardinality(S) - 1
           f == [i \in S |-> Rank(S, i)]
<1>1. IsFiniteSet(S) /\ Cardinality(S) \in Nat
  BY PositionsFinite
<1>2. f \in [S -> T]
  BY PositionsFinite
<1>3. SUFFICES ASSUME \A i \in S : Rank(S, i) # k - 1
               PROVE  FALSE
  OBVIOUS
<1>4. k - 1 \in T
  BY <1>1
<1>5. f \in [S -> T \ {k - 1}]
  BY <1>2, <1>3
<1>6. IsFiniteSet(T) /\ Cardinality(T) = Cardinality(S)
  <2> DEFINE c == Cardinality(S) - 1
  <2>1. c \in Int /\ 0 <= c
    BY <1>1
  <2>2. IsFiniteSet(0..c) /\ Cardinality(0..c) = c - 0 + 1
    <3> HIDE DEF c
    <3> QED BY <2>1, FS_Interval
  <2> QED BY <1>1, <2>2
<1>7. IsFiniteSet(T \ {k - 1}) /\ Cardinality(T \ {k - 1}) < Cardinality(S)
  <2>1. IsFiniteSet(T \ {k - 1}) /\ Cardinality(T \ {k - 1}) = Cardinality(T) - 1
    <3> HIDE DEF T
    <3> QED BY <1>4, <1>6, FS_RemoveElement
  <2> QED BY <1>1, <1>6, <2>1
<1>8. PICK x \in S, y \in S : x # y /\ f[x] = f[y]
  <2> HIDE DEF f, T
  <2> QED BY <1>1, <1>5, <1>7, FS_PigeonHole
<1> QED BY <1>8, RankOrders

-----------------------------------------------------------------------------
(* The entries of one application. *)

Entries == Seq(SnapshotFile)

\* The rows that a saved application leaves.
RowsOf(files) == [f \in DsFiles |-> IF Mentions(files, f) THEN RowOf(files, f) ELSE NoRow]

LEMMA EntryTyped ==
  ASSUME NEW files \in Entries
  PROVE  /\ Len(files) \in Nat /\ DOMAIN files = 1..Len(files)
         /\ dedupe_files_preserving_last(files) \in SUBSET (1..Len(files))
         /\ \A i \in 1..Len(files) : /\ files[i].file \in DsFiles /\ files[i].v \in Nat
                                     /\ files[i] = [file |-> files[i].file, v |-> files[i].v]
<1>1. Len(files) \in Nat /\ DOMAIN files = 1..Len(files)
  BY DEF Entries
<1>2. \A i \in 1..Len(files) : files[i] \in SnapshotFile
  BY <1>1 DEF Entries
<1>3. dedupe_files_preserving_last(files) \in SUBSET (1..Len(files))
  BY DEF dedupe_files_preserving_last
<1> QED BY <1>1, <1>2, <1>3 DEF SnapshotFile

\* A file that is mentioned has one entry that stays.
LEMMA OneStays ==
  ASSUME NEW files \in Entries, NEW f, Mentions(files, f)
  PROVE  \E i \in dedupe_files_preserving_last(files) :
           /\ files[i].file = f
           /\ \A j \in dedupe_files_preserving_last(files) : files[j].file = f => j = i
<1> DEFINE T == {i \in 1..Len(files) : files[i].file = f}
<1>1. Len(files) \in Nat /\ DOMAIN files = 1..Len(files)
  BY EntryTyped
<1>2. T \in SUBSET (1..Len(files)) /\ T # {}
  BY <1>1 DEF Mentions
<1>3. PICK m \in T : \A k \in T : k <= m
  <2> HIDE DEF T
  <2> QED BY <1>1, <1>2, LastPosition
<1>4. m \in dedupe_files_preserving_last(files) /\ files[m].file = f
  BY <1>1, <1>3 DEF dedupe_files_preserving_last
<1>5. ASSUME NEW j \in dedupe_files_preserving_last(files), files[j].file = f
      PROVE  j = m
  <2>1. j \in T /\ j <= m /\ m \in 1..Len(files) /\ j \in 1..Len(files)
    BY <1>3, <1>5 DEF dedupe_files_preserving_last
  <2>2. ~(m \in j + 1..Len(files))
    BY <1>4, <1>5, <2>1 DEF dedupe_files_preserving_last
  <2> QED BY <1>1, <2>1, <2>2
<1> QED BY <1>4, <1>5

LEMMA RowChosen ==
  ASSUME NEW files \in Entries, NEW i \in dedupe_files_preserving_last(files)
  PROVE  /\ Mentions(files, files[i].file)
         /\ RowOf(files, files[i].file)
              = [ordinal |-> Rank(dedupe_files_preserving_last(files), i), v |-> files[i].v]
<1> DEFINE stay == dedupe_files_preserving_last(files)
           f == files[i].file
<1>1. i \in DOMAIN files /\ Mentions(files, f)
  BY EntryTyped DEF Mentions
<1>2. \A j \in stay : files[j].file = f => j = i
  BY <1>1, OneStays
<1>3. (CHOOSE k \in stay : files[k].file = f) = i
  BY <1>2
<1> HIDE DEF f
<1>4. RowOf(files, f) = [ordinal |-> Rank(stay, i), v |-> files[i].v]
  BY <1>3 DEF RowOf, Rank
<1> QED BY <1>1, <1>4 DEF f

LEMMA RowsTyped ==
  ASSUME NEW files \in Entries, NEW f, Mentions(files, f)
  PROVE  RowOf(files, f) \in FileRow /\ RowOf(files, f) # NoRow
<1>1. PICK i \in dedupe_files_preserving_last(files) : files[i].file = f
  BY OneStays
<1> DEFINE r == Rank(dedupe_files_preserving_last(files), i)
<1>2. r \in Nat
  <2>1. Cardinality(dedupe_files_preserving_last(files)) \in Nat
        /\ r \in 0..Cardinality(dedupe_files_preserving_last(files)) - 1
    BY EntryTyped, PositionsFinite
  <2> QED BY <2>1
<1>3. files[i].v \in Nat
  BY EntryTyped
<1>4. RowOf(files, f) = [ordinal |-> r, v |-> files[i].v]
  BY <1>1, RowChosen
<1>5. RowOf(files, f) \in FileRow
  <2> HIDE DEF r
  <2> QED BY <1>2, <1>3, <1>4 DEF FileRow
<1> QED BY <1>5, StoreAssumption

\* Reading the rows in the order of their ordinals gives the last entry of each file, in
\* the order of the entries.
LEMMA FilesRead ==
  ASSUME NEW files \in Entries
  PROVE  FilesOf(RowsOf(files)) = Day!LastOfEach(files)
<1> DEFINE stay == dedupe_files_preserving_last(files)
           table == RowsOf(files)
           there == {f \in DsFiles : table[f] # NoRow}
           File == [i \in stay |-> files[i].file]
<1>1. stay \in SUBSET (1..Len(files)) /\ Len(files) \in Nat
  BY EntryTyped
<1>2. IsFiniteSet(stay) /\ Cardinality(stay) \in Nat
  BY <1>1, PositionsFinite
<1>3. \A i \in stay : /\ File[i] \in there /\ File[i] = files[i].file
                       /\ table[File[i]].ordinal = Rank(stay, i) /\ table[File[i]].v = files[i].v
  <2> SUFFICES ASSUME NEW i \in stay
               PROVE  /\ files[i].file \in DsFiles /\ table[files[i].file] # NoRow
                      /\ table[files[i].file].ordinal = Rank(stay, i)
                      /\ table[files[i].file].v = files[i].v
    <3>1. \A i \in stay : File[i] = files[i].file
      OBVIOUS
    <3> QED BY <3>1
  <2>1. i \in 1..Len(files) /\ files[i].file \in DsFiles
    BY <1>1, EntryTyped
  <2>2. Mentions(files, files[i].file)
    BY RowChosen
  <2>3. table[files[i].file] = RowOf(files, files[i].file)
    BY <2>1, <2>2 DEF RowsOf
  <2>4. table[files[i].file] = [ordinal |-> Rank(stay, i), v |-> files[i].v]
    BY <2>3, RowChosen
  <2>5. table[files[i].file] # NoRow
    BY <2>2, <2>3, RowsTyped
  <2> QED BY <2>1, <2>4, <2>5
<1>4. \A f \in there : \E i \in stay : File[i] = f
  <2> SUFFICES ASSUME NEW f \in there
               PROVE  \E i \in stay : files[i].file = f
    OBVIOUS
  <2>1. Mentions(files, f)
    BY DEF RowsOf
  <2> QED BY <2>1, OneStays
<1>5. \A i, j \in stay : File[i] = File[j] => i = j
  <2> SUFFICES ASSUME NEW i \in stay, NEW j \in stay, files[i].file = files[j].file
               PROVE  i = j
    OBVIOUS
  <2>1. Mentions(files, files[i].file)
    BY RowChosen
  <2> QED BY <2>1, OneStays
<1> HIDE DEF File, there, table, stay
\* A set of positions and the set of their files have as many elements.
<1>6. ASSUME NEW P \in SUBSET stay
      PROVE  Cardinality({File[i] : i \in P}) = Cardinality(P)
  <2> DEFINE Q == {File[i] : i \in P}
             g == [i \in P |-> File[i]]
  <2>1. g \in Bijection(P, Q)
    <3>1. g \in [P -> Q]
      OBVIOUS
    <3>2. \A i, j \in P : g[i] = g[j] => i = j
      BY <1>5
    <3>3. \A q \in Q : \E i \in P : g[i] = q
      OBVIOUS
    <3> HIDE DEF g, Q
    <3> QED BY <3>1, <3>2, <3>3 DEF Bijection, Injection, Surjection, IsInjective
  <2>2. IsFiniteSet(P)
    BY <1>2, FS_Subset
  <2> HIDE DEF g, Q
  <2>3. Cardinality(Q) = Cardinality(P)
    BY <2>1, <2>2, FS_Bijection DEF ExistsBijection
  <2> QED BY <2>3 DEF Q
<1>7. Cardinality(there) = Cardinality(stay)
  <2>1. there = {File[i] : i \in stay}
    BY <1>3, <1>4
  <2> QED BY <1>6, <2>1
<1>8. \A i \in stay : Cardinality({g \in there : table[g].ordinal < table[File[i]].ordinal}) = Rank(stay, i)
  <2> SUFFICES ASSUME NEW i \in stay
               PROVE  Cardinality({g \in there : table[g].ordinal < table[File[i]].ordinal}) = Rank(stay, i)
    OBVIOUS
  <2> DEFINE P == {j \in stay : j < i}
             G == {g \in there : table[g].ordinal < table[File[i]].ordinal}
  <2>1. \A j \in stay : table[File[j]].ordinal = Rank(stay, j)
    BY <1>3
  <2>2. \A j \in stay : Rank(stay, j) < Rank(stay, i) <=> j < i
    BY <1>1, RankOrders
  <2>3. G \subseteq {File[j] : j \in P}
    BY <1>4, <2>1, <2>2
  <2>4. {File[j] : j \in P} \subseteq G
    BY <1>3, <2>1, <2>2
  <2>5. G = {File[j] : j \in P}
    BY <2>3, <2>4
  <2>6. P \in SUBSET stay /\ Rank(stay, i) = Cardinality(P)
    BY DEF Rank
  <2> HIDE DEF G, P
  <2>7. Cardinality(G) = Rank(stay, i)
    BY <1>6, <2>5, <2>6
  <2> QED BY <2>7 DEF G
<1> DEFINE Nth(k) == CHOOSE i \in stay : Rank(stay, i) = k - 1
           FileAt(k) == CHOOSE f \in there :
                          Cardinality({g \in there : table[g].ordinal < table[f].ordinal}) = k - 1
<1>9. ASSUME NEW k \in 1..Cardinality(stay)
      PROVE  [file |-> FileAt(k), v |-> table[FileAt(k)].v] = files[Nth(k)]
  <2>1. PICK i \in stay : Rank(stay, i) = k - 1
    BY <1>1, RankReached
  <2>2. Nth(k) = i
    BY <1>1, <2>1, RankOrders
  <2>3. \A f \in there : Cardinality({g \in there : table[g].ordinal < table[f].ordinal}) = k - 1
                           => f = File[i]
    <3> SUFFICES ASSUME NEW j \in stay,
                        Cardinality({g \in there : table[g].ordinal < table[File[j]].ordinal}) = k - 1
                 PROVE  File[j] = File[i]
      BY <1>4
    <3>1. Rank(stay, j) = k - 1
      BY <1>8
    <3>2. i = j
      <4>1. Rank(stay, i) = Rank(stay, j)
        BY <2>1, <3>1
      <4> QED BY <1>1, <4>1, RankOrders
    <3> QED BY <3>2
  <2>4. FileAt(k) = File[i]
    BY <1>3, <1>8, <2>1, <2>3
  <2>5. table[File[i]].v = files[i].v /\ File[i] = files[i].file
    BY <1>3
  <2>6. files[i] = [file |-> files[i].file, v |-> files[i].v]
    BY <1>1, EntryTyped
  <2> QED BY <2>2, <2>4, <2>5, <2>6
<1>10. FilesOf(table) = [k \in 1..Cardinality(there) |-> [file |-> FileAt(k), v |-> table[FileAt(k)].v]]
  BY DEF FilesOf, there
<1>11. Day!LastOfEach(files) = [k \in 1..Cardinality(stay) |-> files[Nth(k)]]
  BY DEF Day!LastOfEach, stay, dedupe_files_preserving_last, Rank, Day!Cardinality, Cardinality
<1> HIDE DEF Nth, FileAt
<1>12. FilesOf(table) = Day!LastOfEach(files)
  BY <1>7, <1>9, <1>10, <1>11
<1> QED BY <1>12 DEF table

-----------------------------------------------------------------------------
(* A save in progress: what its tables hold at each statement.                *)

Middle == {"app", "sessions", "files", "stale"}
Written == Middle \cup {"commit"}

\* The tables t hold all that the snapshot of s has of x.
AppDone(t, s, x) ==
  /\ t.apps[x] = s.snap[x].total
  /\ t.ses[x] = s.snap[x].ses
  /\ t.files[x] = RowsOf(s.snap[x].files)

\* Of the application in work, what the statements before this one have written.
AppBegun(t, s) ==
  LET c == CHOOSE x \in s.left : TRUE IN
  /\ s.pc \in {"sessions", "files", "stale"} => t.apps[c] = s.snap[c].total
  /\ s.pc \in {"files", "stale"} => t.ses[c] = s.snap[c].ses
  /\ s.pc = "stale" =>
       \A f \in DsFiles : Mentions(s.snap[c].files, f) => t.files[c][f] = RowOf(s.snap[c].files, f)

\* The tables t and the place s of a writer agree.
Agree(t, s) ==
  /\ s.pc \notin {"rest", "checked"} => s.snap \in Snapshots /\ s.left \subseteq DOMAIN s.snap
  /\ s.pc \in {"header", "removed"} => s.left = DOMAIN s.snap
  /\ s.pc \in Middle => s.left # {}
  /\ s.pc = "commit" => s.left = {}
  /\ s.pc \in Written \cup {"removed"} => t.rev > 0
  /\ s.pc \in Written =>
       /\ \A x \in DsApps \ DOMAIN s.snap : t.apps[x] = NoRow
       /\ \A x \in DOMAIN s.snap \ s.left : AppDone(t, s, x)
  /\ AppBegun(t, s)

\* What the reader has was committed since it began.
Read ==
  /\ reader.n > 0 => base \in since
  /\ reader.n > 1 => \E t \in since : reader.apps = t.apps
  /\ reader.n > 2 => \E t \in since : \A x \in DsApps :
       reader.ses[x] = IF reader.apps[x] = NoRow THEN <<>> ELSE t.ses[x]
  /\ reader.n > 3 => \E t \in since : \A x \in DsApps :
       reader.files[x] = IF reader.apps[x] = NoRow THEN NoTables.files[x] ELSE t.files[x]

StoreInv == DsTypeOK /\ Read /\ \A d \in Writers : Agree(work[d], w[d])

LEMMA NoTablesTyped == NoTables \in Tables
<1>1. NoTables.apps \in StoredApps /\ NoTables.ses \in StoredSes
  BY DEF NoTables, StoredApps, StoredSes
<1>2. NoTables.files \in StoredFiles
  BY DEF NoTables, StoredFiles
<1>3. NoTables.rev = 0 /\ NoTables = [rev |-> NoTables.rev, apps |-> NoTables.apps,
                                     ses |-> NoTables.ses, files |-> NoTables.files]
  BY DEF NoTables
<1> QED BY <1>1, <1>2, <1>3 DEF Tables

LEMMA RestTyped == Resting \in Saver /\ \A t : Agree(t, Resting)
BY DEF Resting, Saver, Agree, Middle, Written, AppBegun

\* A record of a snapshot has the three fields.
LEMMA SnapshotTyped ==
  ASSUME NEW s \in Snapshots
  PROVE  /\ DOMAIN s \subseteq DsApps
         /\ \A x \in DOMAIN s : /\ s[x].total \in Nat /\ s[x].ses \in Seq(Nat)
                                  /\ s[x].files \in Entries
                                  /\ s[x] = [total |-> s[x].total, ses |-> s[x].ses, files |-> s[x].files]
<1>1. DOMAIN s \subseteq DsApps /\ s \in [DOMAIN s -> AppSnapshot]
  BY StoreAssumption
<1>2. \A x \in DOMAIN s : s[x] \in AppSnapshot
  BY <1>1
<1> QED BY <1>1, <1>2 DEF AppSnapshot, Entries

\* A statement of a writer changes its own tables and its own place.
LEMMA StatementKeeps ==
  ASSUME StoreInv, NEW d \in Writers, NEW t \in Tables, NEW s \in Saver, Agree(t, s),
         work' = [work EXCEPT ![d] = t], w' = [w EXCEPT ![d] = s],
         UNCHANGED <<base, reader, faults, since>>
  PROVE  StoreInv'
<1>1. DsTypeOK'
  BY DEF StoreInv, DsTypeOK
<1>2. Read'
  BY DEF StoreInv, Read
<1>3. ASSUME NEW o \in Writers
      PROVE  Agree(work'[o], w'[o])
  <2>1. work \in [Writers -> Tables] /\ w \in [Writers -> Saver] /\ Agree(work[o], w[o])
    BY DEF StoreInv, DsTypeOK
  <2>2. CASE o = d
    <3>1. work'[o] = t /\ w'[o] = s
      BY <2>1, <2>2
    <3> QED BY <3>1
  <2>3. CASE o # d
    <3>1. work'[o] = work[o] /\ w'[o] = w[o]
      BY <2>1, <2>3
    <3> QED BY <2>1, <3>1
  <2> QED BY <2>2, <2>3
<1>4. \A o \in Writers : Agree(work[o], w[o])'
  BY <1>3
<1> QED BY <1>1, <1>2, <1>4 DEF StoreInv

-----------------------------------------------------------------------------
(* The statements of replace_day_snapshot.                                    *)

LEMMA WriterTyped ==
  ASSUME StoreInv, NEW d \in Writers
  PROVE  /\ work[d] \in Tables /\ w[d] \in Saver /\ Agree(work[d], w[d]) /\ base \in Tables
         /\ work \in [Writers -> Tables] /\ w \in [Writers -> Saver]
         /\ work[d].rev \in Nat /\ work[d].apps \in StoredApps /\ work[d].ses \in StoredSes
         /\ work[d].files \in StoredFiles /\ base.rev \in Nat
         /\ w[d] = [pc |-> w[d].pc, snap |-> w[d].snap, left |-> w[d].left, rev |-> w[d].rev]
         /\ w[d].left \in SUBSET DsApps /\ w[d].rev \in Nat
<1>1. work[d] \in Tables /\ w[d] \in Saver /\ Agree(work[d], w[d]) /\ base \in Tables
      /\ work \in [Writers -> Tables] /\ w \in [Writers -> Saver]
  BY DEF StoreInv, DsTypeOK
<1> QED BY <1>1 DEF Tables, Saver

LEMMA BeginKeeps ==
  ASSUME StoreInv, NEW d \in Writers, NEW s \in Snapshots, BeginSave(d, s)
  PROVE  StoreInv'
<1> DEFINE r == [pc |-> "header", snap |-> s, left |-> DOMAIN s, rev |-> base.rev]
<1>1. r \in Saver
  BY WriterTyped, SnapshotTyped DEF Saver
<1>2. Agree(base, r)
  BY DEF Agree, Middle, Written, AppBegun
<1>3. work' = [work EXCEPT ![d] = base] /\ w' = [w EXCEPT ![d] = r]
      /\ UNCHANGED <<base, reader, faults, since>>
  BY DEF BeginSave
<1> HIDE DEF r
<1> QED BY <1>1, <1>2, <1>3, WriterTyped, StatementKeeps

LEMMA LookKeeps ==
  ASSUME StoreInv, NEW d \in Writers, already_exists(d)
  PROVE  StoreInv'
<1> DEFINE r == [w[d] EXCEPT !.pc = "checked"]
<1>1. r \in Saver
  BY WriterTyped DEF Saver
<1>2. Agree(work[d], r)
  BY WriterTyped DEF Agree, Middle, Written, AppBegun, Saver
<1>3. work' = [work EXCEPT ![d] = work[d]] /\ w' = [w EXCEPT ![d] = r]
      /\ UNCHANGED <<base, reader, faults, since>>
  BY WriterTyped DEF already_exists, Goto
<1> HIDE DEF r
<1> QED BY <1>1, <1>2, <1>3, WriterTyped, StatementKeeps

LEMMA HeaderKeeps ==
  ASSUME StoreInv, NEW d \in Writers, UpsertHeader(d)
  PROVE  StoreInv'
<1>1. UNCHANGED <<base, reader, faults, since>> /\ w[d].pc = "header"
  BY DEF UpsertHeader, At
<1>2. CASE w' = [w EXCEPT ![d] = Resting] /\ UNCHANGED work
  <2>1. work' = [work EXCEPT ![d] = work[d]]
    BY <1>2, WriterTyped
  <2> QED BY <1>1, <1>2, <2>1, WriterTyped, RestTyped, StatementKeeps
<1>3. CASE Goto(d, "removed") /\ work' = [work EXCEPT ![d].rev = @ + 1]
  <2> DEFINE n == work[d].rev + 1
             t == [work[d] EXCEPT !.rev = n]
             r == [w[d] EXCEPT !.pc = "removed"]
  <2>1. r \in Saver /\ t \in Tables /\ t.rev > 0
    <3>1. r \in Saver
      BY WriterTyped DEF Saver
    <3>2. n \in Nat /\ n > 0
      <4>1. work[d].rev \in Nat
        BY WriterTyped
      <4> QED BY <4>1
    <3>3. t \in Tables /\ t.rev = n
      <4> HIDE DEF n
      <4> QED BY <3>2, WriterTyped DEF Tables
    <3> QED BY <3>1, <3>2, <3>3
  <2>2. r.pc = "removed" /\ r.snap = w[d].snap /\ r.left = w[d].left
    BY WriterTyped DEF Saver
  <2>3. w[d].snap \in Snapshots /\ w[d].left = DOMAIN w[d].snap
    BY <1>1, WriterTyped DEF Agree
  <2>4. work' = [work EXCEPT ![d] = t] /\ w' = [w EXCEPT ![d] = r]
    BY <1>3 DEF Goto
  <2> HIDE DEF t, r, n
  <2>5. Agree(t, r)
    BY <2>1, <2>2, <2>3 DEF Agree, Middle, Written, AppBegun
  <2> QED BY <1>1, <2>1, <2>4, <2>5, StatementKeeps
<1> QED BY <1>2, <1>3 DEF UpsertHeader

LEMMA RemovedKeeps ==
  ASSUME StoreInv, NEW d \in Writers, DeleteRemoved(d)
  PROVE  StoreInv'
<1> DEFINE Gone(x) == x \notin DOMAIN w[d].snap
           apps == [x \in DsApps |-> IF Gone(x) THEN NoRow ELSE work[d].apps[x]]
           ses == [x \in DsApps |-> IF Gone(x) THEN <<>> ELSE work[d].ses[x]]
           files == [x \in DsApps |-> IF Gone(x) THEN NoTables.files[x] ELSE work[d].files[x]]
           t == [rev |-> work[d].rev, apps |-> apps, ses |-> ses, files |-> files]
           r == [w[d] EXCEPT !.pc = IF w[d].left = {} THEN "commit" ELSE "app"]
<1>1. UNCHANGED <<base, reader, faults, since>> /\ w[d].pc = "removed"
  BY DEF DeleteRemoved, At
<1>2. apps \in StoredApps /\ ses \in StoredSes /\ files \in StoredFiles
  <2>1. apps \in StoredApps
    BY WriterTyped DEF StoredApps
  <2>2. ses \in StoredSes
    <3>1. \A x \in DsApps : work[d].ses[x] \in Seq(Nat)
      BY WriterTyped DEF StoredSes
    <3>2. <<>> \in Seq(Nat)
      OBVIOUS
    <3> QED BY <3>1, <3>2 DEF StoredSes
  <2>3. files \in StoredFiles
    <3>1. \A x \in DsApps : NoTables.files[x] \in [DsFiles -> FileRow \cup {NoRow}]
                              /\ work[d].files[x] \in [DsFiles -> FileRow \cup {NoRow}]
      BY WriterTyped DEF NoTables, StoredFiles
    <3> QED BY <3>1 DEF StoredFiles
  <2> QED BY <2>1, <2>2, <2>3
<1>3. r \in Saver /\ r.snap = w[d].snap /\ r.left = w[d].left
      /\ r.pc = (IF w[d].left = {} THEN "commit" ELSE "app")
  BY WriterTyped DEF Saver
<1>4. w[d].snap \in Snapshots /\ w[d].left = DOMAIN w[d].snap /\ work[d].rev > 0
  BY <1>1, WriterTyped DEF Agree, Written
<1>5. \A x \in DsApps \ DOMAIN w[d].snap : apps[x] = NoRow
  OBVIOUS
<1>6. w' = [w EXCEPT ![d] = r]
  BY DEF DeleteRemoved, Goto
<1>7. work' = [work EXCEPT ![d] = t]
  <2>1. work' = [work EXCEPT ![d] = [[[work[d] EXCEPT !.apps = apps] EXCEPT !.ses = ses] EXCEPT !.files = files]]
    BY WriterTyped DEF DeleteRemoved, Tables
  <2> HIDE DEF apps, ses, files
  <2>2. work[d] = [rev |-> work[d].rev, apps |-> work[d].apps, ses |-> work[d].ses, files |-> work[d].files]
    BY WriterTyped DEF Tables
  <2> DEFINE t1 == [work[d] EXCEPT !.apps = apps]
             t2 == [t1 EXCEPT !.ses = ses]
  <2>3. t1 = [rev |-> work[d].rev, apps |-> apps, ses |-> work[d].ses, files |-> work[d].files]
    BY <2>2
  <2> HIDE DEF t1
  <2>4. t2 = [rev |-> work[d].rev, apps |-> apps, ses |-> ses, files |-> work[d].files]
    BY <2>3
  <2> HIDE DEF t2
  <2>5. [t2 EXCEPT !.files = files] = t
    BY <2>4
  <2> USE DEF t1, t2
  <2> QED BY <2>1, <2>5
<1> HIDE DEF apps, ses, files
<1>8. t \in Tables
  BY <1>2, WriterTyped DEF Tables
<1>9. t.rev = work[d].rev /\ t.apps = apps
  OBVIOUS
<1> HIDE DEF t, r
<1>10. Agree(t, r)
  BY <1>3, <1>4, <1>5, <1>9 DEF Agree, Middle, Written, AppBegun
<1> QED BY <1>1, <1>3, <1>6, <1>7, <1>8, <1>10, StatementKeeps

\* The application in work is one of the snapshot.
LEMMA InWork ==
  ASSUME StoreInv, NEW d \in Writers, w[d].pc \in Middle
  PROVE  /\ w[d].snap \in Snapshots
         /\ Current(d) \in w[d].left /\ Current(d) \in DOMAIN w[d].snap /\ Current(d) \in DsApps
         /\ Wanted(d) = w[d].snap[Current(d)]
         /\ Wanted(d).total \in Nat /\ Wanted(d).ses \in Seq(Nat) /\ Wanted(d).files \in Entries
<1>1. w[d].snap \in Snapshots /\ w[d].left \subseteq DOMAIN w[d].snap /\ w[d].left # {}
  BY WriterTyped DEF Agree, Middle
<1>2. Current(d) \in w[d].left
  BY <1>1 DEF Current
<1> QED BY <1>1, <1>2, SnapshotTyped DEF Wanted

LEMMA AppKeeps ==
  ASSUME StoreInv, NEW d \in Writers, UpsertApp(d)
  PROVE  StoreInv'
<1> DEFINE c == Current(d)
           apps == [work[d].apps EXCEPT ![c] = Wanted(d).total]
           t == [work[d] EXCEPT !.apps = apps]
           r == [w[d] EXCEPT !.pc = "sessions"]
<1>1. UNCHANGED <<base, reader, faults, since>> /\ w[d].pc = "app" /\ w[d].pc \in Middle
  BY DEF UpsertApp, At, Middle
<1>2. c \in DsApps /\ c \in w[d].left /\ c \in DOMAIN w[d].snap /\ w[d].snap \in Snapshots
  BY <1>1, InWork
<1>3. apps \in StoredApps /\ apps[c] = w[d].snap[c].total /\ \A x \in DsApps \ {c} : apps[x] = work[d].apps[x]
  BY <1>1, InWork, WriterTyped DEF StoredApps
<1>4. work' = [work EXCEPT ![d] = t] /\ w' = [w EXCEPT ![d] = r]
  BY DEF UpsertApp, Goto
<1>5. r \in Saver /\ r.snap = w[d].snap /\ r.left = w[d].left /\ r.pc = "sessions"
  BY WriterTyped DEF Saver
<1>6. c = CHOOSE x \in r.left : TRUE
  BY <1>5 DEF Current
<1> HIDE DEF c, apps, r
<1>7. /\ t \in Tables /\ t.apps = apps /\ t.ses = work[d].ses /\ t.files = work[d].files
      /\ t.rev = work[d].rev
  BY <1>3, WriterTyped DEF Tables
<1> HIDE DEF t
<1>8. Agree(t, r)
  <2>1. Agree(work[d], w[d])
    BY WriterTyped
  <2>2. w[d].left \subseteq DOMAIN w[d].snap /\ DOMAIN w[d].snap \subseteq DsApps
    BY <1>1, <1>2, <2>1, SnapshotTyped DEF Agree
  <2>3. \A x \in DsApps \ DOMAIN r.snap : t.apps[x] = NoRow
    BY <1>1, <1>2, <1>3, <1>5, <1>7, <2>1 DEF Agree, Written
  <2>4. \A x \in DOMAIN r.snap \ r.left : AppDone(t, r, x)
    BY <1>1, <1>2, <1>3, <1>5, <1>7, <2>1, <2>2 DEF Agree, Written, AppDone
  <2>5. AppBegun(t, r)
    BY <1>3, <1>5, <1>6, <1>7 DEF AppBegun
  <2>6. t.rev > 0 /\ r.left # {}
    BY <1>1, <1>5, <1>7, <2>1 DEF Agree, Written
  <2> QED BY <1>2, <1>5, <2>2, <2>3, <2>4, <2>5, <2>6 DEF Agree, Middle, Written
<1> QED BY <1>1, <1>4, <1>5, <1>7, <1>8, StatementKeeps

\* A statement on the application in work: the other applications are left alone.
LEMMA OthersStay ==
  ASSUME StoreInv, NEW d \in Writers, w[d].pc \in Middle,
         NEW t \in Tables, NEW r \in Saver, r.snap = w[d].snap, r.pc \in Written,
         t.rev = work[d].rev,
         \A x \in DsApps \ {Current(d)} :
           t.apps[x] = work[d].apps[x] /\ t.ses[x] = work[d].ses[x] /\ t.files[x] = work[d].files[x]
  PROVE  /\ w[d].left \subseteq DOMAIN r.snap /\ DOMAIN r.snap \subseteq DsApps
         /\ t.rev > 0
         /\ \A x \in DsApps \ DOMAIN r.snap : t.apps[x] = NoRow
         /\ \A x \in DOMAIN r.snap \ w[d].left : AppDone(t, r, x)
<1>1. /\ Current(d) \in w[d].left /\ Current(d) \in DOMAIN w[d].snap /\ w[d].snap \in Snapshots
      /\ DOMAIN w[d].snap \subseteq DsApps
  BY InWork, SnapshotTyped
<1>2. /\ w[d].left \subseteq DOMAIN w[d].snap /\ work[d].rev > 0
      /\ \A x \in DsApps \ DOMAIN w[d].snap : work[d].apps[x] = NoRow
      /\ \A x \in DOMAIN w[d].snap \ w[d].left : AppDone(work[d], w[d], x)
  BY WriterTyped DEF Agree, Middle, Written
<1> QED BY <1>1, <1>2 DEF AppDone

LEMMA SessionsKeeps ==
  ASSUME StoreInv, NEW d \in Writers, UpsertSessions(d)
  PROVE  StoreInv'
<1> DEFINE c == Current(d)
           ses == [work[d].ses EXCEPT ![c] = WithSessions(@, Wanted(d).ses)]
           t == [work[d] EXCEPT !.ses = ses]
           r == [w[d] EXCEPT !.pc = "files"]
<1>1. UNCHANGED <<base, reader, faults, since>> /\ w[d].pc = "sessions" /\ w[d].pc \in Middle
  BY DEF UpsertSessions, At, Middle
<1>2. c \in DsApps /\ c \in w[d].left /\ c \in DOMAIN w[d].snap /\ w[d].snap \in Snapshots
      /\ Wanted(d).ses \in Seq(Nat) /\ Wanted(d) = w[d].snap[c]
  BY <1>1, InWork
<1>3. WithSessions(work[d].ses[c], Wanted(d).ses) = Wanted(d).ses
  <2> DEFINE new == Wanted(d).ses
  <2>1. new \in Seq(Nat)
    BY <1>2
  <2> HIDE DEF new
  <2>2. [i \in 1..Len(new) |-> new[i]] = new
    BY <2>1
  <2> QED BY <2>2 DEF WithSessions, new
<1>4. ses \in StoredSes /\ ses[c] = w[d].snap[c].ses /\ \A x \in DsApps \ {c} : ses[x] = work[d].ses[x]
  BY <1>2, <1>3, WriterTyped DEF StoredSes
<1>5. work' = [work EXCEPT ![d] = t] /\ w' = [w EXCEPT ![d] = r]
  BY DEF UpsertSessions, Goto
<1>6. r \in Saver /\ r.snap = w[d].snap /\ r.left = w[d].left /\ r.pc = "files"
  BY WriterTyped DEF Saver
<1>7. c = CHOOSE x \in r.left : TRUE
  BY <1>6 DEF Current
<1>8. c = Current(d)
  OBVIOUS
<1> HIDE DEF c, ses, r
<1>9. /\ t \in Tables /\ t.apps = work[d].apps /\ t.ses = ses /\ t.files = work[d].files
      /\ t.rev = work[d].rev
  BY <1>4, WriterTyped DEF Tables
<1> HIDE DEF t
<1>10. Agree(t, r)
  <2>1. Agree(work[d], w[d])
    BY WriterTyped
  <2>2. r.pc \in Written
    BY <1>6 DEF Written, Middle
  <2>3. \A x \in DsApps \ {Current(d)} :
          t.apps[x] = work[d].apps[x] /\ t.ses[x] = work[d].ses[x] /\ t.files[x] = work[d].files[x]
    BY <1>4, <1>8, <1>9
  <2>4. /\ w[d].left \subseteq DOMAIN r.snap /\ DOMAIN r.snap \subseteq DsApps
        /\ t.rev > 0
        /\ \A x \in DsApps \ DOMAIN r.snap : t.apps[x] = NoRow
        /\ \A x \in DOMAIN r.snap \ w[d].left : AppDone(t, r, x)
    BY <1>1, <1>6, <1>9, <2>2, <2>3, OthersStay
  <2>5. work[d].apps[c] = w[d].snap[c].total
    BY <1>1, <1>6, <1>7, <2>1 DEF Agree, AppBegun
  <2>6. AppBegun(t, r)
    BY <1>4, <1>6, <1>7, <1>9, <2>5 DEF AppBegun
  <2> QED BY <1>2, <1>6, <2>4, <2>6 DEF Agree, Middle, Written
<1> QED BY <1>1, <1>5, <1>6, <1>9, <1>10, StatementKeeps

LEMMA FilesKeeps ==
  ASSUME StoreInv, NEW d \in Writers, UpsertFiles(d)
  PROVE  StoreInv'
<1> DEFINE c == Current(d)
           row == [f \in DsFiles |-> IF Mentions(Wanted(d).files, f) THEN RowOf(Wanted(d).files, f)
                                     ELSE work[d].files[c][f]]
           files == [work[d].files EXCEPT ![c] = row]
           t == [work[d] EXCEPT !.files = files]
           r == [w[d] EXCEPT !.pc = "stale"]
<1>1. UNCHANGED <<base, reader, faults, since>> /\ w[d].pc = "files" /\ w[d].pc \in Middle
  BY DEF UpsertFiles, At, Middle
<1>2. c \in DsApps /\ c \in w[d].left /\ c \in DOMAIN w[d].snap /\ w[d].snap \in Snapshots
      /\ Wanted(d).files \in Entries /\ Wanted(d) = w[d].snap[c]
  BY <1>1, InWork
<1>3. row \in [DsFiles -> FileRow \cup {NoRow}]
  <2>1. \A f \in DsFiles : Mentions(Wanted(d).files, f) => RowOf(Wanted(d).files, f) \in FileRow
    BY <1>2, RowsTyped
  <2>2. work[d].files[c] \in [DsFiles -> FileRow \cup {NoRow}]
    BY <1>2, WriterTyped DEF StoredFiles
  <2> QED BY <2>1, <2>2
<1>4. \A f \in DsFiles : Mentions(w[d].snap[c].files, f) => row[f] = RowOf(w[d].snap[c].files, f)
  BY <1>2
<1>5. work' = [work EXCEPT ![d] = t] /\ w' = [w EXCEPT ![d] = r]
  BY DEF UpsertFiles, Goto
<1>6. r \in Saver /\ r.snap = w[d].snap /\ r.left = w[d].left /\ r.pc = "stale"
  BY WriterTyped DEF Saver
<1>7. c = CHOOSE x \in r.left : TRUE
  BY <1>6 DEF Current
<1>8. c = Current(d)
  OBVIOUS
<1> HIDE DEF c, row, r
<1>9. files \in StoredFiles /\ files[c] = row /\ \A x \in DsApps \ {c} : files[x] = work[d].files[x]
  BY <1>2, <1>3, WriterTyped DEF StoredFiles
<1> HIDE DEF files
<1>10. /\ t \in Tables /\ t.apps = work[d].apps /\ t.ses = work[d].ses /\ t.files = files
       /\ t.rev = work[d].rev
  BY <1>9, WriterTyped DEF Tables
<1> HIDE DEF t
<1>11. Agree(t, r)
  <2>1. Agree(work[d], w[d])
    BY WriterTyped
  <2>2. r.pc \in Written
    BY <1>6 DEF Written, Middle
  <2>3. \A x \in DsApps \ {Current(d)} :
          t.apps[x] = work[d].apps[x] /\ t.ses[x] = work[d].ses[x] /\ t.files[x] = work[d].files[x]
    BY <1>8, <1>9, <1>10
  <2>4. /\ w[d].left \subseteq DOMAIN r.snap /\ DOMAIN r.snap \subseteq DsApps
        /\ t.rev > 0
        /\ \A x \in DsApps \ DOMAIN r.snap : t.apps[x] = NoRow
        /\ \A x \in DOMAIN r.snap \ w[d].left : AppDone(t, r, x)
    BY <1>1, <1>6, <1>10, <2>2, <2>3, OthersStay
  <2>5. work[d].apps[c] = w[d].snap[c].total /\ work[d].ses[c] = w[d].snap[c].ses
    BY <1>1, <1>6, <1>7, <2>1 DEF Agree, AppBegun
  <2>6. AppBegun(t, r)
    BY <1>4, <1>6, <1>7, <1>9, <1>10, <2>5 DEF AppBegun
  <2> QED BY <1>2, <1>6, <2>4, <2>6 DEF Agree, Middle, Written
<1> QED BY <1>1, <1>5, <1>6, <1>10, <1>11, StatementKeeps

LEMMA StaleKeeps ==
  ASSUME StoreInv, NEW d \in Writers, DeleteStaleFiles(d)
  PROVE  StoreInv'
<1> DEFINE c == Current(d)
           row == [f \in DsFiles |-> IF Mentions(Wanted(d).files, f) THEN work[d].files[c][f] ELSE NoRow]
           files == [work[d].files EXCEPT ![c] = row]
           t == [work[d] EXCEPT !.files = files]
           left == w[d].left \ {c}
           pc == IF w[d].left = {c} THEN "commit" ELSE "app"
           r == [pc |-> pc, snap |-> w[d].snap, left |-> left, rev |-> w[d].rev]
<1>1. UNCHANGED <<base, reader, faults, since>> /\ w[d].pc = "stale" /\ w[d].pc \in Middle
  BY DEF DeleteStaleFiles, At, Middle
<1>2. c \in DsApps /\ c \in w[d].left /\ c \in DOMAIN w[d].snap /\ w[d].snap \in Snapshots
      /\ Wanted(d).files \in Entries /\ Wanted(d) = w[d].snap[c]
  BY <1>1, InWork
<1>3. row \in [DsFiles -> FileRow \cup {NoRow}]
  <2>1. work[d].files[c] \in [DsFiles -> FileRow \cup {NoRow}]
    BY <1>2, WriterTyped DEF StoredFiles
  <2> QED BY <2>1, SMTT(30)
<1>4. work[d].apps[c] = w[d].snap[c].total /\ work[d].ses[c] = w[d].snap[c].ses
      /\ \A f \in DsFiles : Mentions(w[d].snap[c].files, f)
                             => work[d].files[c][f] = RowOf(w[d].snap[c].files, f)
  <2>1. Agree(work[d], w[d]) /\ c = CHOOSE x \in w[d].left : TRUE
    BY WriterTyped DEF Current
  <2> QED BY <1>1, <2>1 DEF Agree, AppBegun
<1>5. row = RowsOf(w[d].snap[c].files)
  BY <1>2, <1>4 DEF RowsOf
<1>6. work' = [work EXCEPT ![d] = t]
  BY DEF DeleteStaleFiles
<1>7. w' = [w EXCEPT ![d] = r]
  <2>1. w' = [w EXCEPT ![d] = [[w[d] EXCEPT !.left = left] EXCEPT !.pc = pc]]
    BY WriterTyped DEF DeleteStaleFiles
  <2>2. [[w[d] EXCEPT !.left = left] EXCEPT !.pc = pc] = r
    <3> HIDE DEF left, pc
    <3>1. w[d] = [pc |-> w[d].pc, snap |-> w[d].snap, left |-> w[d].left, rev |-> w[d].rev]
      BY WriterTyped
    <3> DEFINE r1 == [w[d] EXCEPT !.left = left]
    <3>2. r1 = [pc |-> w[d].pc, snap |-> w[d].snap, left |-> left, rev |-> w[d].rev]
      BY <3>1
    <3> HIDE DEF r1
    <3>3. [r1 EXCEPT !.pc = pc] = r
      BY <3>2
    <3> QED BY <3>3 DEF r1
  <2> QED BY <2>1, <2>2
<1>8. r \in Saver /\ r.snap = w[d].snap /\ r.left = left
      /\ r.pc = (IF left = {} THEN "commit" ELSE "app")
  <2>1. left = {} <=> w[d].left = {c}
    BY <1>2
  <2>2. left \in SUBSET DsApps /\ w[d].rev \in Nat /\ w[d].snap \in Snapshots
    BY <1>2, WriterTyped
  <2>3. r \in Saver
    BY <2>2 DEF Saver
  <2> QED BY <2>1, <2>3
<1>9. c = Current(d) /\ left = w[d].left \ {c}
  OBVIOUS
<1> HIDE DEF c, row, r, left
<1>10. files \in StoredFiles /\ files[c] = row /\ \A x \in DsApps \ {c} : files[x] = work[d].files[x]
  BY <1>2, <1>3, WriterTyped DEF StoredFiles
<1> HIDE DEF files
<1>11. /\ t \in Tables /\ t.apps = work[d].apps /\ t.ses = work[d].ses /\ t.files = files
       /\ t.rev = work[d].rev
  BY <1>10, WriterTyped DEF Tables
<1> HIDE DEF t
<1>12. Agree(t, r)
  <2>1. r.pc \in Written /\ r.pc \in {"app", "commit"}
    BY <1>8 DEF Written, Middle
  <2>2. \A x \in DsApps \ {Current(d)} :
          t.apps[x] = work[d].apps[x] /\ t.ses[x] = work[d].ses[x] /\ t.files[x] = work[d].files[x]
    BY <1>9, <1>10, <1>11
  <2>3. /\ w[d].left \subseteq DOMAIN r.snap /\ DOMAIN r.snap \subseteq DsApps
        /\ t.rev > 0
        /\ \A x \in DsApps \ DOMAIN r.snap : t.apps[x] = NoRow
        /\ \A x \in DOMAIN r.snap \ w[d].left : AppDone(t, r, x)
    BY <1>1, <1>8, <1>11, <2>1, <2>2, OthersStay
  <2>4. AppDone(t, r, c)
    BY <1>4, <1>5, <1>8, <1>10, <1>11 DEF AppDone
  <2>5. \A x \in DOMAIN r.snap \ left : AppDone(t, r, x)
    BY <1>9, <2>3, <2>4
  <2>6. AppBegun(t, r)
    BY <2>1 DEF AppBegun
  <2>7. r.snap \in Snapshots /\ r.left \subseteq DOMAIN r.snap
    BY <1>2, <1>8, <1>9, <2>3
  <2>8. (r.pc \in Middle => r.left # {}) /\ (r.pc = "commit" => r.left = {})
    BY <1>8 DEF Middle
  <2> QED BY <1>8, <2>1, <2>3, <2>5, <2>6, <2>7, <2>8 DEF Agree
<1> QED BY <1>1, <1>6, <1>7, <1>8, <1>11, <1>12, StatementKeeps

-----------------------------------------------------------------------------
(* The end of a transaction, and the reader.                                  *)

\* A writer that rests has no tables of its own.
LEMMA EndTyped ==
  ASSUME StoreInv, NEW d \in Writers,
         w' = [w EXCEPT ![d] = Resting], work' = [work EXCEPT ![d] = NoTables]
  PROVE  /\ work' \in [Writers -> Tables] /\ w' \in [Writers -> Saver]
         /\ \A o \in Writers : Agree(work'[o], w'[o])
<1>1. /\ work \in [Writers -> Tables] /\ w \in [Writers -> Saver]
      /\ \A o \in Writers : Agree(work[o], w[o])
  BY DEF StoreInv, DsTypeOK
<1>2. \A o \in Writers : work'[o] = (IF o = d THEN NoTables ELSE work[o])
                         /\ w'[o] = (IF o = d THEN Resting ELSE w[o])
  BY <1>1
<1> QED BY <1>1, <1>2, RestTyped, NoTablesTyped

LEMMA CommitKeeps ==
  ASSUME StoreInv, NEW d \in Writers, Commit(d)
  PROVE  StoreInv'
<1>1. /\ base' = work[d] /\ UNCHANGED <<reader, faults>>
      /\ since' = IF reader.n = 0 THEN since ELSE since \cup {work[d]}
      /\ w' = [w EXCEPT ![d] = Resting] /\ work' = [work EXCEPT ![d] = NoTables]
  BY DEF Commit
<1>2. /\ work' \in [Writers -> Tables] /\ w' \in [Writers -> Saver]
      /\ \A o \in Writers : Agree(work'[o], w'[o])
  BY <1>1, EndTyped
<1>3. base' \in Tables /\ since' \in SUBSET Tables /\ since \subseteq since'
  BY <1>1, WriterTyped DEF StoreInv, DsTypeOK
<1>4. DsTypeOK'
  BY <1>1, <1>2, <1>3 DEF StoreInv, DsTypeOK
<1>5. Read'
  <2>1. Read /\ reader \in Reader
    BY DEF StoreInv, DsTypeOK
  <2>2. reader.n > 0 => base' \in since'
    BY <1>1, <2>1 DEF Reader
  <2> QED BY <1>1, <1>3, <2>1, <2>2 DEF Read
<1> QED BY <1>2, <1>4, <1>5 DEF StoreInv

LEMMA RollbackKeeps ==
  ASSUME StoreInv, NEW d \in Writers, Rollback(d)
  PROVE  StoreInv'
<1>1. /\ base' = base /\ UNCHANGED <<reader, since>>
      /\ faults < MaxFaults /\ faults' = faults + 1
      /\ w' = [w EXCEPT ![d] = Resting] /\ work' = [work EXCEPT ![d] = NoTables]
  BY DEF Rollback, AfterFailure
<1>2. /\ work' \in [Writers -> Tables] /\ w' \in [Writers -> Saver]
      /\ \A o \in Writers : Agree(work'[o], w'[o])
  BY <1>1, EndTyped
<1>3. faults' \in 0..MaxFaults
  <2>1. faults \in 0..MaxFaults /\ MaxFaults \in Nat
    BY StoreAssumption DEF StoreInv, DsTypeOK
  <2> QED BY <1>1, <2>1
<1>4. DsTypeOK'
  BY <1>1, <1>2, <1>3 DEF StoreInv, DsTypeOK
<1>5. Read'
  BY <1>1 DEF StoreInv, Read
<1> QED BY <1>2, <1>4, <1>5 DEF StoreInv

LEMMA BaseTyped ==
  ASSUME StoreInv
  PROVE  /\ base \in Tables /\ base.apps \in StoredApps /\ base.ses \in StoredSes
         /\ base.files \in StoredFiles
         /\ reader \in Reader /\ reader.n \in 0..4
         /\ reader.apps \in StoredApps /\ reader.ses \in StoredSes /\ reader.files \in StoredFiles
         /\ reader = [n |-> reader.n, apps |-> reader.apps, ses |-> reader.ses, files |-> reader.files]
<1>1. base \in Tables /\ reader \in Reader
  BY DEF StoreInv, DsTypeOK
<1> QED BY <1>1 DEF Tables, Reader

\* The reader moves on: it holds r, what was committed meanwhile is b.
LEMMA ReaderKeeps ==
  ASSUME StoreInv, reader' \in Reader, since' \in SUBSET Tables, Read',
         UNCHANGED <<base, work, w, faults>>
  PROVE  StoreInv'
<1>1. DsTypeOK'
  BY DEF StoreInv, DsTypeOK
<1>2. \A o \in Writers : Agree(work'[o], w'[o])
  BY DEF StoreInv
<1> QED BY <1>1, <1>2 DEF StoreInv

LEMMA HeaderRead ==
  ASSUME StoreInv, SelectHeader
  PROVE  StoreInv'
<1>1. /\ reader' = [n |-> 1, apps |-> NoTables.apps, ses |-> NoTables.ses, files |-> NoTables.files]
      /\ since' = {base} /\ UNCHANGED <<base, work, w, faults>>
  BY DEF SelectHeader, NotReading
<1>2. /\ NoTables.apps \in StoredApps /\ NoTables.ses \in StoredSes /\ NoTables.files \in StoredFiles
  BY NoTablesTyped DEF Tables
<1>3. reader' \in Reader /\ reader'.n = 1
  BY <1>1, <1>2 DEF Reader
<1>4. Read'
  BY <1>1, <1>3 DEF Read
<1>5. since' \in SUBSET Tables
  BY <1>1, BaseTyped
<1> QED BY <1>1, <1>3, <1>4, <1>5, ReaderKeeps

LEMMA RowsRead ==
  ASSUME StoreInv, SelectRows
  PROVE  StoreInv'
<1>1. reader.n \in 1..3 /\ UNCHANGED <<base, work, w, faults, since>>
      /\ since \in SUBSET Tables /\ base \in since /\ Read
  BY DEF SelectRows, StoreInv, DsTypeOK, Read
<1>2. CASE reader.n = 1
  <2>1. reader' = [n |-> 2, apps |-> base.apps, ses |-> reader.ses, files |-> reader.files]
    <3>1. reader' = [[reader EXCEPT !.n = 2] EXCEPT !.apps = base.apps]
      BY <1>2 DEF SelectRows
    <3> DEFINE r1 == [reader EXCEPT !.n = 2]
    <3>2. r1 = [n |-> 2, apps |-> reader.apps, ses |-> reader.ses, files |-> reader.files]
      BY BaseTyped
    <3> HIDE DEF r1
    <3>3. [r1 EXCEPT !.apps = base.apps]
            = [n |-> 2, apps |-> base.apps, ses |-> reader.ses, files |-> reader.files]
      BY <3>2
    <3> QED BY <3>1, <3>3 DEF r1
  <2>2. reader' \in Reader /\ reader'.n = 2 /\ reader'.apps = base.apps
    BY <2>1, BaseTyped DEF Reader
  <2>3. Read'
    BY <1>1, <2>2 DEF Read
  <2> QED BY <1>1, <2>2, <2>3, ReaderKeeps
<1>3. CASE reader.n = 2
  <2> DEFINE ses == [x \in DsApps |-> IF reader.apps[x] = NoRow THEN <<>> ELSE base.ses[x]]
  <2>1. reader' = [n |-> 3, apps |-> reader.apps, ses |-> ses, files |-> reader.files]
    <3>1. reader' = [[reader EXCEPT !.n = 3] EXCEPT !.ses = ses]
      BY <1>3 DEF SelectRows
    <3> HIDE DEF ses
    <3> DEFINE r1 == [reader EXCEPT !.n = 3]
    <3>2. r1 = [n |-> 3, apps |-> reader.apps, ses |-> reader.ses, files |-> reader.files]
      BY BaseTyped
    <3> HIDE DEF r1
    <3>3. [r1 EXCEPT !.ses = ses]
            = [n |-> 3, apps |-> reader.apps, ses |-> ses, files |-> reader.files]
      BY <3>2
    <3> QED BY <3>1, <3>3 DEF r1
  <2>2. ses \in StoredSes
    <3>1. \A x \in DsApps : base.ses[x] \in Seq(Nat)
      BY BaseTyped DEF StoredSes
    <3>2. <<>> \in Seq(Nat)
      OBVIOUS
    <3> QED BY <3>1, <3>2 DEF StoredSes
  <2>3. \A x \in DsApps : ses[x] = IF reader.apps[x] = NoRow THEN <<>> ELSE base.ses[x]
    OBVIOUS
  <2> HIDE DEF ses
  <2>4. reader' \in Reader /\ reader'.n = 3 /\ reader'.apps = reader.apps /\ reader'.ses = ses
    BY <2>1, <2>2, BaseTyped DEF Reader
  <2>5. Read'
    BY <1>1, <1>3, <2>3, <2>4 DEF Read
  <2> QED BY <1>1, <2>4, <2>5, ReaderKeeps
<1>4. CASE reader.n = 3
  <2> DEFINE files == [x \in DsApps |-> IF reader.apps[x] = NoRow THEN NoTables.files[x] ELSE base.files[x]]
  <2>1. reader' = [n |-> 4, apps |-> reader.apps, ses |-> reader.ses, files |-> files]
    <3>1. reader' = [[reader EXCEPT !.n = 4] EXCEPT !.files = files]
      BY <1>4 DEF SelectRows
    <3> HIDE DEF files
    <3> DEFINE r1 == [reader EXCEPT !.n = 4]
    <3>2. r1 = [n |-> 4, apps |-> reader.apps, ses |-> reader.ses, files |-> reader.files]
      BY BaseTyped
    <3> HIDE DEF r1
    <3>3. [r1 EXCEPT !.files = files]
            = [n |-> 4, apps |-> reader.apps, ses |-> reader.ses, files |-> files]
      BY <3>2
    <3> QED BY <3>1, <3>3 DEF r1
  <2>2. files \in StoredFiles
    <3>1. \A x \in DsApps : NoTables.files[x] \in [DsFiles -> FileRow \cup {NoRow}]
                            /\ base.files[x] \in [DsFiles -> FileRow \cup {NoRow}]
      BY BaseTyped DEF NoTables, StoredFiles
    <3> QED BY <3>1 DEF StoredFiles
  <2>3. \A x \in DsApps : files[x] = IF reader.apps[x] = NoRow THEN NoTables.files[x] ELSE base.files[x]
    OBVIOUS
  <2> HIDE DEF files
  <2>4. /\ reader' \in Reader /\ reader'.n = 4 /\ reader'.apps = reader.apps
        /\ reader'.ses = reader.ses /\ reader'.files = files
    BY <2>1, <2>2, BaseTyped DEF Reader
  <2>5. Read'
    BY <1>1, <1>4, <2>3, <2>4 DEF Read
  <2> QED BY <1>1, <2>4, <2>5, ReaderKeeps
<1> QED BY <1>1, <1>2, <1>3, <1>4

LEMMA ReturnKeeps ==
  ASSUME StoreInv, Returned
  PROVE  StoreInv'
<1>1. /\ reader' = [n |-> 0, apps |-> NoTables.apps, ses |-> NoTables.ses, files |-> NoTables.files]
      /\ since' = {} /\ UNCHANGED <<base, work, w, faults>>
  BY DEF Returned, NotReading
<1>2. /\ NoTables.apps \in StoredApps /\ NoTables.ses \in StoredSes /\ NoTables.files \in StoredFiles
  BY NoTablesTyped DEF Tables
<1>3. reader' \in Reader /\ reader'.n = 0
  BY <1>1, <1>2 DEF Reader
<1>4. Read'
  BY <1>3 DEF Read
<1> QED BY <1>1, <1>3, <1>4, ReaderKeeps

-----------------------------------------------------------------------------
(* The invariant, and what follows from it.                                   *)

LEMMA StoreBegins == DsInit => StoreInv
<1> SUFFICES ASSUME DsInit
             PROVE  StoreInv
  OBVIOUS
<1>1. /\ base = NoTables /\ work = [d \in Writers |-> NoTables] /\ w = [d \in Writers |-> Resting]
      /\ reader = NotReading /\ faults = 0 /\ since = {}
  BY DEF DsInit
<1>2. reader \in Reader /\ reader.n = 0
  <2>1. NoTables.apps \in StoredApps /\ NoTables.ses \in StoredSes /\ NoTables.files \in StoredFiles
    BY NoTablesTyped DEF Tables
  <2> QED BY <1>1, <2>1 DEF NotReading, Reader
<1>3. DsTypeOK
  <2>1. faults \in 0..MaxFaults
    BY <1>1, StoreAssumption
  <2> QED BY <1>1, <1>2, <2>1, NoTablesTyped, RestTyped DEF DsTypeOK
<1>4. Read
  BY <1>2 DEF Read
<1>5. \A d \in Writers : Agree(work[d], w[d])
  BY <1>1, RestTyped
<1> QED BY <1>3, <1>4, <1>5 DEF StoreInv

LEMMA StoreStep == StoreInv /\ [DsNext]_dsVars => StoreInv'
<1> SUFFICES ASSUME StoreInv, [DsNext]_dsVars
             PROVE  StoreInv'
  OBVIOUS
<1>1. ASSUME NEW d \in Writers, save(d)
      PROVE  StoreInv'
  BY <1>1, BeginKeeps DEF save
<1>2. ASSUME NEW d \in Writers, already_exists(d)
      PROVE  StoreInv'
  BY <1>2, LookKeeps
<1>3. ASSUME NEW d \in Writers, migrate_legacy_json_files(d)
      PROVE  StoreInv'
  BY <1>3, BeginKeeps DEF migrate_legacy_json_files
<1>4. ASSUME NEW d \in Writers, UpsertHeader(d)
      PROVE  StoreInv'
  BY <1>4, HeaderKeeps
<1>5. ASSUME NEW d \in Writers, DeleteRemoved(d)
      PROVE  StoreInv'
  BY <1>5, RemovedKeeps
<1>6. ASSUME NEW d \in Writers, UpsertApp(d)
      PROVE  StoreInv'
  BY <1>6, AppKeeps
<1>7. ASSUME NEW d \in Writers, UpsertSessions(d)
      PROVE  StoreInv'
  BY <1>7, SessionsKeeps
<1>8. ASSUME NEW d \in Writers, UpsertFiles(d)
      PROVE  StoreInv'
  BY <1>8, FilesKeeps
<1>9. ASSUME NEW d \in Writers, DeleteStaleFiles(d)
      PROVE  StoreInv'
  BY <1>9, StaleKeeps
<1>10. ASSUME NEW d \in Writers, Commit(d)
       PROVE  StoreInv'
  BY <1>10, CommitKeeps
<1>11. ASSUME NEW d \in Writers, Rollback(d)
       PROVE  StoreInv'
  BY <1>11, RollbackKeeps
<1>12. CASE SelectHeader
  BY <1>12, HeaderRead
<1>13. CASE SelectRows
  BY <1>13, RowsRead
<1>14. CASE Returned
  BY <1>14, ReturnKeeps
<1>15. CASE UNCHANGED dsVars
  BY <1>15 DEF dsVars, StoreInv, DsTypeOK, Read
<1> QED BY <1>1, <1>2, <1>3, <1>4, <1>5, <1>6, <1>7, <1>8, <1>9, <1>10, <1>11, <1>12, <1>13,
           <1>14, <1>15 DEF DsNext

\* Every state of the store has its type, the tables of every save in progress agree with
\* the statement it has reached, and the reader's rows were committed (write.rs, read.rs).
THEOREM StoreInvariant == DsSpec => []StoreInv
<1>1. DsInit => StoreInv
  BY StoreBegins
<1>2. StoreInv /\ [DsNext]_dsVars => StoreInv'
  BY StoreStep
<1> QED BY <1>1, <1>2, PTL DEF DsSpec

\* load_day_snapshot returns for an application only what was committed while it ran, and
\* neither sessions nor files of an application it does not return (read.rs).
THEOREM ReadTheorem == DsSpec => []ReadsAreCommitted
<1>1. StoreInv => ReadsAreCommitted
  <2> SUFFICES ASSUME StoreInv, reader.n = 4, NEW x \in DsApps
               PROVE  /\ \E t \in since : reader.apps[x] = t.apps[x]
                      /\ \E t \in since : reader.ses[x] \in {t.ses[x], <<>>}
                      /\ \E t \in since : reader.files[x] \in {t.files[x], NoTables.files[x]}
                      /\ reader.apps[x] = NoRow => reader.ses[x] = <<>> /\ reader.files[x] = NoTables.files[x]
    BY DEF ReadsAreCommitted
  <2>1. PICK a \in since : reader.apps = a.apps
    BY DEF StoreInv, Read
  <2>2. PICK b \in since : reader.ses[x] = IF reader.apps[x] = NoRow THEN <<>> ELSE b.ses[x]
    BY DEF StoreInv, Read
  <2>3. PICK c \in since : reader.files[x] = IF reader.apps[x] = NoRow THEN NoTables.files[x] ELSE c.files[x]
    BY DEF StoreInv, Read
  <2> QED BY <2>1, <2>2, <2>3
<1> QED BY <1>1, StoreInvariant, PTL

-----------------------------------------------------------------------------
(* The tables implement a day that is replaced in one step.                   *)

\* A commit makes the saved snapshot the day that is loaded.
LEMMA CommitSaves ==
  ASSUME StoreInv, NEW d \in Writers, Commit(d)
  PROVE  /\ w[d].snap \in Snapshots
         /\ Loaded' = Day!AsSaved(w[d].snap)
<1> DEFINE s == w[d].snap
           t == work[d]
<1>1. base' = t /\ w[d].pc = "commit"
  BY DEF Commit, At
<1>2. /\ s \in Snapshots /\ t.rev > 0
      /\ \A x \in DsApps \ DOMAIN s : t.apps[x] = NoRow
      /\ \A x \in DOMAIN s : AppDone(t, w[d], x)
  BY <1>1, WriterTyped DEF Agree, Written
<1>3. DOMAIN s \subseteq DsApps
  BY <1>2, SnapshotTyped
<1>4. {y \in DsApps : t.apps[y] = NoRow} \cap DOMAIN s = {}
  <2>1. \A x \in DOMAIN s : t.apps[x] \in Nat
    BY <1>2, SnapshotTyped DEF AppDone
  <2> QED BY <2>1, StoreAssumption
<1>5. {y \in DsApps : t.apps[y] # NoRow} = DOMAIN s
  BY <1>2, <1>3, <1>4
<1>6. t.rev # 0
  <2>1. t.rev \in Nat
    BY WriterTyped
  <2> QED BY <1>2, <2>1
<1>7. Loaded' = [x \in DOMAIN s |-> [total |-> t.apps[x], ses |-> t.ses[x], files |-> FilesOf(t.files[x])]]
  <2> HIDE DEF t, s
  <2>1. Loaded' = [x \in {y \in DsApps : base'.apps[y] # NoRow} |->
                     [total |-> base'.apps[x], ses |-> base'.ses[x], files |-> FilesOf(base'.files[x])]]
    BY <1>1, <1>6 DEF Loaded, FilesOf
  <2> QED BY <1>1, <1>5, <2>1
<1>8. \A x \in DOMAIN s :
        [total |-> t.apps[x], ses |-> t.ses[x], files |-> FilesOf(t.files[x])]
          = [s[x] EXCEPT !.files = Day!LastOfEach(@)]
  <2> SUFFICES ASSUME NEW x \in DOMAIN s
               PROVE  [total |-> t.apps[x], ses |-> t.ses[x], files |-> FilesOf(t.files[x])]
                        = [s[x] EXCEPT !.files = Day!LastOfEach(s[x].files)]
    OBVIOUS
  <2>1. t.apps[x] = s[x].total /\ t.ses[x] = s[x].ses /\ t.files[x] = RowsOf(s[x].files)
    BY <1>2 DEF AppDone
  <2>2. s[x].files \in Entries /\ s[x] = [total |-> s[x].total, ses |-> s[x].ses, files |-> s[x].files]
    BY <1>2, SnapshotTyped
  <2>3. FilesOf(t.files[x]) = Day!LastOfEach(s[x].files)
    BY <2>1, <2>2, FilesRead
  <2> DEFINE l == Day!LastOfEach(s[x].files)
  <2> HIDE DEF l
  <2>4. [s[x] EXCEPT !.files = l] = [total |-> s[x].total, ses |-> s[x].ses, files |-> l]
    BY <2>2
  <2> QED BY <2>1, <2>3, <2>4 DEF l
<1>9. Day!AsSaved(s) = [x \in DOMAIN s |-> [s[x] EXCEPT !.files = Day!LastOfEach(@)]]
  BY DEF Day!AsSaved
<1>10. Loaded' = Day!AsSaved(s)
  BY <1>7, <1>8, <1>9
<1> QED BY <1>2, <1>10

\* Every other step leaves the committed tables alone.
LEMMA OnlyCommitWrites ==
  ASSUME [DsNext]_dsVars, \A d \in Writers : ~Commit(d)
  PROVE  base' = base
<1>1. ASSUME NEW d \in Writers,
             \/ save(d)
             \/ already_exists(d)
             \/ migrate_legacy_json_files(d)
             \/ UpsertHeader(d)
             \/ DeleteRemoved(d)
             \/ UpsertApp(d)
             \/ UpsertSessions(d)
             \/ UpsertFiles(d)
             \/ DeleteStaleFiles(d)
             \/ Rollback(d)
      PROVE  base' = base
  BY <1>1 DEF save, already_exists, migrate_legacy_json_files, BeginSave, UpsertHeader, DeleteRemoved,
              UpsertApp, UpsertSessions, UpsertFiles, DeleteStaleFiles, Rollback, AfterFailure
<1>2. CASE SelectHeader \/ SelectRows \/ Returned
  BY <1>2 DEF SelectHeader, SelectRows, Returned
<1>3. CASE UNCHANGED dsVars
  BY <1>3 DEF dsVars
<1> QED BY <1>1, <1>2, <1>3 DEF DsNext

\* However the upserts meet the rows of the previous snapshot, whichever writer saves and
\* wherever a save is cut off, the tables show no snapshot or the last one whose save was
\* completed, its repeated files merged (replace_day_snapshot, load_day_snapshot).
THEOREM StoreRefines == DsSpec => StoreImplementsDay
<1>1. DsInit => Day!SnapInit
  <2> SUFFICES ASSUME DsInit
               PROVE  Loaded = NoSnapshot
    BY DEF Day!SnapInit
  <2>1. base.rev = 0
    BY DEF DsInit, NoTables
  <2> QED BY <2>1 DEF Loaded
<1>2. StoreInv /\ [DsNext]_dsVars => [Day!SaveSnapshot]_Loaded
  <2> SUFFICES ASSUME StoreInv, [DsNext]_dsVars, Loaded' # Loaded
               PROVE  Day!SaveSnapshot
    OBVIOUS
  <2>1. PICK d \in Writers : Commit(d)
    <3>1. SUFFICES ASSUME \A d \in Writers : ~Commit(d)
                   PROVE  Loaded' = Loaded
      OBVIOUS
    <3>2. base' = base
      BY <3>1, OnlyCommitWrites
    <3> QED BY <3>2 DEF Loaded, FilesOf
  <2>2. w[d].snap \in Snapshots /\ Loaded' = Day!AsSaved(w[d].snap)
    BY <2>1, CommitSaves
  <2>3. Loaded' \in Day!SavedOnes
    BY <2>2 DEF Day!SavedOnes
  <2> QED BY <2>3 DEF Day!SaveSnapshot
<1> QED BY <1>1, <1>2, StoreInvariant, PTL DEF DsSpec, StoreImplementsDay, Day!SnapSpec

-----------------------------------------------------------------------------
(* Counting up, and what a recursion along the numbers computes. *)

\* What holds of 0, and of every number if it holds of the one before, holds of all of them.
LEMMA Counting ==
  ASSUME NEW N \in Nat, NEW S, 0 \in S, \A n \in 1..N : n - 1 \in S => n \in S
  PROVE  \A n \in 0..N : n \in S
<1> DEFINE Fails == (0..N) \ S
<1> SUFFICES ASSUME Fails # {} PROVE FALSE
  OBVIOUS
<1>1. IsWellFoundedOn(Numbered, Nat)
  BY NumberedWellFounded
<1>2. PICK k \in Fails : \A j \in Fails : <<j, k>> \notin Numbered
  <2>1. Fails \subseteq Nat
    OBVIOUS
  <2> QED BY <1>1, <2>1, WFMin
<1>3. k \in 1..N /\ k \notin S
  OBVIOUS
<1>4. k - 1 \in 0..N /\ <<k - 1, k>> \in Numbered
  BY <1>3 DEF Numbered
<1>5. k - 1 \in S
  BY <1>2, <1>4
<1> QED BY <1>3, <1>5

\* A recursion along the numbers up to N with the step G.
Runs(f, N, b, G) == f[0] = b /\ \A n \in 1..N : f[n] = G[<<f[n - 1], n>>]

LEMMA Recursion ==
  ASSUME NEW N \in Nat, NEW D, NEW b \in D, NEW G \in [D \X (1..N) -> D]
  PROVE  \E f \in [0..N -> D] : Runs(f, N, b, G)
<1> DEFINE S == {n \in 0..N : \E f \in [0..n -> D] : Runs(f, n, b, G)}
<1>1. 0 \in S
  <2> DEFINE f == [n \in 0..0 |-> b]
  <2>1. f \in [0..0 -> D] /\ f[0] = b /\ 1..0 = {}
    OBVIOUS
  <2>2. Runs(f, 0, b, G)
    BY <2>1 DEF Runs
  <2> QED BY <2>1, <2>2
<1>2. ASSUME NEW n \in 1..N, n - 1 \in S
      PROVE  n \in S
  <2>1. PICK f \in [0..(n - 1) -> D] : Runs(f, n - 1, b, G)
    BY <1>2
  <2>2. n - 1 \in 0..(n - 1) /\ f[n - 1] \in D /\ <<f[n - 1], n>> \in D \X (1..N)
    OBVIOUS
  <2> DEFINE v == G[<<f[n - 1], n>>]
             g == [k \in 0..n |-> IF k = n THEN v ELSE f[k]]
  <2>3. v \in D
    BY <2>2
  <2>4. \A k \in 0..n : k # n => k \in 0..(n - 1)
    OBVIOUS
  <2> HIDE DEF v
  <2>5. g \in [0..n -> D] /\ g[n] = v /\ \A k \in 0..(n - 1) : g[k] = f[k]
    BY <2>3, <2>4
  <2> HIDE DEF g
  <2>6. g[0] = b
    BY <2>1, <2>5 DEF Runs
  <2>7. ASSUME NEW k \in 1..n
        PROVE  g[k] = G[<<g[k - 1], k>>]
    <3>1. k - 1 \in 0..(n - 1) /\ g[k - 1] = f[k - 1]
      BY <2>5
    <3>2. CASE k = n
      BY <2>5, <3>1, <3>2 DEF v
    <3>3. CASE k # n
      <4>1. k \in 1..(n - 1) /\ k \in 0..(n - 1)
        BY <3>3
      <4>2. g[k] = f[k] /\ f[k] = G[<<f[k - 1], k>>]
        BY <2>1, <2>5, <4>1 DEF Runs
      <4> QED BY <3>1, <4>2
    <3> QED BY <3>2, <3>3
  <2>8. Runs(g, n, b, G)
    BY <2>6, <2>7 DEF Runs
  <2> QED BY <2>5, <2>8
<1>3. N \in S
  <2> HIDE DEF S
  <2>1. \A n \in 0..N : n \in S
    BY <1>1, <1>2, Counting
  <2> QED BY <2>1
<1> QED BY <1>3

-----------------------------------------------------------------------------
(* Sessions in the dashboard: for any projects, gap, length of a day and   *)
(* bounds.  Two things are carried along.  What a hidden session covered   *)
(* is shown by another one, unless the user deleted it or its slice went   *)
(* on; and of the overrides that could reach the session of a choice, the  *)
(* one that was recorded with the choice is the only one.                  *)

\* A session begins before it ends, in the past, and counts no more than its length.
FitsUntil(r, t) == r.s < r.e /\ r.e <= t /\ r.dur <= r.e - r.s

\* No two sessions begin together.
StartsApart(rs) == \A i, j \in There(rs) : rs[i].s = rs[j].s => i = j

\* Sessions that fit until t.
SesTables(t) == {rs \in Seq(SesRow) : (\A i \in 1..Len(rs) : FitsUntil(rs[i], t)) /\ StartsApart(rs)}

OverridesIn(os) == {os[k] : k \in 1..Len(os)}

SesShape ==
  /\ SesTypeOK /\ rows \in SesTables(now)
  /\ open => slices # <<>>
  /\ \A k \in 1..Len(slices) : slices[k].s < slices[k].e /\ slices[k].e <= now
  /\ \A o \in OverridesIn(overrides) : o.id \in Ids

ShownBy(rs) == UNION {Instants(rs[i]) : i \in Visible(rs)}

\* The instant is shown, or there is a reason that it is not.
Kept(t) == t \in ShownBy(rows) \/ MayBeHidden(t) \/ RowAt(t) \cap late # {}

\* Hidden by rebuild when its slice was imported as a whole.
Settled(i) == rows[i].there /\ rows[i].hidden /\ rows[i].split = 0 /\ i \notin late /\ rows[i].s \notin gone
Covered(i) == ~Unfinished(rows[i]) /\ Instants(rows[i]) \subseteq ShownBy(rows) \cup gone

TimeInv ==
  /\ \A t \in seen : Kept(t)
  /\ \A i \in Ids : Settled(i) => Covered(i)

\* No two overrides of one interval.
IntervalsApart(O) == \A o, p \in O : o.s = p.s /\ o.e = p.e => o = p

\* The override o alone decides the project of a session that begins at t and has its interval.
Decides(rs, O, o, t) ==
  /\ o.s = t /\ rs[o.id].s = t
  /\ \A p \in O : rs[p.id].there /\ rs[p.id].s = t => p.s = t /\ p.e = o.e

\* Every recorded choice has an override that decides.
Chosen(rs, O, ch) ==
  \A t \in 0..SesEnd : ch[t].e # 0 =>
    \E o \in O : o.e = ch[t].e /\ o.proj = ch[t].proj /\ Decides(rs, O, o, t)

ChoiceInv == IntervalsApart(OverridesIn(overrides)) /\ Chosen(rows, OverridesIn(overrides), choice)

SesInv == SesShape /\ TimeInv /\ ChoiceInv /\ ChoiceReapplied

-----------------------------------------------------------------------------
(* Sessions in the dashboard: imports. *)

LEMMA UpsertedIs ==
  ASSUME NEW r \in SesRow, NEW sl \in SesSlice, NEW t \in Nat, NEW u, u = Upserted(r, sl),
         FitsUntil(r, t), sl.s < sl.e, sl.e <= t, r.s = sl.s
  PROVE  /\ u \in SesRow /\ FitsUntil(u, t)
         /\ u.s = r.s /\ u.there = r.there /\ u.hidden = r.hidden /\ u.split = r.split
         /\ r.e <= u.e /\ (u.e = r.e \/ u.e = sl.e) /\ (r.split = 0 => sl.e <= u.e)
<1> DEFINE e == Larger(r.e, sl.e)
           dur == Larger(r.dur, sl.e - sl.s)
           x == [r EXCEPT !.e = e, !.dur = dur]
<1>1. /\ r.s \in Nat /\ r.e \in Nat /\ r.dur \in Nat /\ sl.s \in Nat /\ sl.e \in Nat
      /\ r.s < r.e /\ r.e <= t /\ r.dur <= r.e - r.s
  BY DEF SesRow, SesSlice, FitsUntil
<1>2. /\ e \in Nat /\ dur \in Nat /\ r.e <= e /\ sl.e <= e /\ e <= t /\ (e = r.e \/ e = sl.e)
      /\ dur <= e - r.s
  BY <1>1 DEF Larger
<1> HIDE DEF e, dur
<1>3. /\ x \in SesRow /\ x.s = r.s /\ x.e = e /\ x.dur = dur
      /\ x.there = r.there /\ x.hidden = r.hidden /\ x.split = r.split
  <2> DEFINE v == [r EXCEPT !.e = e]
  <2>1. /\ v \in SesRow /\ v.s = r.s /\ v.e = e /\ v.there = r.there /\ v.hidden = r.hidden /\ v.split = r.split
    BY <1>2 DEF SesRow
  <2>2. x = [v EXCEPT !.dur = dur]
    BY DEF SesRow
  <2> HIDE DEF v
  <2> QED BY <1>2, <2>1, <2>2 DEF SesRow
<1>4. FitsUntil(x, t)
  BY <1>1, <1>2, <1>3 DEF FitsUntil
<1>5. CASE r.split = 0
  <2>1. u = x
    BY <1>5 DEF Upserted, e, dur
  <2> HIDE DEF x
  <2> QED BY <1>2, <1>3, <1>4, <1>5, <2>1
<1>6. CASE r.split # 0
  BY <1>1, <1>6 DEF Upserted
<1> QED BY <1>5, <1>6

\* The sessions after, where they were sessions before: as they were, or with a later end.
Grown(rs, us, ends) ==
  /\ Len(rs) <= Len(us)
  /\ \A i \in 1..Len(rs) :
       /\ us[i].s = rs[i].s /\ us[i].there = rs[i].there /\ us[i].hidden = rs[i].hidden
       /\ us[i].split = rs[i].split /\ rs[i].e <= us[i].e
       /\ us[i].e = rs[i].e \/ <<rs[i].s, us[i].e>> \in ends
  /\ \A i \in 1..Len(us) : i > Len(rs) => ~us[i].hidden

Taken(us, sl) == \E i \in There(us) : us[i].s = sl.s /\ (us[i].split = 0 => sl.e <= us[i].e)

LEMMA UpsertSliceKeeps ==
  ASSUME NEW t \in Nat, NEW rs \in SesTables(t), NEW sl \in SesSlice, sl.s < sl.e, sl.e <= t
  PROVE  /\ UpsertSlice(rs, sl) \in SesTables(t)
         /\ Grown(rs, UpsertSlice(rs, sl), {<<sl.s, sl.e>>})
         /\ Taken(UpsertSlice(rs, sl), sl)
<1> DEFINE us == UpsertSlice(rs, sl)
<1>0. /\ rs \in Seq(SesRow) /\ Len(rs) \in Nat /\ StartsApart(rs)
      /\ \A i \in 1..Len(rs) : FitsUntil(rs[i], t) /\ rs[i] \in SesRow
  BY DEF SesTables
<1>1. CASE \E i \in There(rs) : rs[i].s = sl.s
  <2> DEFINE vs == [i \in 1..Len(rs) |-> IF rs[i].there /\ rs[i].s = sl.s THEN Upserted(rs[i], sl) ELSE rs[i]]
  <2>1. us = vs
    BY <1>1 DEF UpsertSlice
  <2>2. \A i \in 1..Len(rs) :
          /\ vs[i] \in SesRow /\ FitsUntil(vs[i], t)
          /\ vs[i].s = rs[i].s /\ vs[i].there = rs[i].there /\ vs[i].hidden = rs[i].hidden
          /\ vs[i].split = rs[i].split /\ rs[i].e <= vs[i].e
          /\ vs[i].e = rs[i].e \/ (rs[i].s = sl.s /\ vs[i].e = sl.e)
          /\ rs[i].there /\ rs[i].s = sl.s /\ rs[i].split = 0 => sl.e <= vs[i].e
    <3> TAKE i \in 1..Len(rs)
    <3>1. CASE rs[i].there /\ rs[i].s = sl.s
      <4>1. vs[i] = Upserted(rs[i], sl)
        BY <3>1
      <4> DEFINE u == Upserted(rs[i], sl)
      <4>2. rs[i] \in SesRow /\ FitsUntil(rs[i], t) /\ rs[i].s = sl.s
        BY <1>0, <3>1
      <4> HIDE DEF vs
      <4>3. /\ u \in SesRow /\ FitsUntil(u, t)
            /\ u.s = rs[i].s /\ u.there = rs[i].there /\ u.hidden = rs[i].hidden /\ u.split = rs[i].split
            /\ rs[i].e <= u.e /\ (u.e = rs[i].e \/ u.e = sl.e) /\ (rs[i].split = 0 => sl.e <= u.e)
        BY <4>2, UpsertedIs
      <4> HIDE DEF u
      <4>4. vs[i] = u
        BY <4>1 DEF u
      <4> QED BY <3>1, <4>3, <4>4
    <3>2. CASE ~(rs[i].there /\ rs[i].s = sl.s)
      <4>1. vs[i] = rs[i]
        BY <3>2
      <4>2. rs[i].e \in Nat
        BY <1>0 DEF SesRow
      <4> HIDE DEF vs
      <4> QED BY <1>0, <3>2, <4>1, <4>2
    <3> QED BY <3>1, <3>2
  <2>3. Len(vs) = Len(rs) /\ vs \in Seq(SesRow)
    <3>1. vs = [i \in 1..Len(rs) |-> vs[i]]
      OBVIOUS
    <3> HIDE DEF vs
    <3> QED BY <1>0, <2>2, <3>1
  <2> HIDE DEF vs
  <2>4. There(vs) = There(rs)
    BY <2>2, <2>3 DEF There
  <2>5. StartsApart(vs)
    BY <1>0, <2>2, <2>3, <2>4 DEF StartsApart, There
  <2>6. vs \in SesTables(t)
    BY <2>2, <2>3, <2>5 DEF SesTables
  <2>7. Grown(rs, vs, {<<sl.s, sl.e>>})
    BY <1>0, <2>2, <2>3 DEF Grown
  <2>8. Taken(vs, sl)
    <3>1. PICK i \in There(rs) : rs[i].s = sl.s
      BY <1>1
    <3>2. i \in There(vs) /\ vs[i].s = sl.s /\ (vs[i].split = 0 => sl.e <= vs[i].e)
      BY <2>2, <2>4, <3>1 DEF There
    <3> QED BY <3>2 DEF Taken
  <2> QED BY <2>1, <2>6, <2>7, <2>8
<1>2. CASE ~\E i \in There(rs) : rs[i].s = sl.s
  <2> DEFINE r == NewRow(sl)
             vs == Append(rs, r)
             n == Len(rs) + 1
  <2>1. us = vs
    BY <1>2 DEF UpsertSlice
  <2>2. /\ r \in SesRow /\ FitsUntil(r, t) /\ r.s = sl.s /\ r.e = sl.e /\ r.there /\ ~r.hidden
    <3>1. 0 \in 0..MaxRows /\ NoProj \in SesProjRef
      BY SesAssumption DEF NoProj, SesProjRef
    <3>2. sl.s \in Nat /\ sl.e \in Nat /\ sl.e - sl.s \in Nat /\ sl.e - sl.s <= sl.e - sl.s
      BY DEF SesSlice
    <3> QED BY <3>1, <3>2 DEF NewRow, SesRow, FitsUntil
  <2> HIDE DEF r
  <2>3. /\ vs \in Seq(SesRow) /\ Len(vs) = n /\ vs[n] = r
        /\ \A i \in 1..Len(rs) : vs[i] = rs[i]
        /\ \A i \in 1..n : i \in 1..Len(rs) \/ i = n
    BY <1>0, <2>2
  <2> HIDE DEF vs
  <2>4. There(vs) = There(rs) \cup {n} /\ n \notin There(rs)
    BY <1>0, <2>2, <2>3 DEF There
  <2>5. StartsApart(vs)
    <3>1. \A i \in There(rs) : vs[i] = rs[i]
      BY <2>3 DEF There
    <3> QED BY <1>0, <1>2, <2>2, <2>3, <2>4, <3>1 DEF StartsApart
  <2>6. vs \in SesTables(t)
    BY <1>0, <2>2, <2>3, <2>5 DEF SesTables
  <2>7. Grown(rs, vs, {<<sl.s, sl.e>>})
    <3>1. \A i \in 1..Len(rs) : rs[i].e \in Nat
      BY <1>0 DEF SesRow
    <3> QED BY <1>0, <2>2, <2>3, <3>1 DEF Grown
  <2>8. Taken(vs, sl)
    <3>1. sl.e \in Nat
      BY DEF SesSlice
    <3> QED BY <2>2, <2>3, <2>4, <3>1 DEF Taken
  <2> QED BY <2>1, <2>6, <2>7, <2>8
<1> QED BY <1>1, <1>2

LEMMA TableTyped ==
  ASSUME NEW t \in Nat, NEW rs \in SesTables(t)
  PROVE  /\ rs \in Seq(SesRow) /\ Len(rs) \in Nat /\ StartsApart(rs)
         /\ \A i \in 1..Len(rs) : /\ rs[i] \in SesRow /\ FitsUntil(rs[i], t)
                                 /\ rs[i].s \in Nat /\ rs[i].e \in Nat /\ rs[i].dur \in Nat
<1>1. rs \in Seq(SesRow) /\ Len(rs) \in Nat /\ StartsApart(rs) /\ \A i \in 1..Len(rs) : FitsUntil(rs[i], t)
  BY DEF SesTables
<1>2. \A i \in 1..Len(rs) : rs[i] \in SesRow
  BY <1>1
<1>3. \A r \in SesRow : r.s \in Nat /\ r.e \in Nat /\ r.dur \in Nat
  BY DEF SesRow
<1> QED BY <1>1, <1>2, <1>3

LEMMA GrownOn ==
  ASSUME NEW t \in Nat, NEW a \in SesTables(t), NEW b \in SesTables(t), NEW c \in SesTables(t),
         NEW E, NEW F \in SUBSET E, Grown(a, b, E), Grown(b, c, F)
  PROVE  /\ Grown(a, c, E)
         /\ \A sl \in SesSlice : Taken(b, sl) => Taken(c, sl)
<1>1. /\ Len(a) \in Nat /\ Len(b) \in Nat /\ Len(c) \in Nat /\ Len(a) <= Len(b) /\ Len(b) <= Len(c)
  BY DEF SesTables, Grown
<1>2. /\ \A i \in 1..Len(a) : a[i].e \in Nat
      /\ \A i \in 1..Len(b) : b[i].e \in Nat
      /\ \A i \in 1..Len(c) : c[i].e \in Nat
  BY TableTyped
<1>3. ASSUME NEW i \in 1..Len(a)
      PROVE  /\ c[i].s = a[i].s /\ c[i].there = a[i].there /\ c[i].hidden = a[i].hidden
             /\ c[i].split = a[i].split /\ a[i].e <= c[i].e
             /\ c[i].e = a[i].e \/ <<a[i].s, c[i].e>> \in E
  <2>1. i \in 1..Len(b) /\ i \in 1..Len(c)
    BY <1>1
  <2>2. /\ b[i].s = a[i].s /\ b[i].there = a[i].there /\ b[i].hidden = a[i].hidden
        /\ b[i].split = a[i].split /\ a[i].e <= b[i].e
        /\ b[i].e = a[i].e \/ <<a[i].s, b[i].e>> \in E
    BY DEF Grown
  <2>3. /\ c[i].s = b[i].s /\ c[i].there = b[i].there /\ c[i].hidden = b[i].hidden
        /\ c[i].split = b[i].split /\ b[i].e <= c[i].e
        /\ c[i].e = b[i].e \/ <<b[i].s, c[i].e>> \in E
    BY <2>1 DEF Grown
  <2>4. a[i].e <= c[i].e
    BY <1>2, <2>1, <2>2, <2>3
  <2> QED BY <2>2, <2>3, <2>4
<1>4. ASSUME NEW i \in 1..Len(c), i > Len(a)
      PROVE  ~c[i].hidden
  <2>1. CASE i > Len(b)
    BY <2>1 DEF Grown
  <2>2. CASE ~(i > Len(b))
    <3>1. i \in 1..Len(b)
      BY <1>1, <2>2
    <3> QED BY <1>4, <3>1 DEF Grown
  <2> QED BY <2>1, <2>2
<1>5. Grown(a, c, E)
  BY <1>1, <1>3, <1>4 DEF Grown
<1>6. ASSUME NEW sl \in SesSlice, Taken(b, sl)
      PROVE  Taken(c, sl)
  <2>1. PICK i \in There(b) : b[i].s = sl.s /\ (b[i].split = 0 => sl.e <= b[i].e)
    BY <1>6 DEF Taken
  <2>2. i \in 1..Len(b) /\ i \in 1..Len(c) /\ sl.e \in Nat
    BY <1>1 DEF There, SesSlice
  <2>3. /\ c[i].s = b[i].s /\ c[i].there = b[i].there /\ c[i].split = b[i].split /\ b[i].e <= c[i].e
    BY <2>2 DEF Grown
  <2>4. i \in There(c) /\ c[i].s = sl.s /\ (c[i].split = 0 => sl.e <= c[i].e)
    BY <1>2, <2>1, <2>2, <2>3 DEF There
  <2> QED BY <2>4 DEF Taken
<1> QED BY <1>5, <1>6

\* The recursion of UpsertedDay.
Upserts(f, day) ==
  f = [n \in 0..Len(slices) |->
         IF n = 0 THEN rows
         ELSE IF n \in SlicesOf(day) THEN UpsertSlice(f[n - 1], slices[n])
         ELSE f[n - 1]]

LEMMA UpsertsRuns ==
  ASSUME SesShape, NEW day
  PROVE  \E f : Upserts(f, day)
<1> DEFINE D == SesTables(now)
           N == Len(slices)
           Step(rs, n) == IF n \in SlicesOf(day) THEN UpsertSlice(rs, slices[n]) ELSE rs
           G == [q \in D \X (1..N) |-> Step(q[1], q[2])]
<1>1. /\ N \in Nat /\ now \in Nat /\ rows \in D
      /\ \A n \in 1..N : slices[n] \in SesSlice /\ slices[n].s < slices[n].e /\ slices[n].e <= now
  BY SesAssumption DEF SesShape, SesTypeOK
<1>2. G \in [D \X (1..N) -> D]
  <2>1. \A q \in D \X (1..N) : Step(q[1], q[2]) \in D
    <3> TAKE q \in D \X (1..N)
    <3>1. q[1] \in D /\ q[2] \in 1..N
      OBVIOUS
    <3>2. UpsertSlice(q[1], slices[q[2]]) \in D
      BY <1>1, <3>1, UpsertSliceKeeps
    <3> HIDE DEF D
    <3> QED BY <3>1, <3>2
  <2> HIDE DEF D, Step, N
  <2> QED BY <2>1
<1>3. PICK f \in [0..N -> D] : Runs(f, N, rows, G)
  <2> HIDE DEF G, D, N
  <2> QED BY <1>1, <1>2, Recursion
<1>4. \A n \in 1..N : f[n] = Step(f[n - 1], n)
  <2> TAKE n \in 1..N
  <2>1. <<f[n - 1], n>> \in D \X (1..N)
    <3> HIDE DEF D, N
    <3> QED BY <1>1
  <2>2. f[n] = G[<<f[n - 1], n>>]
    <3> HIDE DEF G, D, N
    <3> QED BY <1>3 DEF Runs
  <2> HIDE DEF D, N, Step
  <2> QED BY <2>1, <2>2
<1>5. f[0] = rows
  BY <1>3 DEF Runs
<1>6. Upserts(f, day)
  <2> HIDE DEF D
  <2> QED BY <1>1, <1>3, <1>4, <1>5 DEF Upserts
<1> QED BY <1>6

SliceEnds == {<<slices[k].s, slices[k].e>> : k \in 1..Len(slices)}

LEMMA UpsertedDayKeeps ==
  ASSUME SesShape, NEW day
  PROVE  /\ UpsertedDay(day) \in SesTables(now)
         /\ Grown(rows, UpsertedDay(day), SliceEnds)
         /\ \A n \in SlicesOf(day) : Taken(UpsertedDay(day), slices[n])
<1> DEFINE T == CHOOSE f : Upserts(f, day)
           N == Len(slices)
           S == {n \in 0..N : /\ T[n] \in SesTables(now) /\ Grown(rows, T[n], SliceEnds)
                              /\ \A k \in SlicesOf(day) : k <= n => Taken(T[n], slices[k])}
<1>1. /\ N \in Nat /\ now \in Nat /\ rows \in SesTables(now) /\ SlicesOf(day) \subseteq 1..N
      /\ \A n \in 1..N : /\ slices[n] \in SesSlice /\ slices[n].s < slices[n].e /\ slices[n].e <= now
                         /\ {<<slices[n].s, slices[n].e>>} \subseteq SliceEnds
  BY SesAssumption DEF SesShape, SesTypeOK, SlicesOf, SliceEnds
<1>2. Upserts(T, day)
  BY UpsertsRuns
<1>3. UpsertedDay(day) = T[N]
  BY DEF UpsertedDay, Upserts
<1> HIDE DEF T
<1>4. T[0] = rows /\ \A n \in 1..N : T[n] = IF n \in SlicesOf(day) THEN UpsertSlice(T[n - 1], slices[n]) ELSE T[n - 1]
  BY <1>1, <1>2 DEF Upserts
<1>5. 0 \in S
  <2>1. Grown(rows, rows, SliceEnds)
    <3>1. Len(rows) \in Nat /\ \A i \in 1..Len(rows) : rows[i].e \in Nat
      BY <1>1, TableTyped
    <3> QED BY <3>1 DEF Grown
  <2>2. \A k \in SlicesOf(day) : ~(k <= 0)
    BY <1>1
  <2> QED BY <1>1, <1>4, <2>1, <2>2
<1>6. ASSUME NEW n \in 1..N, n - 1 \in S
      PROVE  n \in S
  <2>1. /\ T[n - 1] \in SesTables(now) /\ Grown(rows, T[n - 1], SliceEnds)
        /\ \A k \in SlicesOf(day) : k <= n - 1 => Taken(T[n - 1], slices[k])
    BY <1>6
  <2>2. \A k \in SlicesOf(day) : k <= n => k <= n - 1 \/ k = n
    BY <1>1
  <2>3. CASE n \in SlicesOf(day)
    <3>1. /\ T[n] \in SesTables(now)
          /\ Grown(T[n - 1], T[n], {<<slices[n].s, slices[n].e>>})
          /\ Taken(T[n], slices[n])
      BY <1>1, <1>4, <2>1, <2>3, UpsertSliceKeeps
    <3>2. /\ Grown(rows, T[n], SliceEnds)
          /\ \A sl \in SesSlice : Taken(T[n - 1], sl) => Taken(T[n], sl)
      BY <1>1, <2>1, <3>1, GrownOn
    <3>3. ASSUME NEW k \in SlicesOf(day), k <= n
          PROVE  Taken(T[n], slices[k])
      <4>1. slices[k] \in SesSlice
        BY <1>1
      <4>2. CASE k = n
        BY <3>1, <4>2
      <4>3. CASE k <= n - 1
        BY <2>1, <3>2, <4>1, <4>3
      <4> QED BY <2>2, <3>3, <4>2, <4>3
    <3> QED BY <3>1, <3>2, <3>3
  <2>4. CASE n \notin SlicesOf(day)
    BY <1>4, <2>1, <2>2, <2>4
  <2> QED BY <2>3, <2>4
<1>7. N \in S
  <2> HIDE DEF S
  <2>1. \A n \in 0..N : n \in S
    BY <1>1, <1>5, <1>6, Counting
  <2> QED BY <1>1, <2>1
<1> QED BY <1>1, <1>3, <1>7

-----------------------------------------------------------------------------
(* Sessions in the dashboard: rebuild_sessions. *)

LEMMA AbsorbIs ==
  ASSUME NEW t \in Nat, NEW c \in SesRow, NEW r \in SesRow, FitsUntil(c, t), FitsUntil(r, t),
         NEW a, a = Absorb(c, r)
  PROVE  /\ a \in SesRow /\ FitsUntil(a, t) /\ c.e <= a.e /\ r.e <= a.e
         /\ a.s = c.s /\ a.there = c.there /\ a.hidden = c.hidden /\ a.split = c.split /\ a.proj = c.proj
<1> DEFINE e == MergedEnd(c, r)
           dur == c.dur + AddedDuration(c, r) + GapDuration(c, r)
           v == [c EXCEPT !.e = e]
<1>1. /\ c.s \in Nat /\ c.e \in Nat /\ c.dur \in Nat /\ r.s \in Nat /\ r.e \in Nat /\ r.dur \in Nat
      /\ c.s < c.e /\ c.e <= t /\ c.dur <= c.e - c.s /\ r.s < r.e /\ r.e <= t
  BY DEF SesRow, FitsUntil
<1>2. e \in Nat /\ c.e <= e /\ r.e <= e /\ e <= t
  BY <1>1 DEF MergedEnd, Larger
<1>3. dur \in Nat /\ dur <= e - c.s
  <2>1. CASE r.s > c.e
    <3>1. Larger(r.s, c.e) = r.s /\ GapDuration(c, r) = r.s - c.e /\ e = r.e
      BY <1>1, <2>1 DEF Larger, GapDuration, MergedEnd
    <3>2. AddedDuration(c, r) \in Nat /\ AddedDuration(c, r) <= r.e - r.s
      BY <1>1, <2>1, <3>1 DEF AddedDuration, Smaller
    <3> HIDE DEF e
    <3> QED BY <1>1, <1>2, <2>1, <3>1, <3>2
  <2>2. CASE ~(r.s > c.e)
    <3>1. Larger(r.s, c.e) = c.e /\ GapDuration(c, r) = 0
      BY <1>1, <2>2 DEF Larger, GapDuration
    <3>2. AddedDuration(c, r) \in Nat /\ AddedDuration(c, r) <= e - c.e
      BY <1>1, <2>2, <3>1 DEF AddedDuration, Smaller, MergedEnd, Larger
    <3> HIDE DEF e
    <3> QED BY <1>1, <1>2, <2>2, <3>1, <3>2
  <2> QED BY <2>1, <2>2
<1> HIDE DEF e, dur
<1>4. a = [v EXCEPT !.dur = dur]
  BY DEF Absorb, SesRow, e, dur
<1>5. /\ v \in SesRow /\ v.s = c.s /\ v.e = e /\ v.there = c.there /\ v.hidden = c.hidden
      /\ v.split = c.split /\ v.proj = c.proj
  BY <1>2 DEF SesRow
<1> HIDE DEF v
<1>6. /\ a \in SesRow /\ a.s = c.s /\ a.e = e /\ a.dur = dur /\ a.there = c.there /\ a.hidden = c.hidden
      /\ a.split = c.split /\ a.proj = c.proj
  BY <1>3, <1>4, <1>5 DEF SesRow
<1> QED BY <1>1, <1>2, <1>3, <1>6 DEF FitsUntil

HiddenRow(r) == [r EXCEPT !.hidden = TRUE]

LEMMA HiddenIs ==
  ASSUME NEW t \in Nat, NEW r \in SesRow, FitsUntil(r, t), NEW h, h = HiddenRow(r)
  PROVE  /\ h \in SesRow /\ FitsUntil(h, t) /\ h.hidden \in BOOLEAN /\ h.s = r.s /\ h.e = r.e /\ h.there = r.there
         /\ h.hidden /\ h.split = r.split /\ h.proj = r.proj
<1>1. /\ h \in SesRow /\ h.s = r.s /\ h.e = r.e /\ h.dur = r.dur /\ h.there = r.there
      /\ h.hidden /\ h.hidden \in BOOLEAN /\ h.split = r.split /\ h.proj = r.proj
  BY DEF SesRow, HiddenRow
<1> QED BY <1>1 DEF FitsUntil

Put(rs, c, a) == [rs EXCEPT ![c] = a]

\* A session is replaced by one with the same start.
LEMMA Replaced ==
  ASSUME NEW t \in Nat, NEW rs \in SesTables(t), NEW c \in 1..Len(rs),
         NEW a \in SesRow, FitsUntil(a, t), a.s = rs[c].s, a.there = rs[c].there,
         NEW us, us = Put(rs, c, a)
  PROVE  /\ us \in SesTables(t) /\ Len(us) = Len(rs) /\ us[c] = a
         /\ \A j \in 1..Len(rs) : j # c => us[j] = rs[j]
<1>1. /\ rs \in Seq(SesRow) /\ Len(rs) \in Nat /\ StartsApart(rs)
      /\ \A j \in 1..Len(rs) : FitsUntil(rs[j], t)
  BY TableTyped
<1>2. /\ us \in Seq(SesRow) /\ Len(us) = Len(rs) /\ us[c] = a
      /\ \A j \in 1..Len(rs) : j # c => us[j] = rs[j]
  BY <1>1 DEF Put
<1>3. \A j \in 1..Len(rs) : FitsUntil(us[j], t) /\ us[j].s = rs[j].s /\ us[j].there = rs[j].there
  <2> TAKE j \in 1..Len(rs)
  <2>1. CASE j = c
    BY <1>2, <2>1
  <2>2. CASE j # c
    BY <1>1, <1>2, <2>2
  <2> QED BY <2>1, <2>2
<1>4. StartsApart(us)
  <2>1. There(us) = There(rs) /\ There(rs) \subseteq 1..Len(rs)
    BY <1>2, <1>3 DEF There
  <2>2. \A i, j \in There(rs) : us[i].s = us[j].s => i = j
    BY <1>1, <1>3, <2>1 DEF StartsApart
  <2> QED BY <2>1, <2>2 DEF StartsApart
<1> QED BY <1>2, <1>3, <1>4 DEF SesTables

\* The states of the walk over the sessions rs.
Walks(t, rs) ==
  {a \in [rows: SesTables(t), cur: 0..Len(rs), into: Seq((1..Len(rs)) \X (1..Len(rs)))] :
     Len(a.rows) = Len(rs)}

\* A session of the sorted sequence is merged into the current one.
Merges(rs, c, i, us) ==
  /\ rs[i].e <= us[c].e /\ us[i].e = rs[i].e
  /\ \A j \in 1..Len(rs) :
       /\ us[j].s = rs[j].s /\ us[j].there = rs[j].there /\ us[j].split = rs[j].split
       /\ us[j].proj = rs[j].proj /\ rs[j].e <= us[j].e
       /\ us[j].hidden = (rs[j].hidden \/ j = i) /\ (j # c => us[j].e = rs[j].e)

MergeInto(rs, c, i) == [rs EXCEPT ![c] = Absorb(rs[c], rs[i]), ![i].hidden = TRUE]

LEMMA MergeTyped ==
  ASSUME NEW t \in Nat, NEW rs \in SesTables(t), NEW c \in 1..Len(rs), NEW i \in 1..Len(rs),
         NEW us, us = MergeInto(rs, c, i)
  PROVE  us \in SesTables(t) /\ Len(us) = Len(rs) /\ (c # i => Merges(rs, c, i, us))
<1>1. /\ Len(rs) \in Nat
      /\ \A j \in 1..Len(rs) : rs[j] \in SesRow /\ FitsUntil(rs[j], t) /\ rs[j].e \in Nat
  BY TableTyped
<1> DEFINE a == Absorb(rs[c], rs[i])
           ws == Put(rs, c, a)
           h == HiddenRow(ws[i])
<1>2. /\ a \in SesRow /\ FitsUntil(a, t) /\ rs[c].e <= a.e /\ rs[i].e <= a.e
      /\ a.s = rs[c].s /\ a.there = rs[c].there /\ a.hidden = rs[c].hidden
      /\ a.split = rs[c].split /\ a.proj = rs[c].proj
  BY <1>1, AbsorbIs
<1>3. us = [ws EXCEPT ![i].hidden = TRUE]
  BY DEF Put, MergeInto
<1> HIDE DEF a
<1>4. /\ ws \in SesTables(t) /\ Len(ws) = Len(rs) /\ ws[c] = a
      /\ \A j \in 1..Len(rs) : j # c => ws[j] = rs[j]
  BY <1>2, Replaced
<1> HIDE DEF ws
<1>5. ws[i] \in SesRow /\ FitsUntil(ws[i], t)
  BY <1>4, TableTyped
<1>6. /\ h \in SesRow /\ FitsUntil(h, t) /\ h.hidden \in BOOLEAN /\ h.s = ws[i].s /\ h.e = ws[i].e /\ h.there = ws[i].there
      /\ h.hidden /\ h.split = ws[i].split /\ h.proj = ws[i].proj
  <2>1. h = HiddenRow(ws[i])
    OBVIOUS
  <2> HIDE DEF h
  <2> QED BY <1>5, <2>1, HiddenIs
<1>7. us = Put(ws, i, h) /\ i \in 1..Len(ws)
  BY <1>3, <1>4 DEF Put, HiddenRow
<1>8. /\ us \in SesTables(t) /\ Len(us) = Len(rs) /\ us[i] = h
      /\ \A j \in 1..Len(rs) : j # i => us[j] = ws[j]
  <2> HIDE DEF h
  <2>1. /\ us \in SesTables(t) /\ Len(us) = Len(ws) /\ us[i] = h
        /\ \A j \in 1..Len(ws) : j # i => us[j] = ws[j]
    <3>1. ws \in SesTables(t) /\ h \in SesRow /\ FitsUntil(h, t) /\ h.s = ws[i].s /\ h.there = ws[i].there
      BY <1>4, <1>6
    <3> QED BY <1>7, <3>1, Replaced
  <2> QED BY <1>4, <2>1
<1> HIDE DEF h
<1>9. ASSUME c # i
      PROVE  Merges(rs, c, i, us)
  <2>1. ws[i] = rs[i] /\ us[c] = a
    BY <1>4, <1>8, <1>9
  <2>2. ASSUME NEW j \in 1..Len(rs)
        PROVE  /\ us[j].s = rs[j].s /\ us[j].there = rs[j].there /\ us[j].split = rs[j].split
               /\ us[j].proj = rs[j].proj /\ rs[j].e <= us[j].e
               /\ us[j].hidden = (rs[j].hidden \/ j = i) /\ (j # c => us[j].e = rs[j].e)
    <3>0. rs[j].hidden \in BOOLEAN /\ rs[j].e <= rs[j].e
      <4>1. \A r \in SesRow : r.hidden \in BOOLEAN
        BY DEF SesRow
      <4> QED BY <1>1, <4>1
    <3>1. CASE j = c
      BY <1>2, <1>9, <2>1, <3>0, <3>1
    <3>2. CASE j = i
      <4>1. us[j] = h /\ h.e = rs[j].e /\ h.s = rs[j].s /\ h.there = rs[j].there
        BY <1>6, <1>8, <2>1, <3>2
      <4>2. h.hidden \in BOOLEAN /\ h.split = rs[j].split /\ h.proj = rs[j].proj /\ h.hidden
        BY <1>6, <2>1, <3>2
      <4> QED BY <3>0, <3>2, <4>1, <4>2
    <3>3. CASE j # c /\ j # i
      BY <1>4, <1>8, <3>0, <3>3
    <3> QED BY <3>1, <3>2, <3>3
  <2>3. rs[i].e <= us[c].e /\ us[i].e = rs[i].e
    BY <1>2, <1>6, <1>8, <2>1
  <2> QED BY <2>2, <2>3 DEF Merges
<1> QED BY <1>8, <1>9

LEMMA WalkTyped ==
  ASSUME NEW t \in Nat, NEW rs \in SesTables(t), NEW acc \in Walks(t, rs), NEW i \in 1..Len(rs)
  PROVE  MergeNext(acc, i) \in Walks(t, rs)
<1>1. /\ acc.rows \in SesTables(t) /\ Len(acc.rows) = Len(rs) /\ acc.cur \in 0..Len(rs)
      /\ acc.into \in Seq((1..Len(rs)) \X (1..Len(rs)))
      /\ acc = [rows |-> acc.rows, cur |-> acc.cur, into |-> acc.into]
  BY DEF Walks
<1>2. Len(rs) \in Nat
  BY TableTyped
<1>3. CASE acc.cur # 0 /\ Mergeable(acc.rows[acc.cur], acc.rows[i])
  <2> DEFINE us == MergeInto(acc.rows, acc.cur, i)
             to == Append(acc.into, <<i, acc.cur>>)
  <2>1. acc.cur \in 1..Len(rs)
    BY <1>1, <1>2, <1>3
  <2>2. us \in SesTables(t) /\ Len(us) = Len(acc.rows)
    BY <1>1, <2>1, MergeTyped
  <2>3. to \in Seq((1..Len(rs)) \X (1..Len(rs)))
    BY <1>1, <2>1
  <2>4. MergeNext(acc, i) = [rows |-> us, cur |-> acc.cur, into |-> to]
    BY <1>3 DEF MergeNext, MergeInto
  <2>5. Len(us) = Len(rs)
    BY <1>1, <2>2
  <2> HIDE DEF us, to
  <2> QED BY <1>1, <2>2, <2>3, <2>4, <2>5 DEF Walks
<1>4. CASE ~(acc.cur # 0 /\ Mergeable(acc.rows[acc.cur], acc.rows[i]))
  <2>1. MergeNext(acc, i) = [rows |-> acc.rows, cur |-> i, into |-> acc.into]
    <3>1. MergeNext(acc, i) = [acc EXCEPT !.cur = i]
      BY <1>4 DEF MergeNext
    <3> QED BY <1>1, <3>1
  <2>2. i \in 0..Len(rs)
    BY <1>2
  <2> QED BY <1>1, <2>1, <2>2 DEF Walks
<1> QED BY <1>3, <1>4

\* The place in the order of project and start.
Place(r) == r.proj * (SesEnd + 1) + r.s

LEMMA PlaceNumbered == \A r \in SesRow : Place(r) \in Nat
<1>1. \A a, b, c \in Nat : a * (c + 1) + b \in Nat
  OBVIOUS
<1>2. \A r \in SesRow : r.proj \in Nat /\ r.s \in Nat
  BY SesAssumption DEF SesRow, SesProjRef, NoProj
<1> QED BY <1>1, <1>2, SesAssumption DEF Place

LEMMA PlaceOrders ==
  ASSUME NEW q \in SesRow, NEW r \in SesRow, q.proj = r.proj, Place(q) < Place(r)
  PROVE  q.s < r.s
<1>1. q.s \in Nat /\ r.s \in Nat /\ r.proj \in Nat /\ SesEnd + 1 \in Nat
  BY SesAssumption DEF SesRow, SesProjRef, NoProj
<1>2. r.proj * (SesEnd + 1) \in Nat
  <2>1. \A a, b \in Nat : a * b \in Nat
    OBVIOUS
  <2> HIDE DEF Place
  <2> QED BY <1>1, <2>1
<1> DEFINE x == r.proj * (SesEnd + 1)
<1>3. Place(q) = x + q.s /\ Place(r) = x + r.s
  BY DEF Place
<1> HIDE DEF x
<1> QED BY <1>1, <1>2, <1>3 DEF x

LEMMA TurnTyped ==
  /\ LastTurn \in Nat
  /\ \A t \in Nat : \A rs \in SesTables(t) : \A n \in 1..LastTurn : \A i \in Turn(rs, n) :
       i \in 1..Len(rs) /\ i \in Visible(rs) /\ rs[i].split = 0 /\ Place(rs[i]) = n - 1
<1>1. LastTurn \in Nat
  <2>1. \A a, b \in Nat : (a + 1) * (b + 1) \in Nat
    OBVIOUS
  <2> QED BY <2>1, SesAssumption DEF LastTurn
<1> QED BY <1>1 DEF Turn, Visible, There, Place

\* The walk has merged the sessions of the first n places.
WalkedTo(rs, acc, n) ==
  /\ \A i \in 1..Len(rs) :
       /\ acc.rows[i].s = rs[i].s /\ acc.rows[i].there = rs[i].there /\ acc.rows[i].split = rs[i].split
       /\ acc.rows[i].proj = rs[i].proj /\ rs[i].e <= acc.rows[i].e
       /\ rs[i].hidden => acc.rows[i].hidden /\ acc.rows[i].e = rs[i].e
       /\ acc.rows[i].hidden /\ ~rs[i].hidden => Instants(acc.rows[i]) \subseteq ShownBy(acc.rows)
  /\ ShownBy(rs) \subseteq ShownBy(acc.rows)
  /\ acc.cur # 0 => acc.cur \in Visible(acc.rows) /\ Place(rs[acc.cur]) < n
  /\ \A i \in Visible(rs) : rs[i].split = 0 /\ n <= Place(rs[i]) => ~acc.rows[i].hidden

\* What the hidden session covered is shown by the one it was merged into.
LEMMA MergeShows ==
  ASSUME NEW t \in Nat, NEW rs \in SesTables(t), NEW us \in SesTables(t), Len(us) = Len(rs),
         NEW c \in Visible(rs), NEW i \in 1..Len(rs), c # i, rs[c].s <= rs[i].s, Merges(rs, c, i, us)
  PROVE  /\ Instants(us[i]) \subseteq ShownBy(us)
         /\ ShownBy(rs) \subseteq ShownBy(us)
         /\ Visible(us) = Visible(rs) \ {i}
<1>1. /\ Len(rs) \in Nat /\ c \in 1..Len(rs)
      /\ \A j \in 1..Len(rs) : /\ rs[j].s \in Nat /\ rs[j].e \in Nat /\ us[j].s \in Nat /\ us[j].e \in Nat
  <2>1. c \in 1..Len(rs)
    BY DEF Visible, There
  <2> QED BY <2>1, TableTyped
<1>2. Visible(us) = Visible(rs) \ {i}
  BY DEF Visible, There, Merges
<1>3. c \in Visible(us)
  BY <1>2
<1>4. ASSUME NEW x \in Instants(rs[i])
      PROVE  x \in ShownBy(us)
  <2>1. x \in rs[i].s..(rs[i].e - 1)
    BY <1>4 DEF Instants
  <2>2. us[c].s = rs[c].s /\ rs[i].e <= us[c].e
    BY <1>1 DEF Merges
  <2>3. x \in Instants(us[c])
    BY <1>1, <2>1, <2>2 DEF Instants
  <2> QED BY <1>3, <2>3 DEF ShownBy
<1>5. ASSUME NEW x \in ShownBy(rs)
      PROVE  x \in ShownBy(us)
  <2>1. PICK j \in Visible(rs) : x \in Instants(rs[j])
    BY <1>5 DEF ShownBy
  <2>2. CASE j = i
    BY <1>4, <2>1, <2>2
  <2>3. CASE j # i
    <3>1. j \in 1..Len(rs) /\ j \in Visible(us)
      BY <1>2, <2>3 DEF Visible, There
    <3>2. us[j].s = rs[j].s /\ rs[j].e <= us[j].e /\ x \in rs[j].s..(rs[j].e - 1)
      BY <2>1, <3>1 DEF Merges, Instants
    <3>3. x \in Instants(us[j])
      BY <1>1, <3>1, <3>2 DEF Instants
    <3> QED BY <3>1, <3>3 DEF ShownBy
  <2> QED BY <2>2, <2>3
<1>6. Instants(us[i]) = Instants(rs[i])
  BY DEF Merges, Instants
<1> QED BY <1>2, <1>4, <1>5, <1>6

LEMMA WalkBegins ==
  ASSUME NEW t \in Nat, NEW rs \in SesTables(t), NEW acc, acc = [rows |-> rs, cur |-> 0, into |-> <<>>]
  PROVE  acc \in Walks(t, rs) /\ WalkedTo(rs, acc, 0)
<1>1. acc.rows = rs /\ acc.cur = 0 /\ acc.into = <<>>
  OBVIOUS
<1>2. Len(rs) \in Nat /\ 0 \in 0..Len(rs) /\ \A i \in 1..Len(rs) : rs[i].e \in Nat
  BY TableTyped
<1>3. acc \in Walks(t, rs)
  <2>1. <<>> \in Seq((1..Len(rs)) \X (1..Len(rs)))
    OBVIOUS
  <2> QED BY <1>2, <2>1 DEF Walks
<1>4. WalkedTo(rs, acc, 0)
  BY <1>1, <1>2 DEF WalkedTo, Visible
<1> QED BY <1>3, <1>4

LEMMA WalkGoesOn ==
  ASSUME NEW t \in Nat, NEW rs \in SesTables(t), NEW acc \in Walks(t, rs), NEW n \in 1..LastTurn,
         WalkedTo(rs, acc, n - 1), NEW i \in Turn(rs, n),
         NEW next, next = MergeNext(acc, i)
  PROVE  WalkedTo(rs, next, n)
<1>1. /\ acc.rows \in SesTables(t) /\ Len(acc.rows) = Len(rs) /\ acc.cur \in 0..Len(rs)
      /\ acc.into \in Seq((1..Len(rs)) \X (1..Len(rs)))
      /\ acc = [rows |-> acc.rows, cur |-> acc.cur, into |-> acc.into]
  BY DEF Walks
<1>2. /\ Len(rs) \in Nat /\ n \in Nat /\ n - 1 \in Nat /\ LastTurn \in Nat
      /\ \A j \in 1..Len(rs) : /\ rs[j] \in SesRow /\ acc.rows[j] \in SesRow
                               /\ rs[j].e \in Nat /\ acc.rows[j].e \in Nat
                               /\ acc.rows[j].s \in Nat /\ rs[j].s \in Nat
  BY <1>1, TableTyped, TurnTyped
<1>3. i \in 1..Len(rs) /\ i \in Visible(rs) /\ rs[i].split = 0 /\ Place(rs[i]) = n - 1
  BY <1>2, TurnTyped
<1>4. \A j \in 1..Len(rs) : Place(rs[j]) \in Nat
  BY <1>2, PlaceNumbered
<1>5. ~acc.rows[i].hidden /\ acc.rows[i].there
  BY <1>2, <1>3 DEF WalkedTo, Visible, There
<1>6. CASE acc.cur # 0 /\ Mergeable(acc.rows[acc.cur], acc.rows[i])
  <2> DEFINE c == acc.cur
             us == MergeInto(acc.rows, c, i)
  <2>1. next.rows = us /\ next.cur = c
    BY <1>6 DEF MergeNext, MergeInto
  <2>2. c \in Visible(acc.rows) /\ Place(rs[c]) < n - 1 /\ c \in 1..Len(rs)
    BY <1>1, <1>2, <1>6 DEF WalkedTo
  <2>3. c # i
    BY <1>3, <1>4, <2>2
  <2>4. us \in SesTables(t) /\ Len(us) = Len(rs) /\ Merges(acc.rows, c, i, us)
    BY <1>1, <1>3, <2>2, <2>3, MergeTyped
  <2> HIDE DEF us
  <2>5. acc.rows[c].s <= acc.rows[i].s
    <3>1. acc.rows[c].proj = acc.rows[i].proj
      BY <1>6 DEF Mergeable
    <3>2. /\ acc.rows[c].proj = rs[c].proj /\ acc.rows[i].proj = rs[i].proj
          /\ acc.rows[c].s = rs[c].s /\ acc.rows[i].s = rs[i].s
      BY <1>3, <2>2 DEF WalkedTo
    <3>3. rs[c].s < rs[i].s
      BY <1>2, <1>3, <2>2, <3>1, <3>2, PlaceOrders
    <3> QED BY <1>2, <1>3, <2>2, <3>2, <3>3
  <2>6. /\ Instants(us[i]) \subseteq ShownBy(us)
        /\ ShownBy(acc.rows) \subseteq ShownBy(us)
        /\ Visible(us) = Visible(acc.rows) \ {i}
    <3>1. /\ acc.rows \in SesTables(t) /\ us \in SesTables(t) /\ Len(us) = Len(acc.rows)
          /\ i \in 1..Len(acc.rows) /\ c \in Visible(acc.rows) /\ Merges(acc.rows, c, i, us)
      BY <1>1, <1>3, <2>2, <2>4
    <3> HIDE DEF c
    <3> QED BY <2>3, <2>5, <3>1, MergeShows
  <2>7. ASSUME NEW j \in 1..Len(rs)
        PROVE  /\ us[j].s = rs[j].s /\ us[j].there = rs[j].there /\ us[j].split = rs[j].split
               /\ us[j].proj = rs[j].proj /\ rs[j].e <= us[j].e
               /\ rs[j].hidden => us[j].hidden /\ us[j].e = rs[j].e
    <3>1. /\ acc.rows[j].s = rs[j].s /\ acc.rows[j].there = rs[j].there /\ acc.rows[j].split = rs[j].split
          /\ acc.rows[j].proj = rs[j].proj /\ rs[j].e <= acc.rows[j].e
          /\ rs[j].hidden => acc.rows[j].hidden /\ acc.rows[j].e = rs[j].e
      BY DEF WalkedTo
    <3>2. /\ us[j].s = acc.rows[j].s /\ us[j].there = acc.rows[j].there /\ us[j].split = acc.rows[j].split
          /\ us[j].proj = acc.rows[j].proj /\ acc.rows[j].e <= us[j].e
          /\ us[j].hidden = (acc.rows[j].hidden \/ j = i) /\ (j # c => us[j].e = acc.rows[j].e)
      BY <1>1, <2>4 DEF Merges
    <3>3. us[j].e \in Nat
      BY <2>4, TableTyped
    <3>4. rs[j].e <= us[j].e
      BY <1>2, <3>1, <3>2, <3>3
    <3>5. rs[j].hidden => us[j].hidden /\ us[j].e = rs[j].e
      <4>1. acc.rows[j].hidden => j # c
        BY <2>2 DEF Visible
      <4> QED BY <3>1, <3>2, <4>1
    <3> QED BY <3>1, <3>2, <3>4, <3>5
  <2>8. ASSUME NEW j \in 1..Len(rs), us[j].hidden, ~rs[j].hidden
        PROVE  Instants(us[j]) \subseteq ShownBy(us)
    <3>1. CASE j = i
      BY <2>6, <3>1
    <3>2. CASE j # i
      <4>1. acc.rows[j].hidden
        BY <1>1, <2>4, <2>8, <3>2 DEF Merges
      <4>2. j # c
        BY <2>2, <4>1 DEF Visible
      <4>3. us[j].s = acc.rows[j].s /\ us[j].e = acc.rows[j].e
        BY <1>1, <2>4, <4>2 DEF Merges
      <4>4. Instants(acc.rows[j]) \subseteq ShownBy(acc.rows)
        BY <2>8, <4>1 DEF WalkedTo
      <4> QED BY <2>6, <4>3, <4>4 DEF Instants
    <3> QED BY <3>1, <3>2
  <2>9. ShownBy(rs) \subseteq ShownBy(us)
    BY <2>6 DEF WalkedTo
  <2>10. c \in Visible(us) /\ Place(rs[c]) < n
    BY <1>2, <1>4, <2>2, <2>3, <2>6
  <2>11. ASSUME NEW j \in Visible(rs), rs[j].split = 0, n <= Place(rs[j])
         PROVE  ~us[j].hidden
    <3>1. j \in 1..Len(rs)
      BY DEF Visible, There
    <3>2. j # i /\ n - 1 <= Place(rs[j])
      BY <1>2, <1>3, <1>4, <2>11, <3>1
    <3>3. ~acc.rows[j].hidden
      BY <2>11, <3>2 DEF WalkedTo
    <3> QED BY <1>1, <2>4, <3>1, <3>2, <3>3 DEF Merges
  <2> HIDE DEF c
  <2> QED BY <2>1, <2>7, <2>8, <2>9, <2>10, <2>11 DEF WalkedTo
<1>7. CASE ~(acc.cur # 0 /\ Mergeable(acc.rows[acc.cur], acc.rows[i]))
  <2>1. next.rows = acc.rows /\ next.cur = i
    <3>1. next = [acc EXCEPT !.cur = i]
      BY <1>7 DEF MergeNext
    <3> QED BY <1>1, <3>1
  <2>2. i \in Visible(acc.rows) /\ Place(rs[i]) < n
    BY <1>1, <1>2, <1>3, <1>5 DEF Visible, There
  <2>3. ASSUME NEW j \in Visible(rs), rs[j].split = 0, n <= Place(rs[j])
        PROVE  ~acc.rows[j].hidden
    <3>1. j \in 1..Len(rs)
      BY DEF Visible, There
    <3>2. n - 1 <= Place(rs[j])
      BY <1>2, <1>4, <2>3, <3>1
    <3> QED BY <2>3, <3>2 DEF WalkedTo
  <2> QED BY <2>1, <2>2, <2>3 DEF WalkedTo
<1> QED BY <1>6, <1>7

\* The recursion of Merged.
Walk(f, rs) ==
  f = [n \in 0..LastTurn |->
         IF n = 0 THEN [rows |-> rs, cur |-> 0, into |-> <<>>]
         ELSE IF Turn(rs, n) = {} THEN f[n - 1]
         ELSE MergeNext(f[n - 1], CHOOSE i \in Turn(rs, n) : TRUE)]

LEMMA WalkRuns ==
  ASSUME NEW t \in Nat, NEW rs \in SesTables(t)
  PROVE  \E f : Walk(f, rs)
<1> DEFINE D == Walks(t, rs)
           N == LastTurn
           b == [rows |-> rs, cur |-> 0, into |-> <<>>]
           Step(acc, n) == IF Turn(rs, n) = {} THEN acc ELSE MergeNext(acc, CHOOSE i \in Turn(rs, n) : TRUE)
           G == [q \in D \X (1..N) |-> Step(q[1], q[2])]
<1>1. N \in Nat /\ b \in D
  BY TurnTyped, WalkBegins
<1>2. G \in [D \X (1..N) -> D]
  <2>1. \A q \in D \X (1..N) : Step(q[1], q[2]) \in D
    <3> TAKE q \in D \X (1..N)
    <3>1. q[1] \in D /\ q[2] \in 1..N
      OBVIOUS
    <3>2. CASE Turn(rs, q[2]) = {}
      BY <3>1, <3>2
    <3>3. CASE Turn(rs, q[2]) # {}
      <4> DEFINE i == CHOOSE i \in Turn(rs, q[2]) : TRUE
      <4>1. i \in Turn(rs, q[2])
        BY <3>3
      <4>2. i \in 1..Len(rs)
        BY <3>1, <4>1, TurnTyped
      <4>3. Step(q[1], q[2]) = MergeNext(q[1], i)
        BY <3>3
      <4> HIDE DEF i, Step
      <4> QED BY <3>1, <4>2, <4>3, WalkTyped
    <3> HIDE DEF D, Step
    <3> QED BY <3>2, <3>3
  <2> HIDE DEF D, Step, N
  <2> QED BY <2>1
<1>3. PICK f \in [0..N -> D] : Runs(f, N, b, G)
  <2> HIDE DEF G, D, N, b
  <2> QED BY <1>1, <1>2, Recursion
<1>4. \A n \in 1..N : f[n] = Step(f[n - 1], n)
  <2> TAKE n \in 1..N
  <2>1. <<f[n - 1], n>> \in D \X (1..N)
    <3> HIDE DEF D, N
    <3> QED BY <1>1
  <2>2. f[n] = G[<<f[n - 1], n>>]
    <3> HIDE DEF G, D, N, b
    <3> QED BY <1>3 DEF Runs
  <2> HIDE DEF D, N, Step, b
  <2> QED BY <2>1, <2>2
<1>5. f[0] = b
  BY <1>3 DEF Runs
<1>6. Walk(f, rs)
  <2> DEFINE g == [n \in 0..N |-> IF n = 0 THEN b ELSE Step(f[n - 1], n)]
  <2>1. ASSUME NEW n \in 0..N
        PROVE  f[n] = g[n]
    <3>1. CASE n = 0
      BY <1>5, <3>1
    <3>2. CASE n # 0
      <4>1. n \in 1..N
        <5> HIDE DEF N
        <5> QED BY <1>1, <3>2
      <4> HIDE DEF Step, b, N
      <4> QED BY <1>4, <3>2, <4>1
    <3> QED BY <3>1, <3>2
  <2>2. f = g
    <3>1. DOMAIN f = 0..N /\ f = [n \in 0..N |-> f[n]]
      <4> HIDE DEF D, N
      <4> QED BY <1>3
    <3>2. g = [n \in 0..N |-> g[n]]
      <4> HIDE DEF Step, b, N
      <4> QED OBVIOUS
    <3> HIDE DEF g, N
    <3> QED BY <2>1, <3>1, <3>2
  <2> QED BY <2>2 DEF Walk
<1> QED BY <1>6

LEMMA MergedKeeps ==
  ASSUME NEW t \in Nat, NEW rs \in SesTables(t)
  PROVE  Merged(rs) \in Walks(t, rs) /\ WalkedTo(rs, Merged(rs), LastTurn)
<1> DEFINE T == CHOOSE f : Walk(f, rs)
           N == LastTurn
           S == {n \in 0..N : T[n] \in Walks(t, rs) /\ WalkedTo(rs, T[n], n)}
<1>1. N \in Nat
  BY TurnTyped
<1>2. Walk(T, rs)
  BY WalkRuns
<1>3. Merged(rs) = T[N]
  BY DEF Merged, Walk
<1> HIDE DEF T
<1>4. /\ T[0] = [rows |-> rs, cur |-> 0, into |-> <<>>]
      /\ \A n \in 1..N : T[n] = IF Turn(rs, n) = {} THEN T[n - 1]
                                ELSE MergeNext(T[n - 1], CHOOSE i \in Turn(rs, n) : TRUE)
  BY <1>1, <1>2 DEF Walk
<1>5. 0 \in S
  BY <1>1, <1>4, WalkBegins
<1>6. ASSUME NEW n \in 1..N, n - 1 \in S
      PROVE  n \in S
  <2>1. T[n - 1] \in Walks(t, rs) /\ WalkedTo(rs, T[n - 1], n - 1)
    BY <1>6
  <2>2. CASE Turn(rs, n) = {}
    <3>1. T[n] = T[n - 1]
      BY <1>4, <2>2
    <3>2. \A i \in Visible(rs) : rs[i].split = 0 => Place(rs[i]) \in Nat /\ Place(rs[i]) # n - 1
      <4> TAKE i \in Visible(rs)
      <4>1. rs[i] \in SesRow
        BY TableTyped DEF Visible, There
      <4>2. Place(rs[i]) \in Nat
        BY <4>1, PlaceNumbered
      <4> QED BY <2>2, <4>2 DEF Turn, Place
    <3>3. ASSUME NEW i \in Visible(rs), rs[i].split = 0, n <= Place(rs[i])
          PROVE  n - 1 <= Place(rs[i])
      BY <1>1, <3>2, <3>3
    <3>4. \A x \in Nat : x < n - 1 => x < n
      BY <1>1
    <3>5. WalkedTo(rs, T[n - 1], n)
      <4>1. T[n - 1].cur # 0 => Place(rs[T[n - 1].cur]) < n
        <5> SUFFICES ASSUME T[n - 1].cur # 0
                     PROVE  Place(rs[T[n - 1].cur]) < n
          OBVIOUS
        <5> DEFINE c == T[n - 1].cur
        <5>1. c \in 0..Len(rs) /\ Len(rs) \in Nat /\ Place(rs[c]) < n - 1
          BY <2>1, TableTyped DEF WalkedTo, Walks
        <5>2. rs[c] \in SesRow
          BY <5>1, TableTyped
        <5>3. Place(rs[c]) \in Nat
          BY <5>2, PlaceNumbered
        <5> QED BY <3>4, <5>1, <5>3
      <4> QED BY <2>1, <3>3, <4>1 DEF WalkedTo
    <3> QED BY <1>1, <2>1, <3>1, <3>5
  <2>3. CASE Turn(rs, n) # {}
    <3> DEFINE i == CHOOSE i \in Turn(rs, n) : TRUE
    <3>1. i \in Turn(rs, n)
      BY <2>3
    <3>2. T[n] = MergeNext(T[n - 1], i)
      BY <1>4, <2>3
    <3> HIDE DEF i
    <3>3. i \in 1..Len(rs)
      BY <3>1, TurnTyped
    <3>4. T[n] \in Walks(t, rs)
      BY <2>1, <3>2, <3>3, WalkTyped
    <3>5. WalkedTo(rs, T[n], n)
      BY <2>1, <3>1, <3>2, WalkGoesOn
    <3> QED BY <3>4, <3>5
  <2> QED BY <2>2, <2>3
<1>7. N \in S
  <2> HIDE DEF S
  <2>1. \A n \in 0..N : n \in S
    BY <1>1, <1>5, <1>6, Counting
  <2> QED BY <1>1, <2>1
<1> QED BY <1>3, <1>7

-----------------------------------------------------------------------------
(* Sessions in the dashboard: overrides. *)

\* The recursion of Without.
KeepNext(s, os, D, n) == IF n \in D THEN s ELSE Append(s, os[n])
Keeps(f, os, D) == f = [n \in 0..Len(os) |-> IF n = 0 THEN <<>> ELSE KeepNext(f[n - 1], os, D, n)]

LEMMA KeepsRuns ==
  ASSUME NEW os \in Seq(SesOverride), NEW X
  PROVE  \E f : Keeps(f, os, X)
<1> DEFINE D == Seq(SesOverride)
           N == Len(os)
           Step(s, n) == KeepNext(s, os, X, n)
           G == [q \in D \X (1..N) |-> Step(q[1], q[2])]
<1>1. N \in Nat /\ <<>> \in D
  OBVIOUS
<1>2. G \in [D \X (1..N) -> D]
  <2>1. \A q \in D \X (1..N) : Step(q[1], q[2]) \in D
    BY DEF KeepNext
  <2> HIDE DEF D, Step, N
  <2> QED BY <2>1
<1>3. PICK f \in [0..N -> D] : Runs(f, N, <<>>, G)
  <2> HIDE DEF G, D, N
  <2> QED BY <1>1, <1>2, Recursion
<1>4. \A n \in 1..N : f[n] = Step(f[n - 1], n)
  <2> TAKE n \in 1..N
  <2>1. <<f[n - 1], n>> \in D \X (1..N)
    <3> HIDE DEF D, N
    <3> QED BY <1>1
  <2>2. f[n] = G[<<f[n - 1], n>>]
    <3> HIDE DEF G, D, N
    <3> QED BY <1>3 DEF Runs
  <2> HIDE DEF D, N, Step
  <2> QED BY <2>1, <2>2
<1>5. f[0] = <<>>
  BY <1>3 DEF Runs
<1>6. Keeps(f, os, X)
  <2> HIDE DEF D
  <2> QED BY <1>1, <1>3, <1>4, <1>5 DEF Keeps
<1> QED BY <1>6

KeptUpTo(os, X, n) == {os[k] : k \in (1..n) \ X}

LEMMA AppendedIs ==
  ASSUME NEW os \in Seq(SesOverride), NEW o \in SesOverride
  PROVE  Append(os, o) \in Seq(SesOverride) /\ OverridesIn(Append(os, o)) = OverridesIn(os) \cup {o}
<1> DEFINE ps == Append(os, o)
<1>1. /\ Len(os) \in Nat /\ ps \in Seq(SesOverride) /\ Len(ps) = Len(os) + 1 /\ ps[Len(os) + 1] = o
      /\ \A k \in 1..Len(os) : ps[k] = os[k]
  OBVIOUS
<1> HIDE DEF ps
<1>2. \A k \in 1..Len(ps) : k \in 1..Len(os) \/ k = Len(os) + 1
  BY <1>1
<1>3. OverridesIn(ps) \subseteq OverridesIn(os) \cup {o}
  BY <1>1, <1>2 DEF OverridesIn
<1>4. OverridesIn(os) \cup {o} \subseteq OverridesIn(ps)
  <2>1. Len(os) + 1 \in 1..Len(ps) /\ 1..Len(os) \subseteq 1..Len(ps)
    BY <1>1
  <2> QED BY <1>1, <2>1 DEF OverridesIn
<1> QED BY <1>1, <1>3, <1>4 DEF ps

LEMMA WithoutIs ==
  ASSUME NEW os \in Seq(SesOverride), NEW X
  PROVE  Without(os, X) \in Seq(SesOverride) /\ OverridesIn(Without(os, X)) = KeptUpTo(os, X, Len(os))
<1> DEFINE T == CHOOSE f : Keeps(f, os, X)
           N == Len(os)
           S == {n \in 0..N : T[n] \in Seq(SesOverride) /\ OverridesIn(T[n]) = KeptUpTo(os, X, n)}
<1>1. N \in Nat
  OBVIOUS
<1>2. Keeps(T, os, X)
  BY KeepsRuns
<1>3. Without(os, X) = T[N]
  BY DEF Without, Keeps, KeepNext
<1> HIDE DEF T
<1>4. /\ T[0] = <<>>
      /\ \A n \in 1..N : T[n] = KeepNext(T[n - 1], os, X, n)
  BY <1>1, <1>2 DEF Keeps
<1>5. 0 \in S
  <2>1. OverridesIn(<<>>) = {} /\ KeptUpTo(os, X, 0) = {}
    <3>1. Len(<<>>) = 0 /\ 1..0 = {}
      OBVIOUS
    <3> QED BY <3>1 DEF OverridesIn, KeptUpTo
  <2>2. T[0] \in Seq(SesOverride) /\ OverridesIn(T[0]) = KeptUpTo(os, X, 0)
    <3>1. <<>> \in Seq(SesOverride)
      OBVIOUS
    <3> QED BY <1>4, <2>1, <3>1
  <2> QED BY <1>1, <2>2
<1>6. ASSUME NEW n \in 1..N, n - 1 \in S
      PROVE  n \in S
  <2>1. T[n - 1] \in Seq(SesOverride) /\ OverridesIn(T[n - 1]) = KeptUpTo(os, X, n - 1)
    BY <1>6
  <2>2. 1..n = (1..(n - 1)) \cup {n}
    BY <1>1
  <2>3. CASE n \in X
    <3>1. KeptUpTo(os, X, n) = KeptUpTo(os, X, n - 1)
      <4>1. (1..n) \ X = (1..(n - 1)) \ X
        BY <2>2, <2>3
      <4> QED BY <4>1 DEF KeptUpTo
    <3>2. T[n] = T[n - 1]
      BY <1>4, <2>3 DEF KeepNext
    <3> QED BY <1>1, <2>1, <3>1, <3>2
  <2>4. CASE n \notin X
    <3>1. KeptUpTo(os, X, n) = KeptUpTo(os, X, n - 1) \cup {os[n]}
      <4>1. (1..n) \ X = ((1..(n - 1)) \ X) \cup {n}
        BY <2>2, <2>4
      <4> QED BY <4>1 DEF KeptUpTo
    <3>2. T[n] = Append(T[n - 1], os[n]) /\ os[n] \in SesOverride
      <4>1. os[n] \in SesOverride
        OBVIOUS
      <4>2. KeepNext(T[n - 1], os, X, n) = Append(T[n - 1], os[n])
        BY <2>4 DEF KeepNext
      <4> QED BY <1>4, <4>1, <4>2
    <3>3. T[n] \in Seq(SesOverride) /\ OverridesIn(T[n]) = OverridesIn(T[n - 1]) \cup {os[n]}
      BY <2>1, <3>2, AppendedIs
    <3>4. OverridesIn(T[n]) = KeptUpTo(os, X, n)
      BY <2>1, <3>1, <3>3
    <3> QED BY <1>1, <3>3, <3>4
  <2> QED BY <2>3, <2>4
<1>7. N \in S
  <2> HIDE DEF S
  <2>1. \A n \in 0..N : n \in S
    BY <1>1, <1>5, <1>6, Counting
  <2> QED BY <1>1, <2>1
<1> QED BY <1>3, <1>7

\* The overrides after those of one session have been moved to another one.
LEMMA MoveIs ==
  ASSUME NEW os \in Seq(SesOverride), NEW i \in 1..MaxRows, NEW c \in 1..MaxRows,
         IntervalsApart(OverridesIn(os)), NEW ns, ns = MoveOverride(os, <<i, c>>)
  PROVE  /\ ns \in Seq(SesOverride) /\ IntervalsApart(OverridesIn(ns))
         /\ \A o \in OverridesIn(os) : o.id # i => o \in OverridesIn(ns)
         /\ \A o \in OverridesIn(ns) : o \in OverridesIn(os) \/ o.id = c
<1> DEFINE own == OverridesOf(os, i)
           ws == Without(os, own)
<1>1. /\ Len(os) \in Nat /\ own = {k \in 1..Len(os) : os[k].id = i}
      /\ \A k \in 1..Len(os) : os[k] \in SesOverride
  BY DEF OverridesOf
<1>2. ws \in Seq(SesOverride) /\ OverridesIn(ws) = KeptUpTo(os, own, Len(os))
  BY WithoutIs
<1>3. OverridesIn(ws) = {o \in OverridesIn(os) : o.id # i}
  BY <1>1, <1>2 DEF KeptUpTo, OverridesIn
<1>4. CASE own = {}
  BY <1>4 DEF MoveOverride
<1>5. CASE own # {} /\ OverridesOf(os, c) # {}
  <2>1. ns = ws
    BY <1>5 DEF MoveOverride
  <2> HIDE DEF ws, own
  <2> QED BY <1>2, <1>3, <2>1 DEF IntervalsApart
<1>6. CASE own # {} /\ OverridesOf(os, c) = {}
  <2> DEFINE k == CHOOSE k \in own : TRUE
             m == [os[k] EXCEPT !.id = c]
  <2>1. k \in own
    BY <1>6
  <2>2. ns = Append(ws, m)
    BY <1>6 DEF MoveOverride
  <2> HIDE DEF k
  <2>3. os[k] \in OverridesIn(os) /\ os[k] \in SesOverride /\ os[k].id = i
    BY <1>1, <2>1 DEF OverridesIn
  <2>4. m \in SesOverride /\ m.id = c /\ m.s = os[k].s /\ m.e = os[k].e
    BY <2>3 DEF SesOverride
  <2> HIDE DEF m, ws, own
  <2>5. ns \in Seq(SesOverride) /\ OverridesIn(ns) = OverridesIn(ws) \cup {m}
    BY <1>2, <2>2, <2>4, AppendedIs
  <2>6. \A o \in OverridesIn(ws) : ~(o.s = m.s /\ o.e = m.e)
    BY <1>3, <2>3, <2>4 DEF IntervalsApart
  <2>7. IntervalsApart(OverridesIn(ns))
    <3> SUFFICES ASSUME NEW o \in OverridesIn(ns), NEW p \in OverridesIn(ns), o.s = p.s, o.e = p.e
                 PROVE  o = p
      BY DEF IntervalsApart
    <3>1. CASE o = m
      BY <2>5, <2>6, <3>1
    <3>2. CASE p = m
      BY <2>5, <2>6, <3>2
    <3>3. CASE o # m /\ p # m
      BY <1>3, <2>5, <3>3 DEF IntervalsApart
    <3> QED BY <3>1, <3>2, <3>3
  <2> QED BY <1>3, <2>4, <2>5, <2>7
<1> QED BY <1>4, <1>5, <1>6

\* The recursion of MovedOverrides.
Moves(f, os, into) ==
  f = [n \in 0..Len(into) |-> IF n = 0 THEN os ELSE MoveOverride(f[n - 1], into[n])]

LEMMA MovesRuns ==
  ASSUME NEW os \in Seq(SesOverride), IntervalsApart(OverridesIn(os)),
         NEW B \in SUBSET (1..MaxRows), NEW into \in Seq(B \X B)
  PROVE  \E f : Moves(f, os, into)
<1> DEFINE D == {s \in Seq(SesOverride) : IntervalsApart(OverridesIn(s))}
           N == Len(into)
           Step(s, n) == MoveOverride(s, into[n])
           G == [q \in D \X (1..N) |-> Step(q[1], q[2])]
<1>1. N \in Nat /\ os \in D
  OBVIOUS
<1>2. G \in [D \X (1..N) -> D]
  <2>1. \A q \in D \X (1..N) : Step(q[1], q[2]) \in D
    <3> TAKE q \in D \X (1..N)
    <3>1. q[1] \in Seq(SesOverride) /\ IntervalsApart(OverridesIn(q[1])) /\ q[2] \in 1..N
      OBVIOUS
    <3>2. PICK i \in B, c \in B : into[q[2]] = <<i, c>>
      <4>1. into[q[2]] \in B \X B
        BY <3>1
      <4>2. \A x \in B \X B : x[1] \in B /\ x[2] \in B /\ x = <<x[1], x[2]>>
        OBVIOUS
      <4> QED BY <4>1, <4>2
    <3>3. i \in 1..MaxRows /\ c \in 1..MaxRows /\ Step(q[1], q[2]) = MoveOverride(q[1], <<i, c>>)
      BY <3>2
    <3> HIDE DEF Step
    <3>4. Step(q[1], q[2]) \in Seq(SesOverride) /\ IntervalsApart(OverridesIn(Step(q[1], q[2])))
      BY <3>1, <3>3, MoveIs
    <3> QED BY <3>4
  <2> HIDE DEF D, Step, N
  <2> QED BY <2>1
<1>3. PICK f \in [0..N -> D] : Runs(f, N, os, G)
  <2> HIDE DEF G, D, N
  <2> QED BY <1>1, <1>2, Recursion
<1>4. \A n \in 1..N : f[n] = Step(f[n - 1], n)
  <2> TAKE n \in 1..N
  <2>1. <<f[n - 1], n>> \in D \X (1..N)
    <3> HIDE DEF D, N
    <3> QED BY <1>1
  <2>2. f[n] = G[<<f[n - 1], n>>]
    <3> HIDE DEF G, D, N
    <3> QED BY <1>3 DEF Runs
  <2> HIDE DEF D, N, Step
  <2> QED BY <2>1, <2>2
<1>5. f[0] = os
  BY <1>3 DEF Runs
<1>6. Moves(f, os, into)
  <2> HIDE DEF D
  <2> QED BY <1>1, <1>3, <1>4, <1>5 DEF Moves
<1> QED BY <1>6

\* Only overrides of merged sessions change, and only to another one of them.
LEMMA MovedIs ==
  ASSUME NEW os \in Seq(SesOverride), IntervalsApart(OverridesIn(os)),
         NEW B \in SUBSET (1..MaxRows), NEW into \in Seq(B \X B), NEW ns, ns = MovedOverrides(os, into)
  PROVE  /\ ns \in Seq(SesOverride) /\ IntervalsApart(OverridesIn(ns))
         /\ \A o \in OverridesIn(os) : o.id \notin B => o \in OverridesIn(ns)
         /\ \A o \in OverridesIn(ns) : o \in OverridesIn(os) \/ o.id \in B
<1> DEFINE T == CHOOSE f : Moves(f, os, into)
           N == Len(into)
           S == {n \in 0..N :
                  /\ T[n] \in Seq(SesOverride) /\ IntervalsApart(OverridesIn(T[n]))
                  /\ \A o \in OverridesIn(os) : o.id \notin B => o \in OverridesIn(T[n])
                  /\ \A o \in OverridesIn(T[n]) : o \in OverridesIn(os) \/ o.id \in B}
<1>1. N \in Nat
  OBVIOUS
<1>2. Moves(T, os, into)
  BY MovesRuns
<1>3. ns = T[N]
  BY DEF MovedOverrides, Moves
<1> HIDE DEF T
<1>4. T[0] = os /\ \A n \in 1..N : T[n] = MoveOverride(T[n - 1], into[n])
  BY <1>1, <1>2 DEF Moves
<1>5. 0 \in S
  BY <1>1, <1>4
<1>6. ASSUME NEW n \in 1..N, n - 1 \in S
      PROVE  n \in S
  <2>1. /\ T[n - 1] \in Seq(SesOverride) /\ IntervalsApart(OverridesIn(T[n - 1]))
        /\ \A o \in OverridesIn(os) : o.id \notin B => o \in OverridesIn(T[n - 1])
        /\ \A o \in OverridesIn(T[n - 1]) : o \in OverridesIn(os) \/ o.id \in B
    BY <1>6
  <2>2. PICK i \in B, c \in B : into[n] = <<i, c>>
    <3>1. into[n] \in B \X B
      OBVIOUS
    <3>2. \A x \in B \X B : x[1] \in B /\ x[2] \in B /\ x = <<x[1], x[2]>>
      OBVIOUS
    <3> QED BY <3>1, <3>2
  <2>3. i \in 1..MaxRows /\ c \in 1..MaxRows /\ T[n] = MoveOverride(T[n - 1], <<i, c>>)
    BY <1>4, <2>2
  <2>4. /\ T[n] \in Seq(SesOverride) /\ IntervalsApart(OverridesIn(T[n]))
        /\ \A o \in OverridesIn(T[n - 1]) : o.id # i => o \in OverridesIn(T[n])
        /\ \A o \in OverridesIn(T[n]) : o \in OverridesIn(T[n - 1]) \/ o.id = c
    <3> DEFINE s == T[n - 1]
               u == T[n]
    <3>1. s \in Seq(SesOverride) /\ IntervalsApart(OverridesIn(s)) /\ u = MoveOverride(s, <<i, c>>)
      BY <2>1, <2>3
    <3> HIDE DEF s, u
    <3>0. i \in 1..MaxRows /\ c \in 1..MaxRows
      BY <2>3
    <3>2. /\ u \in Seq(SesOverride) /\ IntervalsApart(OverridesIn(u))
          /\ \A o \in OverridesIn(s) : o.id # i => o \in OverridesIn(u)
          /\ \A o \in OverridesIn(u) : o \in OverridesIn(s) \/ o.id = c
      BY <3>0, <3>1, MoveIs, ZenonT(60)
    <3> QED BY <3>2 DEF s, u
  <2> QED BY <2>1, <2>4
<1>7. N \in S
  <2> HIDE DEF S
  <2>1. \A n \in 0..N : n \in S
    BY <1>1, <1>5, <1>6, Counting
  <2> QED BY <1>1, <2>1
<1> QED BY <1>3, <1>7

\* A command records its override in place of those of its interval and its session.
LEMMA RecordedIs ==
  ASSUME NEW os \in Seq(SesOverride), NEW id \in 1..MaxRows, NEW r \in SesRow, NEW p \in SesProjRef,
         ~OverrideFails(os, id, r), IntervalsApart(OverridesIn(os)),
         NEW ns, ns = upsert_manual_session_override(os, id, r, p),
         NEW m, m = [id |-> id, s |-> r.s, e |-> r.e, proj |-> p]
  PROVE  /\ ns \in Seq(SesOverride) /\ m \in SesOverride
         /\ OverridesIn(ns) = {o \in OverridesIn(os) : o.id # id /\ ~(o.s = r.s /\ o.e = r.e)} \cup {m}
         /\ IntervalsApart(OverridesIn(ns))
<1> DEFINE X == OverridesAt(os, r) \cup OverridesOf(os, id)
           ws == Without(os, X)
<1>1. ns = Append(ws, m)
  BY DEF upsert_manual_session_override
<1>2. m \in SesOverride /\ m.id = id /\ m.s = r.s /\ m.e = r.e
  BY DEF SesRow, SesOverride
<1>3. ws \in Seq(SesOverride) /\ OverridesIn(ws) = KeptUpTo(os, X, Len(os))
  BY WithoutIs
<1>4. OverridesIn(ws) = {o \in OverridesIn(os) : o.id # id /\ ~(o.s = r.s /\ o.e = r.e)}
  BY <1>3 DEF KeptUpTo, OverridesIn, OverridesAt, OverridesOf
<1> HIDE DEF ws
<1>5. ns \in Seq(SesOverride) /\ OverridesIn(ns) = OverridesIn(ws) \cup {m}
  BY <1>1, <1>2, <1>3, AppendedIs
<1>6. IntervalsApart(OverridesIn(ns))
  <2> SUFFICES ASSUME NEW o \in OverridesIn(ns), NEW q \in OverridesIn(ns), o.s = q.s, o.e = q.e
               PROVE  o = q
    BY DEF IntervalsApart
  <2>1. CASE o = m
    BY <1>2, <1>4, <1>5, <2>1
  <2>2. CASE q = m
    BY <1>2, <1>4, <1>5, <2>2
  <2>3. CASE o # m /\ q # m
    BY <1>4, <1>5, <2>3 DEF IntervalsApart
  <2> QED BY <2>1, <2>2, <2>3
<1> QED BY <1>2, <1>4, <1>5, <1>6

\* The sessions after, which differ in their projects only.
SameTimes(rs, us) ==
  /\ Len(us) = Len(rs)
  /\ \A i \in 1..Len(rs) :
       /\ us[i].s = rs[i].s /\ us[i].e = rs[i].e /\ us[i].there = rs[i].there
       /\ us[i].hidden = rs[i].hidden /\ us[i].split = rs[i].split

InProject(r, p) == [r EXCEPT !.proj = p]

LEMMA InProjectIs ==
  ASSUME NEW t \in Nat, NEW r \in SesRow, FitsUntil(r, t), NEW p \in SesProjRef, NEW u, u = InProject(r, p)
  PROVE  /\ u \in SesRow /\ FitsUntil(u, t) /\ u.s = r.s /\ u.e = r.e /\ u.there = r.there
         /\ u.hidden = r.hidden /\ u.split = r.split /\ u.proj = p
<1>1. /\ u \in SesRow /\ u.s = r.s /\ u.e = r.e /\ u.dur = r.dur /\ u.there = r.there
      /\ u.hidden = r.hidden /\ u.split = r.split /\ u.proj = p
  BY DEF SesRow, InProject
<1> QED BY <1>1 DEF FitsUntil

LEMMA SameTables ==
  ASSUME NEW t \in Nat, NEW rs \in SesTables(t), NEW us \in Seq(SesRow), SameTimes(rs, us),
         \A i \in 1..Len(rs) : FitsUntil(us[i], t)
  PROVE  us \in SesTables(t) /\ There(us) = There(rs) /\ ShownBy(us) = ShownBy(rs)
<1>1. There(us) = There(rs) /\ Visible(us) = Visible(rs)
  BY DEF SameTimes, There, Visible
<1>2. \A i \in There(rs) : us[i].s = rs[i].s /\ Instants(us[i]) = Instants(rs[i])
  BY DEF SameTimes, There, Instants
<1>3. StartsApart(us)
  BY <1>1, <1>2, TableTyped DEF StartsApart
<1>4. us \in SesTables(t)
  BY <1>3 DEF SesTables, SameTimes
<1>5. ShownBy(us) = ShownBy(rs)
  <2>1. \A i \in Visible(rs) : Instants(us[i]) = Instants(rs[i])
    BY <1>2 DEF Visible
  <2> QED BY <1>1, <2>1 DEF ShownBy
<1> QED BY <1>1, <1>4, <1>5

LEMMA AppliedIs ==
  ASSUME NEW t \in Nat, NEW rs \in SesTables(t), NEW o \in SesOverride, NEW us, us = ApplyOverride(rs, o)
  PROVE  /\ us \in SesTables(t) /\ SameTimes(rs, us)
         /\ \A i \in 1..Len(rs) : us[i].proj = IF i \in Targets(rs, o) THEN o.proj ELSE rs[i].proj
<1>1. /\ Len(rs) \in Nat /\ rs \in Seq(SesRow)
      /\ \A i \in 1..Len(rs) : rs[i] \in SesRow /\ FitsUntil(rs[i], t)
  BY TableTyped
<1>2. us = [i \in 1..Len(rs) |-> IF i \in Targets(rs, o) THEN InProject(rs[i], o.proj) ELSE rs[i]]
  BY DEF ApplyOverride, InProject
<1>3. ASSUME NEW i \in 1..Len(rs)
      PROVE  /\ us[i] \in SesRow /\ FitsUntil(us[i], t)
             /\ us[i].s = rs[i].s /\ us[i].e = rs[i].e /\ us[i].there = rs[i].there
             /\ us[i].hidden = rs[i].hidden /\ us[i].split = rs[i].split
             /\ us[i].proj = IF i \in Targets(rs, o) THEN o.proj ELSE rs[i].proj
  <2>1. CASE i \in Targets(rs, o)
    <3>1. us[i] = InProject(rs[i], o.proj) /\ o.proj \in SesProjRef
      BY <1>2, <2>1 DEF SesOverride
    <3>2. rs[i] \in SesRow /\ FitsUntil(rs[i], t)
      BY <1>1
    <3> DEFINE u == us[i]
               r == rs[i]
    <3>3. u = InProject(r, o.proj) /\ r \in SesRow /\ FitsUntil(r, t)
      BY <3>1, <3>2
    <3> HIDE DEF u, r
    <3>4. /\ u \in SesRow /\ FitsUntil(u, t) /\ u.s = r.s /\ u.e = r.e /\ u.there = r.there
          /\ u.hidden = r.hidden /\ u.split = r.split /\ u.proj = o.proj
      BY <3>1, <3>3, InProjectIs
    <3> QED BY <2>1, <3>4 DEF u, r
  <2>2. CASE i \notin Targets(rs, o)
    <3>1. us[i] = rs[i]
      BY <1>2, <2>2
    <3> QED BY <1>1, <2>2, <3>1
  <2> QED BY <2>1, <2>2
<1>4. us \in Seq(SesRow) /\ Len(us) = Len(rs)
  <2>1. us = [i \in 1..Len(rs) |-> us[i]]
    BY <1>2
  <2> QED BY <1>1, <1>3, <2>1
<1>5. SameTimes(rs, us)
  BY <1>3, <1>4 DEF SameTimes
<1> QED BY <1>3, <1>4, <1>5, SameTables

\* The recursion of apply_manual_session_overrides.
Newest(n) == overrides[Len(overrides) - n + 1]
Reapplies(f, rs) ==
  f = [n \in 0..Len(overrides) |-> IF n = 0 THEN rs ELSE ApplyOverride(f[n - 1], Newest(n))]

LEMMA ReappliesRuns ==
  ASSUME NEW t \in Nat, NEW rs \in SesTables(t), overrides \in Seq(SesOverride)
  PROVE  \E f : Reapplies(f, rs)
<1> DEFINE D == SesTables(t)
           N == Len(overrides)
           Step(us, n) == ApplyOverride(us, Newest(n))
           G == [q \in D \X (1..N) |-> Step(q[1], q[2])]
<1>1. N \in Nat /\ rs \in D /\ \A n \in 1..N : Newest(n) \in SesOverride
  <2>1. \A n \in 1..N : N - n + 1 \in 1..N
    OBVIOUS
  <2> QED BY <2>1 DEF Newest
<1>2. G \in [D \X (1..N) -> D]
  <2>1. \A q \in D \X (1..N) : Step(q[1], q[2]) \in D
    <3> TAKE q \in D \X (1..N)
    <3>1. q[1] \in D /\ q[2] \in 1..N
      OBVIOUS
    <3>2. Newest(q[2]) \in SesOverride
      BY <1>1, <3>1
    <3> QED BY <3>1, <3>2, AppliedIs
  <2> HIDE DEF D, Step, N
  <2> QED BY <2>1
<1>3. PICK f \in [0..N -> D] : Runs(f, N, rs, G)
  <2> HIDE DEF G, D, N
  <2> QED BY <1>1, <1>2, Recursion
<1>4. \A n \in 1..N : f[n] = Step(f[n - 1], n)
  <2> TAKE n \in 1..N
  <2>1. <<f[n - 1], n>> \in D \X (1..N)
    <3> HIDE DEF D, N
    <3> QED BY <1>1
  <2>2. f[n] = G[<<f[n - 1], n>>]
    <3> HIDE DEF G, D, N
    <3> QED BY <1>3 DEF Runs
  <2> HIDE DEF D, N, Step
  <2> QED BY <2>1, <2>2
<1>5. f[0] = rs
  BY <1>3 DEF Runs
<1>6. Reapplies(f, rs)
  <2> HIDE DEF D
  <2> QED BY <1>1, <1>3, <1>4, <1>5 DEF Reapplies
<1> QED BY <1>6

\* An override that reaches the session, when all that do have its project.
Agreed(rs, i, p, n) ==
  /\ \A o \in OverridesIn(overrides) : i \in Targets(rs, o) => o.proj = p
  /\ \E k \in 1..n : i \in Targets(rs, Newest(k))

LEMMA ReappliedIs ==
  ASSUME NEW t \in Nat, NEW rs \in SesTables(t), overrides \in Seq(SesOverride),
         NEW us, us = apply_manual_session_overrides(rs)
  PROVE  /\ us \in SesTables(t) /\ SameTimes(rs, us)
         /\ \A i \in 1..Len(rs) : \A p \in SesProjRef : Agreed(rs, i, p, Len(overrides)) => us[i].proj = p
<1> DEFINE T == CHOOSE f : Reapplies(f, rs)
           N == Len(overrides)
           S == {n \in 0..N :
                  /\ T[n] \in SesTables(t) /\ SameTimes(rs, T[n])
                  /\ \A i \in 1..Len(rs) : \A p \in SesProjRef : Agreed(rs, i, p, n) => T[n][i].proj = p}
<1>1. N \in Nat /\ \A n \in 1..N : Newest(n) \in SesOverride /\ Newest(n) \in OverridesIn(overrides)
  <2>1. \A n \in 1..N : N - n + 1 \in 1..N
    OBVIOUS
  <2> QED BY <2>1 DEF Newest, OverridesIn
<1>2. Reapplies(T, rs)
  BY ReappliesRuns
<1>3. us = T[N]
  BY DEF apply_manual_session_overrides, Reapplies, Newest
<1> HIDE DEF T
<1>4. T[0] = rs /\ \A n \in 1..N : T[n] = ApplyOverride(T[n - 1], Newest(n))
  BY <1>1, <1>2 DEF Reapplies
<1>5. 0 \in S
  <2>1. SameTimes(rs, rs)
    BY DEF SameTimes
  <2>2. \A i \in 1..Len(rs) : \A p \in SesProjRef : ~Agreed(rs, i, p, 0)
    BY DEF Agreed
  <2> QED BY <1>1, <1>4, <2>1, <2>2
<1>6. ASSUME NEW n \in 1..N, n - 1 \in S
      PROVE  n \in S
  <2> DEFINE vs == T[n - 1]
             ws == T[n]
             o == Newest(n)
  <2>1. /\ vs \in SesTables(t) /\ SameTimes(rs, vs)
        /\ \A i \in 1..Len(rs) : \A p \in SesProjRef : Agreed(rs, i, p, n - 1) => vs[i].proj = p
    BY <1>6
  <2>2. o \in SesOverride /\ o \in OverridesIn(overrides) /\ ws = ApplyOverride(vs, o)
    BY <1>1, <1>4
  <2> HIDE DEF vs, ws
  <2>3. /\ ws \in SesTables(t) /\ SameTimes(vs, ws)
        /\ \A i \in 1..Len(vs) : ws[i].proj = IF i \in Targets(vs, o) THEN o.proj ELSE vs[i].proj
    <3> HIDE DEF o
    <3> QED BY <2>1, <2>2, AppliedIs
  <2>4. SameTimes(rs, ws)
    BY <2>1, <2>3 DEF SameTimes
  <2>5. Targets(vs, o) = Targets(rs, o)
    <3>1. There(vs) = There(rs)
      BY <2>1 DEF SameTimes, There
    <3>2. \A i \in There(rs) : vs[i].s = rs[i].s /\ vs[i].e = rs[i].e
      BY <2>1 DEF SameTimes, There
    <3> HIDE DEF o
    <3> QED BY <3>1, <3>2 DEF Targets
  <2>6. ASSUME NEW i \in 1..Len(rs), NEW p \in SesProjRef, Agreed(rs, i, p, n)
        PROVE  ws[i].proj = p
    <3>1. i \in 1..Len(vs)
      BY <2>1 DEF SameTimes
    <3>2. CASE i \in Targets(rs, o)
      <4>1. o.proj = p
        BY <2>2, <2>6, <3>2 DEF Agreed
      <4> QED BY <2>3, <2>5, <3>1, <3>2, <4>1
    <3>3. CASE i \notin Targets(rs, o)
      <4>1. PICK k \in 1..n : i \in Targets(rs, Newest(k))
        BY <2>6 DEF Agreed
      <4>2. k # n
        BY <3>3, <4>1
      <4>3. k \in 1..(n - 1)
        BY <1>1, <4>2
      <4>4. Agreed(rs, i, p, n - 1)
        BY <2>6, <4>1, <4>3 DEF Agreed
      <4> QED BY <2>1, <2>3, <2>5, <3>1, <3>3, <4>4
    <3> QED BY <3>2, <3>3
  <2> QED BY <1>1, <2>3, <2>4, <2>6 DEF ws
<1>7. N \in S
  <2> HIDE DEF S
  <2>1. \A n \in 0..N : n \in S
    BY <1>1, <1>5, <1>6, Counting
  <2> QED BY <1>1, <2>1
<1> QED BY <1>3, <1>7

-----------------------------------------------------------------------------
(* Sessions in the dashboard: what the actions keep of the types. *)

LEMMA Bounds ==
  ASSUME SesShape
  PROVE  /\ now \in Nat /\ SesEnd \in Nat /\ now <= SesEnd /\ Len(rows) \in Nat /\ Len(slices) \in Nat
         /\ \A i \in Ids : /\ rows[i] \in SesRow /\ FitsUntil(rows[i], now)
                           /\ rows[i].s \in 0..SesEnd /\ rows[i].e \in Nat /\ rows[i].dur \in Nat
                           /\ rows[i].s < rows[i].e /\ rows[i].e <= now /\ Instants(rows[i]) \subseteq 0..SesEnd
         /\ \A k \in 1..Len(slices) : /\ slices[k] \in SesSlice /\ slices[k].s \in Nat /\ slices[k].e \in Nat
                                      /\ slices[k].s < slices[k].e /\ slices[k].e <= now
                                      /\ Instants(slices[k]) \subseteq 0..SesEnd
<1>1. /\ now \in Nat /\ SesEnd \in Nat /\ now <= SesEnd /\ Len(rows) \in Nat /\ Len(slices) \in Nat
      /\ rows \in SesTables(now) /\ slices \in Seq(SesSlice)
  BY SesAssumption DEF SesShape, SesTypeOK
<1>2. ASSUME NEW i \in Ids
      PROVE  /\ rows[i] \in SesRow /\ FitsUntil(rows[i], now)
             /\ rows[i].s \in 0..SesEnd /\ rows[i].e \in Nat /\ rows[i].dur \in Nat
             /\ rows[i].s < rows[i].e /\ rows[i].e <= now /\ Instants(rows[i]) \subseteq 0..SesEnd
  <2>1. /\ rows[i] \in SesRow /\ FitsUntil(rows[i], now)
        /\ rows[i].s \in Nat /\ rows[i].e \in Nat /\ rows[i].dur \in Nat
    BY <1>1, TableTyped DEF Ids
  <2>2. rows[i].s < rows[i].e /\ rows[i].e <= now
    BY <2>1 DEF FitsUntil
  <2> QED BY <1>1, <2>1, <2>2 DEF Instants
<1>3. ASSUME NEW k \in 1..Len(slices)
      PROVE  /\ slices[k] \in SesSlice /\ slices[k].s \in Nat /\ slices[k].e \in Nat
             /\ slices[k].s < slices[k].e /\ slices[k].e <= now
             /\ Instants(slices[k]) \subseteq 0..SesEnd
  <2>1. slices[k] \in SesSlice /\ slices[k].s \in Nat /\ slices[k].e \in Nat
    <3>1. slices[k] \in SesSlice
      BY <1>1
    <3> QED BY <3>1 DEF SesSlice
  <2>2. slices[k].s < slices[k].e /\ slices[k].e <= now
    BY DEF SesShape
  <2> QED BY <1>1, <2>1, <2>2 DEF Instants
<1> QED BY <1>1, <1>2, <1>3

LEMMA LaterFits ==
  ASSUME NEW t \in Nat, NEW rs \in SesTables(t)
  PROVE  rs \in SesTables(t + 1)
<1>1. \A i \in 1..Len(rs) : FitsUntil(rs[i], t + 1)
  BY TableTyped DEF FitsUntil
<1> QED BY <1>1 DEF SesTables

\* The slices after a unit of use.
LEMMA UsedSlices ==
  ASSUME SesShape, Used
  PROVE  /\ slices' \in Seq(SesSlice) /\ slices' # <<>>
         /\ \A k \in 1..Len(slices') : slices'[k].s < slices'[k].e /\ slices'[k].e <= now'
         /\ \A k \in 1..Len(slices) : k \in 1..Len(slices') /\ slices'[k].s = slices[k].s /\ slices[k].e <= slices'[k].e
         /\ \A k \in 1..Len(slices') :
              \/ slices'[k].s = now
              \/ k \in 1..Len(slices) /\ k = Len(slices) /\ open
              \/ k \in 1..Len(slices) /\ slices'[k].e = slices[k].e /\ k # Len(slices')
<1>1. now' = now + 1 /\ now \in Nat
  BY Bounds DEF Used
<1> DEFINE n == Len(slices)
<1>2. /\ n \in Nat
      /\ \A k \in 1..n : /\ slices[k] \in SesSlice /\ slices[k].s \in Nat /\ slices[k].e \in Nat
                         /\ slices[k].s < slices[k].e /\ slices[k].e <= now
  BY Bounds
<1>3. slices \in Seq(SesSlice)
  BY DEF SesShape, SesTypeOK
<1>4. CASE open /\ SesDayOf(slices[Len(slices)].s) = SesDayOf(now)
  <2> DEFINE x == [slices[n] EXCEPT !.e = now + 1]
  <2>1. n \in 1..n
    <3>1. slices # <<>>
      BY <1>4 DEF SesShape
    <3> QED BY <1>2, <1>3, <3>1
  <2>2. slices' = [slices EXCEPT ![n] = x]
    BY <1>4 DEF Used
  <2>3. x \in SesSlice /\ x.s = slices[n].s /\ x.e = now + 1
    BY <1>1, <1>2, <2>1 DEF SesSlice
  <2> HIDE DEF x
  <2>4. slices' \in Seq(SesSlice) /\ Len(slices') = n /\ slices'[n] = x /\ \A k \in 1..n : k # n => slices'[k] = slices[k]
    BY <1>3, <2>1, <2>2, <2>3
  <2>5. slices' # <<>>
    BY <2>1, <2>4
  <2>6. slices[n].s < now + 1 /\ now + 1 <= now + 1 /\ slices[n].e <= now + 1
    BY <1>1, <1>2, <2>1
  <2>7. ASSUME NEW k \in 1..n
        PROVE  /\ slices'[k].s < slices'[k].e /\ slices'[k].e <= now'
               /\ slices'[k].s = slices[k].s /\ slices[k].e <= slices'[k].e
               /\ \/ k = n /\ open
                  \/ slices'[k].e = slices[k].e /\ k # n
    <3>1. CASE k = n
      BY <1>1, <1>4, <2>3, <2>4, <2>6, <3>1
    <3>2. CASE k # n
      <4>1. slices'[k] = slices[k]
        BY <2>4, <3>2
      <4> QED BY <1>1, <1>2, <3>2, <4>1
    <3> QED BY <3>1, <3>2
  <2> HIDE DEF n
  <2> QED BY <2>4, <2>5, <2>7 DEF n
<1>5. CASE ~(open /\ SesDayOf(slices[Len(slices)].s) = SesDayOf(now))
  <2> DEFINE x == [s |-> now, e |-> now + 1]
  <2>1. slices' = Append(slices, x)
    BY <1>5 DEF Used
  <2>2. x \in SesSlice /\ x.s = now /\ x.e = now + 1
    BY <1>1 DEF SesSlice
  <2> HIDE DEF x
  <2>3. /\ slices' \in Seq(SesSlice) /\ Len(slices') = n + 1 /\ slices'[n + 1] = x
        /\ \A k \in 1..n : slices'[k] = slices[k]
    BY <1>2, <1>3, <2>1, <2>2
  <2>4. slices' # <<>>
    BY <1>2, <2>3
  <2>5. \A k \in 1..(n + 1) : (k \in 1..n /\ k # n + 1) \/ k = n + 1
    BY <1>2
  <2>6. ASSUME NEW k \in 1..n
        PROVE  /\ k \in 1..(n + 1) /\ slices'[k].s = slices[k].s /\ slices'[k].e = slices[k].e
               /\ slices[k].e <= slices'[k].e /\ slices'[k].s < slices'[k].e /\ slices'[k].e <= now'
    BY <1>1, <1>2, <2>3
  <2>7. slices'[n + 1].s = now /\ slices'[n + 1].s < slices'[n + 1].e /\ slices'[n + 1].e <= now'
    BY <1>1, <2>2, <2>3
  <2> HIDE DEF n
  <2>8. \A k \in 1..Len(slices') : slices'[k].s < slices'[k].e /\ slices'[k].e <= now'
    BY <2>3, <2>5, <2>6, <2>7
  <2>9. \A k \in 1..Len(slices') :
              \/ slices'[k].s = now
              \/ k \in 1..n /\ slices'[k].e = slices[k].e /\ k # Len(slices')
    BY <2>3, <2>5, <2>6, <2>7
  <2>10. \A k \in 1..n : k \in 1..Len(slices') /\ slices'[k].s = slices[k].s /\ slices[k].e <= slices'[k].e
    BY <2>3, <2>6
  <2> QED BY <2>3, <2>4, <2>8, <2>9, <2>10 DEF n
<1> QED BY <1>4, <1>5

-----------------------------------------------------------------------------
(* Sessions in the dashboard: the two invariants, and the daemon. *)

\* Imported instants stay accounted for when what is shown or deleted does not shrink.
LEMMA SeenKept ==
  ASSUME SesShape, TimeInv,
         \A k \in 1..Len(slices) :
           k \in 1..Len(slices') /\ slices'[k].s = slices[k].s /\ slices[k].e <= slices'[k].e
                                 /\ slices'[k].e \in Nat,
         \A i \in Ids : /\ i \in 1..Len(rows') /\ rows'[i].s = rows[i].s /\ rows'[i].there = rows[i].there
                        /\ rows[i].split # 0 => rows'[i].split # 0,
         ShownBy(rows) \subseteq ShownBy(rows') \cup gone', gone \subseteq gone', late \subseteq late'
  PROVE  \A t \in seen : Kept(t)'
<1> TAKE t \in seen
<1>1. Kept(t)
  BY DEF TimeInv
<1>2. ASSUME NEW i \in RowAt(t)
      PROVE  i \in RowAt(t)' /\ i \in Ids
  <2>1. PICK k \in 1..Len(slices) : slices[k].s = rows[i].s /\ t \in Instants(slices[k])
    BY DEF RowAt
  <2>2. i \in Ids /\ rows[i].there
    BY DEF RowAt, There, Ids
  <2>3. i \in There(rows')
    BY <2>2 DEF There
  <2>4. k \in 1..Len(slices') /\ slices'[k].s = rows'[i].s /\ t \in Instants(slices'[k])
    <3>1. slices[k].s \in Nat /\ slices[k].e \in Nat
      BY Bounds
    <3>2. /\ k \in 1..Len(slices') /\ slices'[k].s = slices[k].s /\ slices[k].e <= slices'[k].e
          /\ slices'[k].e \in Nat
      OBVIOUS
    <3>3. t \in slices[k].s..(slices[k].e - 1)
      BY <2>1 DEF Instants
    <3>4. t \in slices'[k].s..(slices'[k].e - 1)
      BY <3>1, <3>2, <3>3
    <3>5. rows'[i].s = rows[i].s
      BY <2>2
    <3> QED BY <2>1, <3>2, <3>4, <3>5 DEF Instants
  <2> QED BY <2>2, <2>3, <2>4 DEF RowAt
<1>3. CASE t \in ShownBy(rows)
  BY <1>3 DEF Kept, MayBeHidden
<1>4. CASE t \in gone
  BY <1>4 DEF Kept, MayBeHidden
<1>5. CASE \E i \in RowAt(t) : rows[i].split # 0 \/ rows[i].s \in gone
  <2>1. PICK i \in RowAt(t) : rows[i].split # 0 \/ rows[i].s \in gone
    BY <1>5
  <2>2. i \in RowAt(t)' /\ (rows'[i].split # 0 \/ rows'[i].s \in gone')
    BY <1>2, <2>1
  <2>3. MayBeHidden(t)'
    BY <2>2 DEF MayBeHidden
  <2> QED BY <2>3 DEF Kept
<1>6. CASE RowAt(t) \cap late # {}
  <2>1. PICK i \in RowAt(t) : i \in late
    BY <1>6
  <2>2. i \in RowAt(t)' /\ i \in late'
    BY <1>2, <2>1
  <2> QED BY <2>2 DEF Kept
<1> QED BY <1>1, <1>3, <1>4, <1>5, <1>6 DEF Kept, MayBeHidden

LEMMA ChosenSame ==
  ASSUME NEW rs, NEW us, NEW O, NEW ch, Chosen(rs, O, ch),
         \A o \in O : us[o.id].s = rs[o.id].s /\ (us[o.id].there => rs[o.id].there)
  PROVE  Chosen(us, O, ch)
<1> SUFFICES ASSUME NEW t \in 0..SesEnd, ch[t].e # 0
             PROVE  \E o \in O : o.e = ch[t].e /\ o.proj = ch[t].proj /\ Decides(us, O, o, t)
  BY DEF Chosen
<1>1. PICK o \in O : o.e = ch[t].e /\ o.proj = ch[t].proj /\ Decides(rs, O, o, t)
  BY DEF Chosen
<1>2. Decides(us, O, o, t)
  BY <1>1 DEF Decides
<1> QED BY <1>1, <1>2

LEMMA ChoiceSame ==
  ASSUME SesShape, ChoiceInv, overrides' = overrides, choice' = choice,
         \A i \in Ids : rows'[i].s = rows[i].s /\ (rows'[i].there => rows[i].there)
  PROVE  ChoiceInv'
<1>1. \A o \in OverridesIn(overrides) : rows'[o.id].s = rows[o.id].s /\ (rows'[o.id].there => rows[o.id].there)
  BY DEF SesShape
<1>2. Chosen(rows', OverridesIn(overrides), choice)
  BY <1>1, ChosenSame DEF ChoiceInv
<1> QED BY <1>2 DEF ChoiceInv

LEMMA UsedKeeps ==
  ASSUME SesInv, Used
  PROVE  SesInv'
<1>1. SesShape /\ TimeInv /\ ChoiceInv
  BY DEF SesInv
<1>2. /\ now \in Nat /\ now < SesEnd /\ now' = now + 1 /\ open' = TRUE /\ applied' = FALSE
      /\ UNCHANGED <<rows, overrides, registered, ops, seen, gone, choice, late>>
  BY <1>1, Bounds DEF Used
<1>3. SesShape'
  <2>1. now' \in 0..SesEnd
    BY <1>1, <1>2, Bounds
  <2>2. SesTypeOK'
    BY <1>1, <1>2, <2>1, UsedSlices DEF SesShape, SesTypeOK, Ids
  <2>3. rows' \in SesTables(now')
    BY <1>1, <1>2, LaterFits DEF SesShape
  <2> QED BY <1>1, <1>2, <2>2, <2>3, UsedSlices DEF SesShape, Ids
<1>4. TimeInv'
  <2>1. \A t \in seen : Kept(t)'
    <3>1. \A k \in 1..Len(slices') : slices'[k].e \in Nat
      <4>1. slices' \in Seq(SesSlice)
        BY <1>3 DEF SesShape, SesTypeOK
      <4>2. \A k \in 1..Len(slices') : slices'[k] \in SesSlice
        BY <4>1
      <4> QED BY <4>2 DEF SesSlice
    <3>2. \A k \in 1..Len(slices) :
           k \in 1..Len(slices') /\ slices'[k].s = slices[k].s /\ slices[k].e <= slices'[k].e
                                 /\ slices'[k].e \in Nat
      BY <1>1, <3>1, UsedSlices
    <3>3. \A i \in Ids : i \in 1..Len(rows') /\ rows'[i] = rows[i]
      BY <1>2 DEF Ids
    <3> QED BY <1>1, <1>2, <3>2, <3>3, SeenKept
  <2>2. ASSUME NEW i \in Ids, Settled(i)
        PROVE  Covered(i)'
    <3>1. ~Unfinished(rows[i]) /\ Instants(rows[i]) \subseteq ShownBy(rows) \cup gone
      BY <1>1, <2>2 DEF TimeInv, Covered
    <3>2. ASSUME Unfinished(rows[i])'
          PROVE  FALSE
      <4>1. PICK k \in 1..Len(slices') :
              slices'[k].s = rows[i].s /\ (slices'[k].e > rows[i].e \/ (open' /\ k = Len(slices')))
        BY <1>2, <3>2 DEF Unfinished
      <4>2. rows[i].s \in Nat /\ rows[i].s < now
        BY <1>1, <1>2, Bounds
      <4>3. slices'[k].s # now
        BY <1>2, <4>1, <4>2
      <4>4. CASE k \in 1..Len(slices) /\ k = Len(slices) /\ open
        <5>1. slices[k].s = rows[i].s
          BY <1>1, <4>1, <4>4, UsedSlices
        <5> QED BY <3>1, <4>4, <5>1 DEF Unfinished
      <4>5. CASE k \in 1..Len(slices) /\ slices'[k].e = slices[k].e /\ k # Len(slices')
        <5>1. slices[k].s = rows[i].s
          BY <1>1, <4>1, <4>5, UsedSlices
        <5> QED BY <3>1, <4>1, <4>5, <5>1 DEF Unfinished
      <4> QED BY <1>1, <4>3, <4>4, <4>5, UsedSlices
    <3> QED BY <1>2, <3>1, <3>2 DEF Covered, ShownBy
  <2> QED BY <1>2, <2>1, <2>2 DEF TimeInv, Settled, Ids
<1>5. ChoiceInv'
  BY <1>1, <1>2, ChoiceSame
<1>6. ChoiceReapplied'
  BY <1>2 DEF ChoiceReapplied
<1> QED BY <1>3, <1>4, <1>5, <1>6 DEF SesInv

LEMMA AwayKeeps ==
  ASSUME SesInv, Away
  PROVE  SesInv'
<1>1. SesShape /\ TimeInv /\ ChoiceInv
  BY DEF SesInv
<1>2. /\ now \in Nat /\ now < SesEnd /\ now' = now + 1 /\ open' = FALSE /\ applied' = FALSE
      /\ UNCHANGED <<slices, rows, overrides, registered, ops, seen, gone, choice, late>>
  BY <1>1, Bounds DEF Away
<1>3. SesShape'
  <2>1. now' \in 0..SesEnd
    BY <1>1, <1>2, Bounds
  <2>2. SesTypeOK'
    BY <1>1, <1>2, <2>1 DEF SesShape, SesTypeOK, Ids
  <2>3. rows' \in SesTables(now')
    BY <1>1, <1>2, LaterFits DEF SesShape
  <2>4. \A k \in 1..Len(slices') : slices'[k].s < slices'[k].e /\ slices'[k].e <= now'
    BY <1>1, <1>2, Bounds
  <2> QED BY <1>1, <1>2, <2>2, <2>3, <2>4 DEF SesShape, Ids
<1>4. TimeInv'
  <2>1. \A t \in seen : Kept(t)'
    <3>1. \A k \in 1..Len(slices) :
           k \in 1..Len(slices') /\ slices'[k].s = slices[k].s /\ slices[k].e <= slices'[k].e
                                 /\ slices'[k].e \in Nat
      BY <1>1, <1>2, Bounds
    <3>2. \A i \in Ids : i \in 1..Len(rows') /\ rows'[i] = rows[i]
      BY <1>2 DEF Ids
    <3> QED BY <1>1, <1>2, <3>1, <3>2, SeenKept
  <2>2. ASSUME NEW i \in Ids, Settled(i)
        PROVE  Covered(i)'
    <3>1. ~Unfinished(rows[i]) /\ Instants(rows[i]) \subseteq ShownBy(rows) \cup gone
      BY <1>1, <2>2 DEF TimeInv, Covered
    <3>2. ~Unfinished(rows[i])'
      BY <1>2, <3>1 DEF Unfinished
    <3> QED BY <1>2, <3>1, <3>2 DEF Covered, ShownBy
  <2> QED BY <1>2, <2>1, <2>2 DEF TimeInv, Settled, Ids
<1>5. ChoiceInv'
  BY <1>1, <1>2, ChoiceSame
<1>6. ChoiceReapplied'
  BY <1>2 DEF ChoiceReapplied
<1> QED BY <1>3, <1>4, <1>5, <1>6 DEF SesInv

LEMMA PurgedIs ==
  ASSUME NEW t \in Nat, NEW rs \in SesTables(t), NEW us, us = purge_unregistered_apps(rs)
  PROVE  /\ us \in SesTables(t) /\ Len(us) = Len(rs)
         /\ \A i \in 1..Len(rs) : us[i].s = rs[i].s /\ ~us[i].there
<1>1. /\ Len(rs) \in Nat /\ rs \in Seq(SesRow)
      /\ \A i \in 1..Len(rs) : rs[i] \in SesRow /\ FitsUntil(rs[i], t)
  BY TableTyped
<1>2. us = [i \in 1..Len(rs) |-> [rs[i] EXCEPT !.there = FALSE]]
  BY DEF purge_unregistered_apps
<1>3. ASSUME NEW i \in 1..Len(rs)
      PROVE  us[i] \in SesRow /\ FitsUntil(us[i], t) /\ us[i].s = rs[i].s /\ ~us[i].there
  <2> DEFINE r == rs[i]
             u == [r EXCEPT !.there = FALSE]
  <2>1. us[i] = u
    BY <1>2
  <2>2. r \in SesRow /\ FitsUntil(r, t)
    BY <1>1
  <2> HIDE DEF r
  <2>3. u \in SesRow /\ u.s = r.s /\ u.e = r.e /\ u.dur = r.dur /\ ~u.there
    BY <2>2 DEF SesRow
  <2> HIDE DEF u
  <2>4. FitsUntil(u, t)
    BY <2>2, <2>3 DEF FitsUntil
  <2> QED BY <2>1, <2>3, <2>4 DEF r
<1>4. us \in Seq(SesRow) /\ Len(us) = Len(rs)
  <2>1. us = [i \in 1..Len(rs) |-> us[i]]
    BY <1>2
  <2> QED BY <1>1, <1>3, <2>1
<1>5. StartsApart(us)
  BY <1>3, <1>4 DEF StartsApart, There
<1> QED BY <1>3, <1>4, <1>5 DEF SesTables

\* What is shown after the import of a day.
LEMMA ImportShows ==
  ASSUME SesShape, NEW us \in SesTables(now), Grown(rows, us, SliceEnds)
  PROVE  ShownBy(rows) \subseteq ShownBy(us)
<1> SUFFICES ASSUME NEW x \in ShownBy(rows)
             PROVE  x \in ShownBy(us)
  OBVIOUS
<1>1. PICK i \in Visible(rows) : x \in Instants(rows[i])
  BY DEF ShownBy
<1>2. i \in 1..Len(rows) /\ i \in 1..Len(us) /\ i \in Ids /\ now \in Nat
  <2>1. i \in 1..Len(rows) /\ Len(rows) \in Nat /\ Len(us) \in Nat /\ Len(rows) <= Len(us) /\ now \in Nat
    BY Bounds, TableTyped DEF Visible, There, Grown
  <2> QED BY <2>1 DEF Ids
<1>3. /\ us[i].s = rows[i].s /\ us[i].there = rows[i].there /\ us[i].hidden = rows[i].hidden
      /\ rows[i].e <= us[i].e
  BY <1>2 DEF Grown
<1>4. us[i].e \in Nat /\ rows[i].e \in Nat /\ rows[i].s \in Nat
  BY <1>2, TableTyped, Bounds
<1>5. x \in Instants(us[i])
  BY <1>1, <1>3, <1>4 DEF Instants
<1>6. i \in Visible(us)
  BY <1>2, <1>3 DEF Visible, There
<1> QED BY <1>5, <1>6 DEF ShownBy

LEMMA ImportKeepsTime ==
  ASSUME SesInv, SesShape', NEW day, upsert_daily_data(day), registered
  PROVE  TimeInv'
<1>1. SesShape /\ TimeInv
  BY DEF SesInv
<1>2. /\ rows' = UpsertedDay(day) /\ gone' = gone /\ late' = late /\ slices' = slices /\ open' = open
      /\ seen' = seen \cup UNION {Instants(slices[n]) : n \in SlicesOf(day)}
  BY DEF upsert_daily_data
<1>3. /\ rows' \in SesTables(now) /\ Grown(rows, rows', SliceEnds)
      /\ \A n \in SlicesOf(day) : Taken(rows', slices[n])
  BY <1>1, <1>2, UpsertedDayKeeps
<1>4. Len(rows) \in Nat /\ Len(rows') \in Nat /\ Len(rows) <= Len(rows') /\ now \in Nat
  BY <1>1, <1>3, TableTyped, Bounds DEF Grown
<1>5. ShownBy(rows) \subseteq ShownBy(rows')
  BY <1>1, <1>3, ImportShows
<1>6. ASSUME NEW i \in Ids
      PROVE  /\ i \in 1..Len(rows') /\ rows'[i].s = rows[i].s /\ rows'[i].there = rows[i].there
             /\ rows'[i].hidden = rows[i].hidden /\ rows'[i].split = rows[i].split
  <2>1. i \in 1..Len(rows) /\ i \in 1..Len(rows')
    BY <1>4 DEF Ids
  <2> QED BY <1>3, <2>1 DEF Grown
<1>7. ASSUME NEW i \in 1..Len(rows'), Settled(i)'
      PROVE  i \in Ids /\ Settled(i) /\ rows'[i].e = rows[i].e
  <2>1. i \in Ids
    BY <1>3, <1>4, <1>7 DEF Grown, Settled, Ids
  <2>2. Settled(i)
    BY <1>2, <1>6, <1>7, <2>1 DEF Settled
  <2>3. ~Unfinished(rows[i])
    BY <1>1, <2>1, <2>2 DEF TimeInv, Covered
  <2>4. rows[i].e <= rows'[i].e /\ (rows'[i].e = rows[i].e \/ <<rows[i].s, rows'[i].e>> \in SliceEnds)
    BY <1>3, <2>1 DEF Grown, Ids
  <2>5. CASE <<rows[i].s, rows'[i].e>> \in SliceEnds
    <3>1. PICK k \in 1..Len(slices) : slices[k].s = rows[i].s /\ slices[k].e = rows'[i].e
      BY <2>5 DEF SliceEnds
    <3>2. ~(slices[k].e > rows[i].e)
      BY <2>3, <3>1 DEF Unfinished
    <3>3. slices[k].e \in Nat /\ rows[i].e \in Nat
      BY <1>1, <2>1, Bounds
    <3> QED BY <2>1, <2>2, <2>4, <3>1, <3>2, <3>3
  <2> QED BY <2>1, <2>2, <2>4, <2>5
<1>8. \A i \in Ids' : Settled(i)' => Covered(i)'
  <2> SUFFICES ASSUME NEW i \in 1..Len(rows'), Settled(i)'
               PROVE  Covered(i)'
    BY DEF Ids
  <2>1. i \in Ids /\ Settled(i) /\ rows'[i].e = rows[i].e /\ rows'[i].s = rows[i].s
    BY <1>6, <1>7
  <2>2. ~Unfinished(rows[i]) /\ Instants(rows[i]) \subseteq ShownBy(rows) \cup gone
    BY <1>1, <2>1 DEF TimeInv, Covered
  <2>3. ~Unfinished(rows[i])' /\ Instants(rows'[i]) \subseteq ShownBy(rows') \cup gone
    BY <1>2, <1>5, <2>1, <2>2 DEF Unfinished, Instants
  <2> QED BY <1>2, <2>3 DEF Covered, ShownBy
<1>9. \A t \in seen : Kept(t)'
  <2>1. \A k \in 1..Len(slices) :
          k \in 1..Len(slices') /\ slices'[k].s = slices[k].s /\ slices[k].e <= slices'[k].e
                                /\ slices'[k].e \in Nat
    BY <1>1, <1>2, Bounds
  <2> QED BY <1>1, <1>2, <1>5, <1>6, <2>1, SeenKept
<1>10. ASSUME NEW n \in SlicesOf(day), NEW t \in Instants(slices[n])
       PROVE  Kept(t)'
  <2>1. PICK i \in There(rows') : rows'[i].s = slices[n].s /\ (rows'[i].split = 0 => slices[n].e <= rows'[i].e)
    BY <1>3 DEF Taken
  <2>2. n \in 1..Len(slices) /\ i \in 1..Len(rows') /\ rows'[i].there
    BY DEF SlicesOf, There
  <2>3. i \in RowAt(t)'
    BY <1>2, <2>1, <2>2 DEF RowAt
  <2>4. CASE rows'[i].split # 0 \/ rows'[i].s \in gone'
    BY <2>3, <2>4 DEF Kept, MayBeHidden
  <2>5. CASE i \in late'
    BY <2>3, <2>5 DEF Kept
  <2>6. CASE rows'[i].split = 0 /\ i \notin late' /\ rows'[i].s \notin gone' /\ rows'[i].hidden
    <3>1. Settled(i)'
      BY <2>2, <2>6 DEF Settled
    <3>2. i \in Ids /\ Settled(i) /\ rows'[i].e = rows[i].e /\ rows'[i].s = rows[i].s
      BY <1>6, <1>7, <2>2, <3>1
    <3>3. ~Unfinished(rows[i]) /\ Instants(rows[i]) \subseteq ShownBy(rows) \cup gone
      BY <1>1, <3>2 DEF TimeInv, Covered
    <3>4. t \in Instants(rows[i])
      <4>1. slices[n].e <= rows[i].e /\ slices[n].s = rows[i].s
        BY <2>1, <2>6, <3>2
      <4>2. slices[n].e \in Nat /\ slices[n].s \in Nat /\ rows[i].e \in Nat
        BY <1>1, <2>2, <3>2, Bounds
      <4>3. t \in slices[n].s..(slices[n].e - 1)
        BY <1>10 DEF Instants
      <4> QED BY <4>1, <4>2, <4>3 DEF Instants
    <3> QED BY <1>2, <1>5, <3>3, <3>4 DEF Kept, MayBeHidden
  <2>7. CASE rows'[i].split = 0 /\ ~rows'[i].hidden
    <3>1. i \in Visible(rows')
      BY <2>1, <2>7 DEF Visible
    <3>2. t \in Instants(rows'[i])
      <4>1. slices[n].e \in Nat /\ slices[n].s \in Nat /\ rows'[i].e \in Nat
        BY <1>1, <1>3, <1>4, <2>2, Bounds, TableTyped
      <4>2. t \in slices[n].s..(slices[n].e - 1)
        BY <1>10 DEF Instants
      <4> QED BY <2>1, <2>7, <4>1, <4>2 DEF Instants
    <3> QED BY <3>1, <3>2 DEF Kept, ShownBy
  <2> QED BY <2>4, <2>5, <2>6, <2>7
<1>11. \A t \in seen' : Kept(t)'
  <2> SUFFICES ASSUME NEW t \in seen'
               PROVE  Kept(t)'
    OBVIOUS
  <2>1. t \in seen \/ \E n \in SlicesOf(day) : t \in Instants(slices[n])
    BY <1>2
  <2> QED BY <1>9, <1>10, <2>1
<1> QED BY <1>8, <1>11 DEF TimeInv

LEMMA ImportKeeps ==
  ASSUME SesInv, NEW day, upsert_daily_data(day)
  PROVE  SesInv'
<1>1. SesShape /\ TimeInv /\ ChoiceInv
  BY DEF SesInv
<1>2. /\ Len(rows') <= MaxRows /\ applied' = FALSE /\ now \in Nat
      /\ UNCHANGED <<now, slices, open, overrides, registered, ops, gone, choice, late>>
  BY <1>1, Bounds DEF upsert_daily_data
<1>3. registered \in BOOLEAN
  BY <1>1 DEF SesShape, SesTypeOK
<1>4. CASE registered
  <2>1. rows' \in SesTables(now) /\ Grown(rows, rows', SliceEnds)
    BY <1>1, <1>4, UpsertedDayKeeps DEF upsert_daily_data
  <2>2. rows' \in Seq(SesRow) /\ Len(rows) \in Nat /\ Len(rows') \in Nat /\ Len(rows) <= Len(rows') /\ Ids \subseteq Ids'
    <3>1. rows' \in Seq(SesRow) /\ Len(rows) \in Nat /\ Len(rows') \in Nat /\ Len(rows) <= Len(rows')
      BY <1>1, <1>2, <2>1, TableTyped, Bounds DEF Grown
    <3> QED BY <3>1 DEF Ids
  <2>3. seen' \cup gone' \subseteq 0..SesEnd
    <3>1. seen' = seen \cup UNION {Instants(slices[n]) : n \in SlicesOf(day)}
      BY <1>4 DEF upsert_daily_data
    <3>2. \A n \in SlicesOf(day) : Instants(slices[n]) \subseteq 0..SesEnd
      BY <1>1, Bounds DEF SlicesOf
    <3>3. seen \cup gone \subseteq 0..SesEnd
      BY <1>1 DEF SesShape, SesTypeOK
    <3> QED BY <1>2, <3>1, <3>2, <3>3
  <2>4. SesShape'
    <3>1. SesTypeOK'
      BY <1>1, <1>2, <2>2, <2>3 DEF SesShape, SesTypeOK
    <3> QED BY <1>1, <1>2, <2>1, <2>2, <3>1 DEF SesShape
  <2>5. TimeInv'
    BY <1>4, <2>4, ImportKeepsTime
  <2>6. ChoiceInv'
    <3>1. \A i \in Ids : rows'[i].s = rows[i].s /\ rows'[i].there = rows[i].there
      BY <2>1 DEF Grown, Ids
    <3> QED BY <1>1, <1>2, <3>1, ChoiceSame
  <2> QED BY <1>2, <2>4, <2>5, <2>6 DEF SesInv, ChoiceReapplied
<1>5. CASE ~registered
  <2>1. rows' = purge_unregistered_apps(rows) /\ seen' = {}
    BY <1>5 DEF upsert_daily_data
  <2>2. /\ rows' \in SesTables(now) /\ Len(rows') = Len(rows)
        /\ \A i \in 1..Len(rows) : rows'[i].s = rows[i].s /\ ~rows'[i].there
    BY <1>1, <1>2, <2>1, PurgedIs DEF SesShape
  <2>3. rows' \in Seq(SesRow) /\ Ids' = Ids
    BY <1>2, <2>2, TableTyped DEF Ids
  <2>4. SesShape'
    <3>1. SesTypeOK'
      BY <1>1, <1>2, <2>1, <2>3 DEF SesShape, SesTypeOK
    <3> QED BY <1>1, <1>2, <2>2, <2>3, <3>1 DEF SesShape
  <2>5. TimeInv'
    <3>1. \A i \in Ids' : ~Settled(i)'
      BY <2>2, <2>3 DEF Settled, Ids
    <3> QED BY <2>1, <3>1 DEF TimeInv
  <2>6. ChoiceInv'
    BY <1>1, <1>2, <2>2, ChoiceSame DEF Ids
  <2> QED BY <1>2, <2>4, <2>5, <2>6 DEF SesInv, ChoiceReapplied
<1> QED BY <1>3, <1>4, <1>5

LEMMA RebuildKeepsTime ==
  ASSUME SesInv, rebuild_sessions
  PROVE  TimeInv'
<1> DEFINE m == Merged(rows)
<1>1. SesShape /\ TimeInv
  BY DEF SesInv
<1>2. now \in Nat /\ Len(rows) \in Nat
  BY <1>1, Bounds
<1>3. m \in Walks(now, rows) /\ WalkedTo(rows, m, LastTurn)
  BY <1>1, <1>2, MergedKeeps DEF SesShape
<1>4. /\ rows' = m.rows /\ gone' = gone /\ seen' = seen /\ slices' = slices /\ open' = open
      /\ late' = late \cup {i \in Ids : m.rows[i].hidden /\ ~rows[i].hidden /\ Unfinished(rows[i])}
  BY DEF rebuild_sessions
<1> HIDE DEF m
<1>5. rows' \in SesTables(now) /\ Len(rows') = Len(rows) /\ Ids' = Ids
  BY <1>3, <1>4 DEF Walks, Ids
<1>6. ASSUME NEW i \in Ids
      PROVE  /\ rows'[i].s = rows[i].s /\ rows'[i].there = rows[i].there /\ rows'[i].split = rows[i].split
             /\ rows[i].e <= rows'[i].e /\ rows'[i].e \in Nat /\ rows[i].e \in Nat
             /\ rows[i].hidden => rows'[i].hidden /\ rows'[i].e = rows[i].e
             /\ rows'[i].hidden /\ ~rows[i].hidden => Instants(rows'[i]) \subseteq ShownBy(rows')
  <2>1. rows'[i].e \in Nat /\ rows[i].e \in Nat
    BY <1>1, <1>2, <1>5, Bounds, TableTyped DEF Ids
  <2> QED BY <1>3, <1>4, <2>1 DEF WalkedTo, Ids
<1>7. ShownBy(rows) \subseteq ShownBy(rows')
  BY <1>3, <1>4 DEF WalkedTo
<1>8. \A t \in seen : Kept(t)'
  <2>1. \A k \in 1..Len(slices) :
          k \in 1..Len(slices') /\ slices'[k].s = slices[k].s /\ slices[k].e <= slices'[k].e
                                /\ slices'[k].e \in Nat
    BY <1>1, <1>4, Bounds
  <2>2. \A i \in Ids : /\ i \in 1..Len(rows') /\ rows'[i].s = rows[i].s /\ rows'[i].there = rows[i].there
                       /\ rows[i].split # 0 => rows'[i].split # 0
    BY <1>5, <1>6 DEF Ids
  <2>3. gone \subseteq gone' /\ late \subseteq late' /\ ShownBy(rows) \subseteq ShownBy(rows') \cup gone'
    BY <1>4, <1>7
  <2> QED BY <1>1, <2>1, <2>2, <2>3, SeenKept
<1>9. ASSUME NEW i \in Ids, Settled(i)'
      PROVE  Covered(i)'
  <2>1. rows'[i].there /\ rows'[i].hidden /\ rows'[i].split = 0 /\ i \notin late' /\ rows'[i].s \notin gone'
    BY <1>9 DEF Settled
  <2>2. /\ rows'[i].s = rows[i].s /\ rows'[i].there = rows[i].there /\ rows'[i].split = rows[i].split
        /\ rows[i].e <= rows'[i].e /\ rows'[i].e \in Nat /\ rows[i].e \in Nat
        /\ rows[i].hidden => rows'[i].e = rows[i].e
        /\ ~rows[i].hidden => Instants(rows'[i]) \subseteq ShownBy(rows')
    BY <1>6, <2>1
  <2>3. CASE rows[i].hidden
    <3>1. Settled(i)
      BY <1>4, <2>1, <2>2, <2>3 DEF Settled
    <3>2. ~Unfinished(rows[i]) /\ Instants(rows[i]) \subseteq ShownBy(rows) \cup gone
      BY <1>1, <3>1 DEF TimeInv, Covered
    <3>3. ~Unfinished(rows[i])' /\ Instants(rows'[i]) \subseteq ShownBy(rows') \cup gone
      BY <1>4, <1>7, <2>2, <2>3, <3>2 DEF Unfinished, Instants
    <3> QED BY <1>4, <3>3 DEF Covered, ShownBy
  <2>4. CASE ~rows[i].hidden
    <3>1. ~Unfinished(rows[i])
      BY <1>4, <2>1, <2>4
    <3>2. ASSUME Unfinished(rows[i])'
          PROVE  FALSE
      <4>1. PICK k \in 1..Len(slices) :
              slices[k].s = rows'[i].s /\ (slices[k].e > rows'[i].e \/ (open /\ k = Len(slices)))
        BY <1>4, <3>2 DEF Unfinished
      <4>2. slices[k].e \in Nat
        BY <1>1, Bounds
      <4>3. slices[k].s = rows[i].s /\ (slices[k].e > rows[i].e \/ (open /\ k = Len(slices)))
        BY <2>2, <4>1, <4>2
      <4> QED BY <3>1, <4>3 DEF Unfinished
    <3> QED BY <2>2, <2>4, <3>2 DEF Covered, ShownBy
  <2> QED BY <2>3, <2>4
<1> QED BY <1>4, <1>5, <1>8, <1>9 DEF TimeInv

\* A session that is merged is no choice any more; the other choices keep their override.
LEMMA RebuildKeeps ==
  ASSUME SesInv, rebuild_sessions
  PROVE  SesInv'
<1> DEFINE m == Merged(rows)
           B == {i \in Ids : \E k \in 1..Len(m.into) : i \in {m.into[k][1], m.into[k][2]}}
<1>1. SesShape /\ TimeInv /\ ChoiceInv
  BY DEF SesInv
<1>2. now \in Nat /\ Len(rows) \in Nat /\ Len(rows) <= MaxRows /\ MaxRows \in Nat
  BY <1>1, Bounds, SesAssumption DEF SesShape, SesTypeOK
<1>3. m \in Walks(now, rows) /\ WalkedTo(rows, m, LastTurn)
  BY <1>1, <1>2, MergedKeeps DEF SesShape
<1>4. /\ rows' = m.rows /\ overrides' = MovedOverrides(overrides, m.into) /\ applied' = FALSE
      /\ UNCHANGED <<now, slices, open, registered, ops, seen, gone>>
      /\ late' = late \cup {i \in Ids : m.rows[i].hidden /\ ~rows[i].hidden /\ Unfinished(rows[i])}
  BY DEF rebuild_sessions
<1>5. choice' = [t \in 0..SesEnd |->
                  IF \E k \in 1..Len(m.into) : t \in {rows[m.into[k][1]].s, rows[m.into[k][2]].s}
                  THEN NoChoice ELSE choice[t]]
  BY DEF rebuild_sessions
<1> HIDE DEF m
<1>6. rows' \in SesTables(now) /\ rows' \in Seq(SesRow) /\ Len(rows') = Len(rows) /\ Ids' = Ids
  BY <1>2, <1>3, <1>4, TableTyped DEF Walks, Ids
<1>7. m.into \in Seq(B \X B) /\ B \in SUBSET (1..MaxRows)
  <2>1. m.into \in Seq(Ids \X Ids)
    BY <1>3 DEF Walks, Ids
  <2>2. Len(m.into) \in Nat /\ m.into = [k \in 1..Len(m.into) |-> m.into[k]]
    BY <2>1
  <2>3. ASSUME NEW k \in 1..Len(m.into)
        PROVE  m.into[k] \in B \X B
    <3>1. m.into[k] \in Ids \X Ids
      BY <2>1
    <3>2. \A x \in Ids \X Ids : x[1] \in Ids /\ x[2] \in Ids /\ x = <<x[1], x[2]>>
      OBVIOUS
    <3>3. m.into[k][1] \in B /\ m.into[k][2] \in B /\ m.into[k] = <<m.into[k][1], m.into[k][2]>>
      BY <3>1, <3>2
    <3> HIDE DEF B
    <3> QED BY <3>3
  <2>4. B \in SUBSET (1..MaxRows)
    BY <1>2 DEF Ids
  <2> HIDE DEF B
  <2> QED BY <2>2, <2>3, <2>4
<1>8. \A i \in Ids : rows'[i].s = rows[i].s /\ rows'[i].there = rows[i].there
  BY <1>3, <1>4 DEF WalkedTo, Ids
<1> DEFINE O == OverridesIn(overrides)
           Q == OverridesIn(overrides')
<1>9. IntervalsApart(O) /\ overrides \in Seq(SesOverride) /\ \A o \in O : o.id \in Ids
  BY <1>1 DEF ChoiceInv, SesShape, SesTypeOK
<1>10. /\ overrides' \in Seq(SesOverride) /\ IntervalsApart(Q)
       /\ \A o \in O : o.id \notin B => o \in Q
       /\ \A o \in Q : o \in O \/ o.id \in B
  <2> HIDE DEF B
  <2> DEFINE ns == overrides'
             into == m.into
  <2>1. ns = MovedOverrides(overrides, into) /\ into \in Seq(B \X B)
    BY <1>4, <1>7
  <2> HIDE DEF ns, into
  <2>2. /\ ns \in Seq(SesOverride) /\ IntervalsApart(OverridesIn(ns))
        /\ \A o \in O : o.id \notin B => o \in OverridesIn(ns)
        /\ \A o \in OverridesIn(ns) : o \in O \/ o.id \in B
    BY <1>7, <1>9, <2>1, MovedIs
  <2> QED BY <2>2 DEF ns
<1>11. SesShape'
  <2>1. choice' \in [0..SesEnd -> [e: Nat, proj: SesProjRef]]
    <3>1. NoChoice \in [e: Nat, proj: SesProjRef]
      BY SesAssumption DEF NoChoice, NoProj, SesProjRef
    <3>2. choice \in [0..SesEnd -> [e: Nat, proj: SesProjRef]]
      BY <1>1 DEF SesShape, SesTypeOK
    <3> QED BY <1>5, <3>1, <3>2
  <2>2. late' \subseteq Ids
    BY <1>1, <1>4 DEF SesShape, SesTypeOK
  <2>3. SesTypeOK'
    BY <1>1, <1>4, <1>6, <1>10, <2>1, <2>2 DEF SesShape, SesTypeOK
  <2>4. \A o \in Q : o.id \in Ids
    BY <1>9, <1>10
  <2> QED BY <1>1, <1>4, <1>6, <2>3, <2>4 DEF SesShape
<1>12. TimeInv'
  BY RebuildKeepsTime
<1>13. ASSUME NEW t \in 0..SesEnd, choice'[t].e # 0
       PROVE  \E o \in Q : o.e = choice'[t].e /\ o.proj = choice'[t].proj /\ Decides(rows', Q, o, t)
  <2>1. ~\E k \in 1..Len(m.into) : t \in {rows[m.into[k][1]].s, rows[m.into[k][2]].s}
    <3> SUFFICES ASSUME \E k \in 1..Len(m.into) : t \in {rows[m.into[k][1]].s, rows[m.into[k][2]].s}
                 PROVE  FALSE
      OBVIOUS
    <3>1. choice'[t] = NoChoice
      BY <1>5
    <3> QED BY <1>13, <3>1 DEF NoChoice
  <2>2. choice'[t] = choice[t]
    BY <1>5, <2>1
  <2>3. \A i \in B : rows[i].s # t
    BY <2>1
  <2>4. PICK o \in O : o.e = choice[t].e /\ o.proj = choice[t].proj /\ Decides(rows, O, o, t)
    BY <1>1, <1>13, <2>2 DEF ChoiceInv, Chosen
  <2>5. o.id \in Ids /\ o.id \notin B /\ rows[o.id].s = t
    BY <1>9, <2>3, <2>4 DEF Decides
  <2>6. o \in Q
    BY <1>10, <2>5
  <2>7. ASSUME NEW p \in Q, rows'[p.id].there, rows'[p.id].s = t
        PROVE  p.s = t /\ p.e = o.e
    <3>1. CASE p.id \in B
      <4>1. p.id \in Ids
        BY <3>1
      <4> QED BY <1>8, <2>3, <2>7, <3>1, <4>1
    <3>2. CASE p \in O
      <4>1. p.id \in Ids
        BY <1>9, <3>2
      <4> HIDE DEF B, O, Q
      <4> QED BY <1>8, <2>4, <2>7, <3>2, <4>1 DEF Decides
    <3> QED BY <1>10, <3>1, <3>2
  <2>8. Decides(rows', Q, o, t)
    <3>1. rows'[o.id].s = t /\ o.s = t
      BY <1>8, <2>4, <2>5 DEF Decides
    <3> HIDE DEF B, O, Q
    <3> QED BY <2>7, <3>1 DEF Decides
  <2> QED BY <2>2, <2>4, <2>6, <2>8
<1>14. ChoiceInv'
  <2> HIDE DEF B
  <2> QED BY <1>10, <1>13 DEF ChoiceInv, Chosen
<1> QED BY <1>4, <1>11, <1>12, <1>14 DEF SesInv, ChoiceReapplied

-----------------------------------------------------------------------------
(* Sessions in the dashboard: commands of the user, and the import of data. *)

\* Sessions that are where they were keep their time.
LEMMA TimeSame ==
  ASSUME SesInv, rows' \in SesTables(now), SameTimes(rows, rows'), UNCHANGED <<slices, open, seen, gone, late>>
  PROVE  TimeInv'
<1>1. SesShape /\ TimeInv
  BY DEF SesInv
<1>2. now \in Nat /\ rows \in SesTables(now) /\ rows' \in Seq(SesRow) /\ \A i \in 1..Len(rows) : FitsUntil(rows'[i], now)
  BY <1>1, Bounds, TableTyped DEF SesShape, SameTimes
<1>3. ShownBy(rows') = ShownBy(rows)
  BY <1>2, SameTables
<1>4. \A t \in seen : Kept(t)'
  <2>1. \A k \in 1..Len(slices) :
          k \in 1..Len(slices') /\ slices'[k].s = slices[k].s /\ slices[k].e <= slices'[k].e
                                /\ slices'[k].e \in Nat
    BY <1>1, Bounds
  <2>2. \A i \in Ids : /\ i \in 1..Len(rows') /\ rows'[i].s = rows[i].s /\ rows'[i].there = rows[i].there
                       /\ rows[i].split # 0 => rows'[i].split # 0
    BY DEF SameTimes, Ids
  <2> QED BY <1>1, <1>3, <2>1, <2>2, SeenKept
<1>5. \A i \in Ids' : i \in Ids /\ (Settled(i)' => Settled(i)) /\ (Covered(i) => Covered(i)')
  <2> SUFFICES ASSUME NEW i \in Ids'
               PROVE  i \in Ids /\ (Settled(i)' => Settled(i)) /\ (Covered(i) => Covered(i)')
    OBVIOUS
  <2>1. i \in Ids
    BY DEF SameTimes, Ids
  <2>2. /\ rows'[i].s = rows[i].s /\ rows'[i].e = rows[i].e /\ rows'[i].there = rows[i].there
        /\ rows'[i].hidden = rows[i].hidden /\ rows'[i].split = rows[i].split
    BY <2>1 DEF SameTimes, Ids
  <2>3. Settled(i)' => Settled(i)
    BY <2>2 DEF Settled
  <2>4. Covered(i) => Covered(i)'
    BY <1>3, <2>2 DEF Covered, Unfinished, Instants, ShownBy
  <2> QED BY <2>1, <2>3, <2>4
<1> QED BY <1>1, <1>4, <1>5 DEF TimeInv

\* A session is replaced by one that differs in nothing that counts.
LEMMA ReplacedSame ==
  ASSUME NEW t \in Nat, NEW rs \in SesTables(t), NEW c \in 1..Len(rs),
         NEW a \in SesRow, FitsUntil(a, t), a.s = rs[c].s, a.e = rs[c].e, a.there = rs[c].there,
         a.hidden = rs[c].hidden, a.split = rs[c].split, NEW us, us = Put(rs, c, a)
  PROVE  us \in SesTables(t) /\ SameTimes(rs, us)
<1>1. /\ us \in SesTables(t) /\ Len(us) = Len(rs) /\ us[c] = a
      /\ \A j \in 1..Len(rs) : j # c => us[j] = rs[j]
  BY Replaced
<1>2. SameTimes(rs, us)
  BY <1>1 DEF SameTimes
<1> QED BY <1>1, <1>2

LEMMA SetMonitoredKeeps ==
  ASSUME SesInv, SetMonitored
  PROVE  SesInv'
<1>1. /\ registered' = ~registered /\ UNCHANGED <<now, slices, open, rows, overrides, seen, gone, choice, late>>
      /\ \/ ops < MaxSesOps /\ ops' = ops + 1 /\ applied' = FALSE
         \/ ops' = ops /\ applied' = applied
  BY DEF SetMonitored, Command
<1>2. SesShape /\ TimeInv /\ ChoiceInv /\ ChoiceReapplied
  BY DEF SesInv
<1>3. SesShape'
  <2>1. registered' \in BOOLEAN /\ ops' \in 0..MaxSesOps /\ applied' \in BOOLEAN
    <3>1. registered \in BOOLEAN /\ applied \in BOOLEAN /\ ops \in 0..MaxSesOps /\ MaxSesOps \in Nat
      BY <1>2, SesAssumption DEF SesShape, SesTypeOK
    <3>2. ops' \in 0..MaxSesOps
      BY <1>1, <3>1
    <3>3. registered' \in BOOLEAN
      BY <1>1
    <3> QED BY <1>1, <3>1, <3>2, <3>3
  <2> QED BY <1>1, <1>2, <2>1 DEF SesShape, SesTypeOK, Ids
<1>4. TimeInv'
  <2>1. rows' \in SesTables(now) /\ SameTimes(rows, rows')
    BY <1>1, <1>2 DEF SesShape, SameTimes
  <2> QED BY <1>1, <2>1, TimeSame
<1>5. ChoiceInv'
  BY <1>1, <1>2, ChoiceSame
<1>6. ChoiceReapplied'
  BY <1>1, <1>2 DEF ChoiceReapplied
<1> QED BY <1>3, <1>4, <1>5, <1>6 DEF SesInv

\* The override of a choice is the one that is applied to its session.
LEMMA ImportDataKeeps ==
  ASSUME SesInv, ImportData
  PROVE  SesInv'
<1>1. /\ rows' = apply_manual_session_overrides(rows) /\ applied' = TRUE
      /\ UNCHANGED <<now, slices, open, overrides, registered, ops, seen, gone, choice, late>>
  BY DEF ImportData
<1>2. SesShape /\ TimeInv /\ ChoiceInv
  BY DEF SesInv
<1>3. now \in Nat /\ rows \in SesTables(now) /\ overrides \in Seq(SesOverride) /\ Len(overrides) \in Nat
  BY <1>2, Bounds DEF SesShape, SesTypeOK
<1>4. /\ rows' \in SesTables(now) /\ SameTimes(rows, rows')
      /\ \A i \in 1..Len(rows) : \A p \in SesProjRef : Agreed(rows, i, p, Len(overrides)) => rows'[i].proj = p
  BY <1>1, <1>3, ReappliedIs
<1>5. rows' \in Seq(SesRow) /\ Ids' = Ids /\ Len(rows') = Len(rows)
  BY <1>3, <1>4, TableTyped DEF SameTimes, Ids
<1>6. SesShape'
  <2>1. SesTypeOK'
    BY <1>1, <1>2, <1>5 DEF SesShape, SesTypeOK
  <2> QED BY <1>1, <1>2, <1>4, <1>5, <2>1 DEF SesShape
<1>7. TimeInv'
  BY <1>1, <1>4, TimeSame
<1>8. \A i \in Ids : rows'[i].s = rows[i].s /\ rows'[i].e = rows[i].e /\ rows'[i].there = rows[i].there
  BY <1>4 DEF SameTimes, Ids
<1>9. ChoiceInv'
  BY <1>1, <1>2, <1>8, ChoiceSame
<1>10. ASSUME NEW i \in Ids, rows[i].there, choice[rows[i].s].e = rows[i].e
       PROVE  rows'[i].proj = choice[rows[i].s].proj
  <2> DEFINE t == rows[i].s
             O == OverridesIn(overrides)
             p == choice[t].proj
  <2>1. t \in 0..SesEnd /\ rows[i].e # 0 /\ choice[t].e = rows[i].e /\ p \in SesProjRef
    <3>1. t \in 0..SesEnd /\ rows[i].e \in Nat /\ rows[i].s \in Nat /\ rows[i].s < rows[i].e
      BY <1>2, Bounds
    <3>2. choice \in [0..SesEnd -> [e: Nat, proj: SesProjRef]]
      BY <1>2 DEF SesShape, SesTypeOK
    <3> QED BY <1>10, <3>1, <3>2
  <2>2. PICK o \in O : o.e = choice[t].e /\ o.proj = p /\ Decides(rows, O, o, t)
    BY <1>2, <2>1 DEF ChoiceInv, Chosen
  <2>3. o.s = t /\ o.e = rows[i].e /\ rows[o.id].s = t /\ o.id \in Ids
    BY <1>2, <2>1, <2>2 DEF Decides, SesShape
  <2>4. ASSUME NEW q \in O, i \in Targets(rows, q)
        PROVE  q.proj = p
    <3>1. CASE q.id \in There(rows)
      <4>1. q.id = i
        BY <2>4, <3>1 DEF Targets
      <4>2. q.s = t /\ q.e = o.e
        <5> HIDE DEF O, p
        <5> QED BY <1>10, <2>2, <4>1 DEF Decides
      <4> QED BY <1>2, <2>2, <2>3, <4>2 DEF ChoiceInv, IntervalsApart
    <3>2. CASE q.id \notin There(rows)
      <4>1. rows[i].s = q.s /\ rows[i].e = q.e
        BY <2>4, <3>2 DEF Targets
      <4> QED BY <1>2, <2>2, <2>3, <4>1 DEF ChoiceInv, IntervalsApart
    <3> QED BY <3>1, <3>2
  <2>5. i \in Targets(rows, o)
    <3>1. i \in There(rows)
      BY <1>10 DEF There, Ids
    <3>2. CASE o.id \in There(rows)
      <4>1. o.id = i
        BY <1>3, <2>3, <3>1, <3>2, TableTyped DEF StartsApart
      <4> QED BY <3>2, <4>1 DEF Targets
    <3>3. CASE o.id \notin There(rows)
      BY <2>3, <3>1, <3>3 DEF Targets
    <3> QED BY <3>2, <3>3
  <2>6. \E k \in 1..Len(overrides) : i \in Targets(rows, Newest(k))
    <3>1. PICK j \in 1..Len(overrides) : overrides[j] = o
      BY DEF OverridesIn
    <3> DEFINE k == Len(overrides) - j + 1
    <3>2. k \in 1..Len(overrides) /\ Len(overrides) - k + 1 = j
      BY <1>3
    <3>3. Newest(k) = o
      BY <3>1, <3>2 DEF Newest
    <3> HIDE DEF k
    <3> QED BY <2>5, <3>2, <3>3
  <2>7. Agreed(rows, i, p, Len(overrides))
    BY <2>4, <2>6 DEF Agreed
  <2> HIDE DEF p
  <2>8. rows'[i].proj = p
    BY <1>4, <2>1, <2>7 DEF Ids
  <2> QED BY <2>8 DEF p
<1>11. ChoiceReapplied'
  <2> SUFFICES ASSUME NEW i \in Visible(rows'), choice[rows'[i].s].e = rows'[i].e
               PROVE  rows'[i].proj = choice[rows'[i].s].proj
    BY <1>1 DEF ChoiceReapplied
  <2>1. i \in Ids /\ rows'[i].there
    BY <1>5 DEF Visible, There, Ids
  <2> QED BY <1>8, <1>10, <2>1
<1> QED BY <1>6, <1>7, <1>9, <1>11 DEF SesInv

LEMMA CommandIs ==
  ASSUME SesShape, Command
  PROVE  ops' \in 0..MaxSesOps /\ applied' = FALSE
<1>1. ops \in 0..MaxSesOps /\ MaxSesOps \in Nat
  BY SesAssumption DEF SesShape, SesTypeOK
<1> QED BY <1>1 DEF Command

Boosted(r) == [r EXCEPT !.boost = ~r.boost]

LEMMA BoostKeeps ==
  ASSUME SesInv, NEW i \in There(rows), update_session_rate_multiplier(i)
  PROVE  SesInv'
<1>1. SesShape /\ TimeInv /\ ChoiceInv
  BY DEF SesInv
<1>2. /\ ops' \in 0..MaxSesOps /\ applied' = FALSE
      /\ UNCHANGED <<now, slices, open, overrides, registered, seen, gone, choice, late>>
  BY <1>1, CommandIs DEF update_session_rate_multiplier
<1>3. rows' = Put(rows, i, Boosted(rows[i]))
  BY DEF update_session_rate_multiplier, Put, Boosted
<1>4. now \in Nat /\ rows \in SesTables(now) /\ i \in 1..Len(rows) /\ rows[i] \in SesRow /\ FitsUntil(rows[i], now)
  BY <1>1, Bounds DEF SesShape, There, Ids
<1> DEFINE r == rows[i]
           a == Boosted(r)
<1>5. /\ a \in SesRow /\ a.s = r.s /\ a.e = r.e /\ a.dur = r.dur /\ a.there = r.there
      /\ a.hidden = r.hidden /\ a.split = r.split
  <2>1. r \in SesRow
    BY <1>4
  <2> HIDE DEF r
  <2> QED BY <2>1 DEF SesRow, Boosted
<1>6. FitsUntil(a, now)
  BY <1>4, <1>5 DEF FitsUntil
<1>7. rows' \in SesTables(now) /\ SameTimes(rows, rows')
  <2> HIDE DEF a
  <2> QED BY <1>3, <1>4, <1>5, <1>6, ReplacedSame DEF a
<1>8. rows' \in Seq(SesRow) /\ Ids' = Ids /\ Len(rows') = Len(rows)
  BY <1>4, <1>7, TableTyped DEF SameTimes, Ids
<1>9. SesShape'
  <2>1. SesTypeOK'
    BY <1>1, <1>2, <1>8 DEF SesShape, SesTypeOK
  <2> QED BY <1>1, <1>2, <1>7, <1>8, <2>1 DEF SesShape
<1>10. TimeInv'
  BY <1>2, <1>7, TimeSame
<1>11. ChoiceInv'
  <2>1. \A j \in Ids : rows'[j].s = rows[j].s /\ rows'[j].there = rows[j].there
    BY <1>7 DEF SameTimes, Ids
  <2> QED BY <1>1, <1>2, <2>1, ChoiceSame
<1> QED BY <1>2, <1>9, <1>10, <1>11 DEF SesInv, ChoiceReapplied

LEMMA DeleteKeeps ==
  ASSUME SesInv, NEW i \in There(rows), delete_session(i)
  PROVE  SesInv'
<1>1. SesShape /\ TimeInv /\ ChoiceInv
  BY DEF SesInv
<1>2. /\ ops' \in 0..MaxSesOps /\ applied' = FALSE /\ gone' = gone \cup Instants(rows[i])
      /\ UNCHANGED <<now, slices, open, overrides, registered, seen, choice, late>>
  BY <1>1, CommandIs DEF delete_session
<1> DEFINE r == rows[i]
           a == HiddenRow(r)
<1>3. rows' = Put(rows, i, a)
  BY DEF delete_session, Put, HiddenRow
<1>4. /\ now \in Nat /\ rows \in SesTables(now) /\ Len(rows) \in Nat /\ i \in 1..Len(rows) /\ i \in Ids
      /\ r \in SesRow /\ FitsUntil(r, now) /\ rows[i].there
      /\ r.s \in Nat /\ r.e \in Nat /\ r.s < r.e /\ Instants(r) \subseteq 0..SesEnd
  BY <1>1, Bounds DEF SesShape, There, Ids
<1> HIDE DEF r
<1>5. /\ a \in SesRow /\ FitsUntil(a, now) /\ a.hidden \in BOOLEAN /\ a.s = r.s /\ a.e = r.e /\ a.there = r.there
      /\ a.hidden /\ a.split = r.split /\ a.proj = r.proj
  <2>1. a = HiddenRow(r)
    OBVIOUS
  <2> HIDE DEF a
  <2> QED BY <1>4, <2>1, HiddenIs
<1> HIDE DEF a
<1>6. /\ rows' \in SesTables(now) /\ Len(rows') = Len(rows) /\ rows'[i] = a
      /\ \A j \in 1..Len(rows) : j # i => rows'[j] = rows[j]
  <2> DEFINE rs == rows
             us == rows'
  <2>1. /\ now \in Nat /\ rs \in SesTables(now) /\ i \in 1..Len(rs) /\ a \in SesRow /\ FitsUntil(a, now)
        /\ a.s = rs[i].s /\ a.there = rs[i].there /\ us = Put(rs, i, a)
    BY <1>3, <1>4, <1>5 DEF r
  <2> HIDE DEF rs, us
  <2>2. us \in SesTables(now) /\ Len(us) = Len(rs) /\ us[i] = a /\ \A j \in 1..Len(rs) : j # i => us[j] = rs[j]
    BY <2>1, Replaced
  <2> QED BY <2>2 DEF rs, us
<1>7. rows' \in Seq(SesRow) /\ Ids' = Ids
  BY <1>4, <1>6, TableTyped DEF Ids
<1>8. SesShape'
  <2>1. seen' \cup gone' \subseteq 0..SesEnd
    <3>1. seen \cup gone \subseteq 0..SesEnd
      BY <1>1 DEF SesShape, SesTypeOK
    <3> QED BY <1>2, <1>4, <3>1 DEF r
  <2>2. SesTypeOK'
    BY <1>1, <1>2, <1>6, <1>7, <2>1 DEF SesShape, SesTypeOK
  <2> QED BY <1>1, <1>2, <1>6, <1>7, <2>2 DEF SesShape
<1>9. \A j \in Ids : rows'[j].s = rows[j].s /\ rows'[j].e = rows[j].e /\ rows'[j].there = rows[j].there /\ rows'[j].split = rows[j].split
  BY <1>5, <1>6 DEF Ids, r
<1>10. ShownBy(rows) \subseteq ShownBy(rows') \cup gone'
  <2> SUFFICES ASSUME NEW x \in ShownBy(rows), x \notin gone'
               PROVE  x \in ShownBy(rows')
    OBVIOUS
  <2>1. PICK j \in Visible(rows) : x \in Instants(rows[j])
    BY DEF ShownBy
  <2>2. j # i /\ j \in 1..Len(rows)
    BY <1>2, <2>1 DEF Visible, There
  <2>3. rows'[j] = rows[j] /\ j \in Visible(rows')
    BY <1>6, <2>1, <2>2 DEF Visible, There
  <2> QED BY <2>1, <2>3 DEF ShownBy
<1>11. TimeInv'
  <2>1. \A t \in seen : Kept(t)'
    <3>1. \A k \in 1..Len(slices) :
            k \in 1..Len(slices') /\ slices'[k].s = slices[k].s /\ slices[k].e <= slices'[k].e
                                  /\ slices'[k].e \in Nat
      BY <1>1, <1>2, Bounds
    <3>2. \A j \in Ids : /\ j \in 1..Len(rows') /\ rows'[j].s = rows[j].s /\ rows'[j].there = rows[j].there
                         /\ rows[j].split # 0 => rows'[j].split # 0
      BY <1>6, <1>9 DEF Ids
    <3> QED BY <1>1, <1>2, <1>10, <3>1, <3>2, SeenKept
  <2>2. ASSUME NEW j \in Ids, Settled(j)'
        PROVE  Covered(j)'
    <3>1. CASE j = i
      <4>1. rows'[i].s \in gone'
        <5>1. r.s \in Instants(r)
          BY <1>4 DEF Instants
        <5> QED BY <1>2, <1>5, <1>6, <5>1 DEF r
      <4> QED BY <2>2, <3>1, <4>1 DEF Settled
    <3>2. CASE j # i
      <4>1. rows'[j] = rows[j]
        BY <1>6, <3>2 DEF Ids
      <4>2. Settled(j)
        BY <1>2, <2>2, <4>1 DEF Settled
      <4>3. ~Unfinished(rows[j]) /\ Instants(rows[j]) \subseteq ShownBy(rows) \cup gone
        BY <1>1, <4>2 DEF TimeInv, Covered
      <4>4. ~Unfinished(rows[j])'
        BY <1>2, <4>1, <4>3 DEF Unfinished
      <4>5. Instants(rows'[j]) \subseteq ShownBy(rows') \cup gone'
        BY <1>2, <1>10, <4>1, <4>3
      <4> QED BY <4>4, <4>5 DEF Covered, ShownBy
    <3> QED BY <3>1, <3>2
  <2> QED BY <1>2, <1>7, <2>1, <2>2 DEF TimeInv
<1>12. ChoiceInv'
  BY <1>1, <1>2, <1>9, ChoiceSame
<1> QED BY <1>2, <1>8, <1>11, <1>12 DEF SesInv, ChoiceReapplied

\* A recorded choice is decided by its override, and no other choice by that one.
LEMMA RecordChosen ==
  ASSUME NEW t \in Nat, NEW rs \in SesTables(t), NEW O, IntervalsApart(O), NEW ch, Chosen(rs, O, ch),
         NEW i \in There(rs), \A o \in O : o.id \in 1..Len(rs),
         NEW m, m.id = i, m.s = rs[i].s,
         NEW Q, Q = {o \in O : o.id # i /\ ~(o.s = m.s /\ o.e = m.e)} \cup {m},
         NEW dh, dh[m.s].e = m.e, dh[m.s].proj = m.proj,
         \A x \in 0..SesEnd : x # m.s => dh[x] = ch[x]
  PROVE  Chosen(rs, Q, dh)
<1> SUFFICES ASSUME NEW x \in 0..SesEnd, dh[x].e # 0
             PROVE  \E o \in Q : o.e = dh[x].e /\ o.proj = dh[x].proj /\ Decides(rs, Q, o, x)
  BY DEF Chosen
<1>1. CASE x = m.s
  <2>1. ASSUME NEW p \in Q, rs[p.id].there, rs[p.id].s = x
        PROVE  p.s = x /\ p.e = m.e
    <3>1. p = m \/ (p \in O /\ p.id # i)
      OBVIOUS
    <3>2. CASE p \in O /\ p.id # i
      <4>1. p.id \in There(rs)
        BY <2>1, <3>2 DEF There
      <4> QED BY <1>1, <2>1, <3>2, <4>1, TableTyped DEF StartsApart
    <3> QED BY <1>1, <3>1, <3>2
  <2>2. m \in Q /\ Decides(rs, Q, m, x)
    BY <1>1, <2>1 DEF Decides
  <2> QED BY <1>1, <2>2
<1>2. CASE x # m.s
  <2>1. dh[x] = ch[x]
    BY <1>2
  <2>2. PICK o \in O : o.e = dh[x].e /\ o.proj = dh[x].proj /\ Decides(rs, O, o, x)
    BY <2>1 DEF Chosen
  <2>3. o.id # i /\ o.s # m.s
    BY <1>2, <2>2 DEF Decides
  <2>4. o \in Q
    BY <2>3
  <2>5. Decides(rs, Q, o, x)
    BY <1>2, <2>2 DEF Decides
  <2> QED BY <2>2, <2>4, <2>5
<1> QED BY <1>1, <1>2

LEMMA AssignKeeps ==
  ASSUME SesInv, NEW i \in There(rows), NEW p \in SesProjRef, assign_session_to_project(i, p)
  PROVE  SesInv'
<1>1. SesShape /\ TimeInv /\ ChoiceInv
  BY DEF SesInv
<1>2. /\ ops' \in 0..MaxSesOps /\ applied' = FALSE /\ ~OverrideFails(overrides, i, rows[i])
      /\ UNCHANGED <<now, slices, open, registered, seen, gone, late>>
  BY <1>1, CommandIs DEF assign_session_to_project
<1> DEFINE r == rows[i]
           a == InProject(r, p)
           m == [id |-> i, s |-> r.s, e |-> r.e, proj |-> p]
           Q == OverridesIn(overrides')
           O == OverridesIn(overrides)
<1>3. /\ rows' = Put(rows, i, a) /\ overrides' = upsert_manual_session_override(overrides, i, r, p)
      /\ choice' = [choice EXCEPT ![r.s] = [e |-> r.e, proj |-> p]]
  BY DEF assign_session_to_project, Put, InProject
<1>4. /\ now \in Nat /\ rows \in SesTables(now) /\ Len(rows) \in Nat /\ i \in 1..Len(rows) /\ i \in Ids
      /\ i \in 1..MaxRows /\ r \in SesRow /\ FitsUntil(r, now)
      /\ r.s \in 0..SesEnd /\ r.e \in Nat
  BY <1>1, Bounds, SesAssumption DEF SesShape, SesTypeOK, There, Ids
<1>5. /\ overrides \in Seq(SesOverride) /\ IntervalsApart(O) /\ \A o \in O : o.id \in Ids
      /\ choice \in [0..SesEnd -> [e: Nat, proj: SesProjRef]]
  BY <1>1 DEF SesShape, SesTypeOK, ChoiceInv
<1>6. /\ rows' \in SesTables(now) /\ SameTimes(rows, rows')
  <2>1. r = rows[i] /\ a = InProject(r, p)
    OBVIOUS
  <2> HIDE DEF r, a
  <2>2. /\ a \in SesRow /\ FitsUntil(a, now) /\ a.s = r.s /\ a.e = r.e /\ a.there = r.there
        /\ a.hidden = r.hidden /\ a.split = r.split /\ a.proj = p
    BY <1>4, <2>1, InProjectIs
  <2>3. /\ a.s = rows[i].s /\ a.e = rows[i].e /\ a.there = rows[i].there
        /\ a.hidden = rows[i].hidden /\ a.split = rows[i].split
    BY <2>1, <2>2
  <2> QED BY <1>3, <1>4, <2>2, <2>3, ReplacedSame
<1>7. rows' \in Seq(SesRow) /\ Ids' = Ids /\ Len(rows') = Len(rows)
  BY <1>4, <1>6, TableTyped DEF SameTimes, Ids
<1>8. /\ overrides' \in Seq(SesOverride) /\ m \in SesOverride /\ IntervalsApart(Q)
      /\ Q = {o \in O : o.id # i /\ ~(o.s = r.s /\ o.e = r.e)} \cup {m}
  <2> DEFINE ns == overrides'
  <2>1. ns = upsert_manual_session_override(overrides, i, r, p) /\ ~OverrideFails(overrides, i, r)
    BY <1>2, <1>3
  <2>2. m = [id |-> i, s |-> r.s, e |-> r.e, proj |-> p]
    OBVIOUS
  <2> HIDE DEF ns, m, r
  <2>3. /\ ns \in Seq(SesOverride) /\ m \in SesOverride /\ IntervalsApart(OverridesIn(ns))
        /\ OverridesIn(ns) = {o \in O : o.id # i /\ ~(o.s = r.s /\ o.e = r.e)} \cup {m}
    BY <1>4, <1>5, <2>1, <2>2, RecordedIs
  <2> QED BY <2>3 DEF ns
<1>9. SesShape'
  <2>1. choice' \in [0..SesEnd -> [e: Nat, proj: SesProjRef]]
    <3> HIDE DEF r
    <3> QED BY <1>3, <1>4, <1>5
  <2>2. SesTypeOK'
    BY <1>1, <1>2, <1>7, <1>8, <2>1 DEF SesShape, SesTypeOK
  <2>3. \A o \in Q : o.id \in Ids
    BY <1>4, <1>5, <1>8
  <2> QED BY <1>1, <1>2, <1>6, <1>7, <2>2, <2>3 DEF SesShape
<1>10. TimeInv'
  BY <1>2, <1>6, TimeSame
<1>11. ChoiceInv'
  <2>1. \A j \in Ids : rows'[j].s = rows[j].s /\ rows'[j].there = rows[j].there
    BY <1>6 DEF SameTimes, Ids
  <2>2. Chosen(rows', O, choice)
    <3>1. \A o \in O : rows'[o.id].s = rows[o.id].s /\ (rows'[o.id].there => rows[o.id].there)
      BY <1>5, <2>1
    <3>2. Chosen(rows, O, choice)
      BY <1>1 DEF ChoiceInv
    <3> HIDE DEF O
    <3> QED BY <3>1, <3>2, ChosenSame
  <2>3. i \in There(rows') /\ m.id = i /\ m.s = rows'[i].s /\ m.s = r.s /\ m.e = r.e /\ m.proj = p
    BY <1>4, <1>7, <2>1 DEF There
  <2>4. choice'[m.s].e = m.e /\ choice'[m.s].proj = m.proj /\ \A x \in 0..SesEnd : x # m.s => choice'[x] = choice[x]
    <3> HIDE DEF r
    <3> QED BY <1>3, <1>4, <1>5, <2>3
  <2>5. \A o \in O : o.id \in 1..Len(rows')
    BY <1>5, <1>7 DEF Ids
  <2>6. Q = {o \in O : o.id # i /\ ~(o.s = m.s /\ o.e = m.e)} \cup {m}
    BY <1>8, <2>3
  <2>7. Chosen(rows', Q, choice')
    <3> DEFINE rs == rows'
               dh == choice'
    <3>1. /\ now \in Nat /\ rs \in SesTables(now) /\ Chosen(rs, O, choice) /\ IntervalsApart(O)
      BY <1>4, <1>5, <1>6, <2>2
    <3>2. /\ i \in There(rs) /\ m.id = i /\ m.s = rs[i].s /\ \A o \in O : o.id \in 1..Len(rs)
      BY <2>3, <2>5
    <3>3. /\ dh[m.s].e = m.e /\ dh[m.s].proj = m.proj /\ \A x \in 0..SesEnd : x # m.s => dh[x] = choice[x]
      BY <2>4
    <3> HIDE DEF m, Q, O, rs, dh
    <3>4. Chosen(rs, Q, dh)
      BY <2>6, <3>1, <3>2, <3>3, RecordChosen
    <3> QED BY <3>4 DEF rs, dh
  <2> QED BY <1>8, <2>7 DEF ChoiceInv
<1> QED BY <1>2, <1>9, <1>10, <1>11 DEF SesInv, ChoiceReapplied

-----------------------------------------------------------------------------
(* Sessions in the dashboard: a session is split. *)

\* The seconds of the first part, rounded, leave no part more than its length.
LEMMA SplitNumbers ==
  ASSUME NEW d \in Nat, NEW span \in Nat, NEW n \in Nat, 0 < n, n < span, d <= span,
         NEW secs, secs = (2 * d * n + span) \div (2 * span)
  PROVE  secs \in Nat /\ secs <= n /\ secs <= d /\ d - secs \in Nat /\ d - secs <= span - n
<1> DEFINE dn == d * n
           x == 2 * dn + span
           y == 2 * span
<1>1. dn \in Nat /\ x \in Nat /\ y \in Nat /\ y > 0 /\ secs = x \div y
  <2>1. dn \in Nat
    BY Z3
  <2>2. 2 * d * n = 2 * dn
    BY Z3
  <2> HIDE DEF dn
  <2> QED BY <2>1, <2>2
<1>2. secs \in Nat /\ y * secs <= x /\ x < y * (secs + 1)
  <2> HIDE DEF x, y
  <2> QED BY <1>1, Z3
<1>3. secs <= n
  <2> SUFFICES ASSUME n + 1 <= secs PROVE FALSE
    BY <1>2
  <2>1. y * (n + 1) <= y * secs
    BY <1>1, <1>2, Z3
  <2>2. dn <= span * n
    BY Z3
  <2>3. y * (n + 1) = 2 * (span * n) + 2 * span /\ span * n \in Nat
    BY Z3
  <2> QED BY <1>1, <1>2, <2>1, <2>2, <2>3, Z3
<1>4. secs <= d
  <2> SUFFICES ASSUME d + 1 <= secs PROVE FALSE
    BY <1>2
  <2>1. y * (d + 1) <= y * secs
    BY <1>1, <1>2, Z3
  <2>2. dn <= d * span
    BY Z3
  <2>3. y * (d + 1) = 2 * (d * span) + 2 * span /\ d * span \in Nat
    BY Z3
  <2> QED BY <1>1, <1>2, <2>1, <2>2, <2>3, Z3
<1>5. d - secs <= span - n
  <2> DEFINE u == span - d
             v == span - n
  <2> SUFFICES ASSUME secs + 1 <= d - v PROVE FALSE
    BY <1>2
  <2>1. u \in Nat /\ v \in Nat /\ u * v \in Nat
    BY Z3
  <2>2. y * (secs + 1) <= y * (d - v)
    BY <1>1, <1>2, Z3
  <2>3. y * (d - v) = 2 * dn - 2 * (u * v)
    BY Z3
  <2> HIDE DEF u, v
  <2>4. x < 2 * dn
    BY <1>1, <1>2, <2>1, <2>2, <2>3, Z3
  <2> QED BY <1>1, <2>4, Z3
<1> QED BY <1>2, <1>3, <1>4, <1>5

SplitSecs(r, at) == (2 * r.dur * (at - r.s) + (r.e - r.s)) \div (2 * (r.e - r.s))
FirstPart(r, at, p, i) == [r EXCEPT !.e = at, !.dur = SplitSecs(r, at), !.proj = p, !.split = i]
OtherPart(r, at, q, i) == [r EXCEPT !.s = at, !.dur = r.dur - SplitSecs(r, at), !.proj = q, !.split = i]

LEMMA SecsFit ==
  ASSUME NEW t \in Nat, NEW r \in SesRow, FitsUntil(r, t), NEW at \in (r.s + 1)..(r.e - 1),
         NEW secs, secs = SplitSecs(r, at)
  PROVE  /\ at \in Nat /\ secs \in Nat /\ r.dur - secs \in Nat /\ secs <= at - r.s /\ r.dur - secs <= r.e - at
         /\ r.s < at /\ at < r.e /\ r.e <= t
<1> DEFINE d == r.dur
           s == r.s
           e == r.e
           span == e - s
           n == at - s
<1>1. d \in Nat /\ s \in Nat /\ e \in Nat /\ s < e /\ e <= t /\ d <= e - s
  BY DEF SesRow, FitsUntil
<1>2. at \in (s + 1)..(e - 1) /\ secs = (2 * d * n + span) \div (2 * span)
  BY DEF SplitSecs
<1> HIDE DEF d, s, e
<1>3. at \in Nat /\ s < at /\ at < e
  BY <1>1, <1>2
<1>4. span \in Nat /\ n \in Nat /\ 0 < n /\ n < span /\ d <= span /\ span - n = e - at
  BY <1>1, <1>3
<1>5. secs \in Nat /\ secs <= n /\ secs <= d /\ d - secs \in Nat /\ d - secs <= span - n
  <2> HIDE DEF span, n
  <2> QED BY <1>1, <1>2, <1>4, SplitNumbers
<1>6. /\ at \in Nat /\ secs \in Nat /\ d - secs \in Nat /\ secs <= at - s /\ d - secs <= e - at
      /\ s < at /\ at < e /\ e <= t
  BY <1>1, <1>3, <1>4, <1>5
<1> QED BY <1>6 DEF d, s, e

LEMMA FirstPartIs ==
  ASSUME NEW t \in Nat, NEW r \in SesRow, FitsUntil(r, t), NEW at \in (r.s + 1)..(r.e - 1),
         NEW p \in SesProjRef, NEW i \in 1..MaxRows, NEW a, a = FirstPart(r, at, p, i)
  PROVE  /\ a \in SesRow /\ FitsUntil(a, t) /\ a.s = r.s /\ a.e = at /\ a.proj = p
         /\ a.there = r.there /\ a.hidden = r.hidden /\ a.split = i
<1> DEFINE secs == SplitSecs(r, at)
           v == [r EXCEPT !.e = at]
           y == [v EXCEPT !.dur = secs]
           z == [y EXCEPT !.proj = p]
<1>1. /\ at \in Nat /\ secs \in Nat /\ r.dur - secs \in Nat /\ secs <= at - r.s /\ r.dur - secs <= r.e - at
      /\ r.s < at /\ at < r.e /\ r.e <= t
  <2>1. secs = SplitSecs(r, at)
    OBVIOUS
  <2> HIDE DEF secs
  <2> QED BY <2>1, SecsFit
<1>2. a = [z EXCEPT !.split = i] /\ MaxRows \in Nat
  BY SesAssumption DEF FirstPart, SesRow
<1> HIDE DEF secs
<1>3. v \in SesRow /\ v.s = r.s /\ v.e = at /\ v.there = r.there /\ v.hidden = r.hidden
  BY <1>1 DEF SesRow
<1> HIDE DEF v
<1>4. y \in SesRow /\ y.s = r.s /\ y.e = at /\ y.dur = secs /\ y.there = r.there /\ y.hidden = r.hidden
  BY <1>1, <1>3 DEF SesRow
<1> HIDE DEF y
<1>5. /\ z \in SesRow /\ z.s = r.s /\ z.e = at /\ z.dur = secs /\ z.there = r.there /\ z.hidden = r.hidden
      /\ z.proj = p
  BY <1>4 DEF SesRow
<1> HIDE DEF z
<1>6. /\ a \in SesRow /\ a.s = r.s /\ a.e = at /\ a.dur = secs /\ a.there = r.there /\ a.hidden = r.hidden
      /\ a.proj = p /\ a.split = i
  <2>1. i \in 0..MaxRows
    BY <1>2
  <2> QED BY <1>2, <1>5, <2>1 DEF SesRow
<1>7. r.s \in Nat /\ r.e \in Nat
  BY DEF SesRow
<1> QED BY <1>1, <1>6, <1>7 DEF FitsUntil

LEMMA OtherPartIs ==
  ASSUME NEW t \in Nat, NEW r \in SesRow, FitsUntil(r, t), NEW at \in (r.s + 1)..(r.e - 1),
         NEW p \in SesProjRef, NEW i \in 1..MaxRows, NEW a, a = OtherPart(r, at, p, i)
  PROVE  /\ a \in SesRow /\ FitsUntil(a, t) /\ a.s = at /\ a.e = r.e /\ a.proj = p
         /\ a.there = r.there /\ a.hidden = r.hidden /\ a.split = i
<1> DEFINE secs == SplitSecs(r, at)
           d == r.dur - secs
           v == [r EXCEPT !.s = at]
           y == [v EXCEPT !.dur = d]
           z == [y EXCEPT !.proj = p]
<1>1. /\ at \in Nat /\ secs \in Nat /\ r.dur - secs \in Nat /\ secs <= at - r.s /\ r.dur - secs <= r.e - at
      /\ r.s < at /\ at < r.e /\ r.e <= t
  <2>1. secs = SplitSecs(r, at)
    OBVIOUS
  <2> HIDE DEF secs
  <2> QED BY <2>1, SecsFit
<1>2. a = [z EXCEPT !.split = i] /\ MaxRows \in Nat
  BY SesAssumption DEF OtherPart, SesRow
<1>0. d \in Nat /\ d <= r.e - at /\ at < r.e
  BY <1>1
<1> HIDE DEF secs, d
<1>3. v \in SesRow /\ v.s = at /\ v.e = r.e /\ v.there = r.there /\ v.hidden = r.hidden
  BY <1>1 DEF SesRow
<1> HIDE DEF v
<1>4. y \in SesRow /\ y.s = at /\ y.e = r.e /\ y.dur = d /\ y.there = r.there /\ y.hidden = r.hidden
  BY <1>0, <1>3 DEF SesRow
<1> HIDE DEF y
<1>5. /\ z \in SesRow /\ z.s = at /\ z.e = r.e /\ z.dur = d /\ z.there = r.there /\ z.hidden = r.hidden
      /\ z.proj = p
  BY <1>4 DEF SesRow
<1> HIDE DEF z
<1>6. /\ a \in SesRow /\ a.s = at /\ a.e = r.e /\ a.dur = d /\ a.there = r.there /\ a.hidden = r.hidden
      /\ a.proj = p /\ a.split = i
  <2>1. i \in 0..MaxRows
    BY <1>2
  <2> QED BY <1>2, <1>5, <2>1 DEF SesRow
<1> QED BY <1>0, <1>1, <1>6 DEF FitsUntil

\* The session i has become a, and b is new.
SplitInto(rs, i, a, b, ns) ==
  /\ Len(ns) = Len(rs) + 1 /\ ns[i] = a /\ ns[Len(rs) + 1] = b
  /\ \A j \in 1..Len(rs) : j # i => ns[j] = rs[j]

StartFree(rs, b) == \A j \in There(rs) : rs[j].s # b.s

LEMMA SplitTable ==
  ASSUME NEW t \in Nat, NEW rs \in SesTables(t), NEW i \in 1..Len(rs),
         NEW a \in SesRow, FitsUntil(a, t), a.s = rs[i].s, a.there = rs[i].there,
         NEW b \in SesRow, FitsUntil(b, t), StartFree(rs, b),
         NEW ns, ns = Append(Put(rs, i, a), b)
  PROVE  ns \in SesTables(t) /\ SplitInto(rs, i, a, b, ns)
<1> DEFINE us == Put(rs, i, a)
           n == Len(rs)
<1>1. /\ us \in SesTables(t) /\ Len(us) = n /\ us[i] = a
      /\ \A j \in 1..n : j # i => us[j] = rs[j]
  BY Replaced
<1>2. /\ us \in Seq(SesRow) /\ n \in Nat /\ StartsApart(us)
      /\ \A j \in 1..n : FitsUntil(us[j], t)
  BY <1>1, TableTyped
<1>3. \A j \in 1..n : us[j].s = rs[j].s /\ us[j].there = rs[j].there
  BY <1>1
<1>4. ns = Append(us, b)
  OBVIOUS
<1> HIDE DEF us
<1>5. ns \in Seq(SesRow) /\ Len(ns) = n + 1 /\ ns[n + 1] = b /\ \A j \in 1..n : ns[j] = us[j]
  <2> HIDE DEF n
  <2>1. ns \in Seq(SesRow) /\ Len(ns) = Len(us) + 1
    BY <1>2, <1>4
  <2>2. ns[Len(us) + 1] = b /\ \A j \in 1..Len(us) : ns[j] = us[j]
    BY <1>2, <1>4
  <2> QED BY <1>1, <2>1, <2>2
<1>6. \A j \in 1..Len(ns) : j \in 1..n \/ j = n + 1
  <2> HIDE DEF n
  <2> QED BY <1>2, <1>5
<1>7. \A j \in 1..Len(ns) : FitsUntil(ns[j], t)
  BY <1>2, <1>5, <1>6
<1>8. \A j \in There(ns) : (j \in There(us) /\ ns[j] = us[j] /\ us[j].s # b.s) \/ (j = n + 1 /\ ns[j] = b)
  <2> SUFFICES ASSUME NEW j \in There(ns), j # n + 1
               PROVE  j \in There(us) /\ ns[j] = us[j] /\ us[j].s # b.s
    BY <1>5
  <2>1. j \in 1..n /\ ns[j].there /\ ns[j] = us[j]
    BY <1>5, <1>6 DEF There
  <2>2. j \in There(us) /\ j \in There(rs)
    BY <1>1, <1>3, <2>1 DEF There
  <2> QED BY <1>3, <2>1, <2>2 DEF StartFree
<1>9. StartsApart(ns)
  <2> SUFFICES ASSUME NEW j \in There(ns), NEW k \in There(ns), ns[j].s = ns[k].s
               PROVE  j = k
    BY DEF StartsApart
  <2> QED BY <1>2, <1>8 DEF StartsApart
<1>10. ns \in SesTables(t)
  BY <1>5, <1>7, <1>9 DEF SesTables
<1>11. ns[i] = a /\ \A j \in 1..n : j # i => ns[j] = rs[j]
  BY <1>1, <1>5
<1> QED BY <1>5, <1>10, <1>11 DEF SplitInto

\* The choices of the two parts are recorded one after the other.
SplitIs(i, a, b) ==
  LET first == upsert_manual_session_override(overrides, i, a, a.proj)
  IN /\ rows' = Append(Put(rows, i, a), b)
     /\ overrides' = upsert_manual_session_override(first, Len(rows) + 1, b, b.proj)
     /\ choice' = [choice EXCEPT
          ![a.s] = IF OverrideFails(overrides, i, a) THEN NoChoice ELSE [e |-> a.e, proj |-> a.proj],
          ![b.s] = [e |-> b.e, proj |-> b.proj]]

LEMMA SplitSteps ==
  ASSUME NEW i, NEW at, NEW p, NEW q, split_session(i, at, p, q)
  PROVE  SplitIs(i, FirstPart(rows[i], at, p, i), OtherPart(rows[i], at, q, i))
<1> DEFINE parts == SplitParts(i, at, p, q)
<1>1. parts[1] = FirstPart(rows[i], at, p, i) /\ parts[2] = OtherPart(rows[i], at, q, i)
  BY DEF SplitParts, FirstPart, OtherPart, SplitSecs
<1>2. rows' = Append([rows EXCEPT ![i] = parts[1]], parts[2]) /\ apply_split_side_effects(i, parts)
  BY DEF split_session
<1> HIDE DEF parts
<1> QED BY <1>1, <1>2 DEF SplitIs, apply_split_side_effects, Put

\* The choices when the first part's is c.
LEMMA TwoChoices ==
  ASSUME NEW ch \in [0..SesEnd -> [e: Nat, proj: SesProjRef]], NEW x \in 0..SesEnd, NEW y \in 0..SesEnd, x # y,
         NEW c \in [e: Nat, proj: SesProjRef], NEW d \in [e: Nat, proj: SesProjRef],
         NEW dh, dh = [ch EXCEPT ![x] = c, ![y] = d], NEW bh, bh = [ch EXCEPT ![x] = c]
  PROVE  /\ dh \in [0..SesEnd -> [e: Nat, proj: SesProjRef]] /\ bh[x] = c /\ dh[y] = d
         /\ \A z \in 0..SesEnd : (z # x => bh[z] = ch[z]) /\ (z # y => dh[z] = bh[z])
<1> DEFINE R == [e: Nat, proj: SesProjRef]
<1> HIDE DEF R
<1>1. ch \in [0..SesEnd -> R] /\ c \in R /\ d \in R
  BY DEF R
<1>2. /\ dh \in [0..SesEnd -> R] /\ bh[x] = c /\ dh[y] = d
      /\ \A z \in 0..SesEnd : (z # x => bh[z] = ch[z]) /\ (z # y => dh[z] = bh[z])
  BY <1>1
<1> QED BY <1>2 DEF R

\* What is shown stays shown, by the parts.
LEMMA SplitShows ==
  ASSUME NEW rs, NEW ns, Len(rs) \in Nat, NEW i \in 1..Len(rs), NEW a, NEW b, SplitInto(rs, i, a, b, ns),
         a.there = rs[i].there, a.hidden = rs[i].hidden, b.there = rs[i].there, b.hidden = rs[i].hidden,
         a.s \in Nat, a.e \in Nat, b.e \in Nat, a.s = rs[i].s, b.s = a.e, b.e = rs[i].e
  PROVE  ShownBy(rs) \subseteq ShownBy(ns)
<1> SUFFICES ASSUME NEW x \in ShownBy(rs)
             PROVE  x \in ShownBy(ns)
  OBVIOUS
<1>0. /\ Len(ns) = Len(rs) + 1 /\ ns[i] = a /\ ns[Len(rs) + 1] = b
      /\ \A j \in 1..Len(rs) : j # i => ns[j] = rs[j]
  BY DEF SplitInto
<1>1. PICK j \in Visible(rs) : x \in Instants(rs[j])
  BY DEF ShownBy
<1>2. j \in 1..Len(rs) /\ j \in 1..Len(ns) /\ i \in 1..Len(ns) /\ Len(rs) + 1 \in 1..Len(ns)
  BY <1>0, <1>1 DEF Visible, There
<1>3. CASE j # i
  <2>1. ns[j] = rs[j] /\ j \in Visible(ns)
    BY <1>0, <1>1, <1>2, <1>3 DEF Visible, There
  <2> QED BY <1>1, <2>1 DEF ShownBy
<1>4. CASE j = i
  <2>1. i \in Visible(ns) /\ Len(rs) + 1 \in Visible(ns)
    BY <1>0, <1>1, <1>2, <1>4 DEF Visible, There
  <2>2. x \in Instants(a) \/ x \in Instants(b)
    <3>1. x \in a.s..(b.e - 1)
      BY <1>1, <1>4 DEF Instants
    <3> QED BY <3>1 DEF Instants
  <2> QED BY <1>0, <2>1, <2>2 DEF ShownBy
<1> QED BY <1>3, <1>4

\* The first part's choice, or none when its override could not be recorded.
LEMMA FirstChosen ==
  ASSUME NEW t \in Nat, NEW ns \in SesTables(t), NEW os \in Seq(SesOverride), IntervalsApart(OverridesIn(os)),
         NEW ch, Chosen(ns, OverridesIn(os), ch), NEW i \in There(ns), i \in 1..MaxRows,
         \A o \in OverridesIn(os) : o.id \in 1..Len(ns), NEW a, a = ns[i], a \in SesRow,
         NEW fs, fs = upsert_manual_session_override(os, i, a, a.proj),
         NEW bh, OverrideFails(os, i, a) => bh[a.s].e = 0,
         ~OverrideFails(os, i, a) => bh[a.s].e = a.e /\ bh[a.s].proj = a.proj,
         \A z \in 0..SesEnd : z # a.s => bh[z] = ch[z]
  PROVE  /\ fs \in Seq(SesOverride) /\ IntervalsApart(OverridesIn(fs)) /\ Chosen(ns, OverridesIn(fs), bh)
         /\ \A o \in OverridesIn(fs) : o \in OverridesIn(os) \/ o.id = i
<1>1. CASE OverrideFails(os, i, a)
  <2>1. fs = os
    BY <1>1 DEF upsert_manual_session_override
  <2>2. Chosen(ns, OverridesIn(os), bh)
    <3> SUFFICES ASSUME NEW x \in 0..SesEnd, bh[x].e # 0
                 PROVE  \E o \in OverridesIn(os) : o.e = bh[x].e /\ o.proj = bh[x].proj /\ Decides(ns, OverridesIn(os), o, x)
      BY DEF Chosen
    <3>1. bh[x] = ch[x]
      BY <1>1
    <3> QED BY <3>1 DEF Chosen
  <2> QED BY <2>1, <2>2
<1>2. CASE ~OverrideFails(os, i, a)
  <2> DEFINE m == [id |-> i, s |-> a.s, e |-> a.e, proj |-> a.proj]
             O == OverridesIn(os)
             F == OverridesIn(fs)
             p == a.proj
  <2>1. p \in SesProjRef /\ m.id = i /\ m.s = a.s /\ m.e = a.e /\ m.proj = a.proj
    BY DEF SesRow
  <2>2. m = [id |-> i, s |-> a.s, e |-> a.e, proj |-> p] /\ fs = upsert_manual_session_override(os, i, a, p)
    OBVIOUS
  <2>3. /\ fs \in Seq(SesOverride) /\ m \in SesOverride /\ IntervalsApart(F)
        /\ F = {o \in O : o.id # i /\ ~(o.s = a.s /\ o.e = a.e)} \cup {m}
    <3> HIDE DEF m, p
    <3> QED BY <1>2, <2>1, <2>2, RecordedIs
  <2>4. /\ m.s = ns[i].s /\ bh[m.s].e = m.e /\ bh[m.s].proj = m.proj
        /\ \A z \in 0..SesEnd : z # m.s => bh[z] = ch[z]
    <3> HIDE DEF m
    <3> QED BY <1>2, <2>1
  <2>5. F = {o \in O : o.id # i /\ ~(o.s = m.s /\ o.e = m.e)} \cup {m} /\ m.id = i
    <3> HIDE DEF m, F
    <3> QED BY <2>1, <2>3
  <2>6. Chosen(ns, F, bh)
    <3>1. IntervalsApart(O) /\ Chosen(ns, O, ch) /\ \A o \in O : o.id \in 1..Len(ns)
      OBVIOUS
    <3> HIDE DEF m, F, O
    <3> QED BY <2>4, <2>5, <3>1, RecordChosen
  <2>7. \A o \in F : o \in O \/ o.id = i
    <3> HIDE DEF m
    <3> QED BY <2>1, <2>3
  <2> QED BY <2>3, <2>6, <2>7
<1> QED BY <1>1, <1>2

LEMMA SplitKeeps ==
  ASSUME SesInv, NEW i \in There(rows), NEW at \in 1..SesEnd, NEW p \in SesProjRef, NEW q \in SesProjRef,
         split_session(i, at, p, q)
  PROVE  SesInv'
<1>1. SesShape /\ TimeInv /\ ChoiceInv
  BY DEF SesInv
<1>2. /\ ops' \in 0..MaxSesOps /\ applied' = FALSE
      /\ UNCHANGED <<now, slices, open, registered, seen, gone, late>>
  BY <1>1, CommandIs DEF split_session
<1> DEFINE r == rows[i]
           n == Len(rows)
           a == FirstPart(r, at, p, i)
           b == OtherPart(r, at, q, i)
           ns == rows'
           O == OverridesIn(overrides)
<1>3. SplitIs(i, a, b)
  BY SplitSteps
<1>4. /\ now \in Nat /\ rows \in SesTables(now) /\ n \in Nat /\ i \in 1..n /\ n < MaxRows /\ n + 1 \in 1..MaxRows
      /\ i \in 1..MaxRows /\ i \in 1..(n + 1) /\ r \in SesRow /\ FitsUntil(r, now) /\ r.there /\ i # 0
      /\ r.s \in 0..SesEnd /\ r.e \in Nat /\ at \in (r.s + 1)..(r.e - 1)
      /\ \A j \in There(rows) : rows[j].s # at
  <2>1. /\ now \in Nat /\ rows \in SesTables(now) /\ n \in Nat /\ i \in 1..n /\ n < MaxRows
        /\ r \in SesRow /\ FitsUntil(r, now) /\ r.there /\ r.s \in 0..SesEnd /\ r.e \in Nat
        /\ at \in (r.s + 1)..(r.e - 1) /\ \A j \in There(rows) : rows[j].s # at
    BY <1>1, Bounds DEF SesShape, There, Ids, split_session, CanSplit
  <2> HIDE DEF n, r
  <2>2. MaxRows \in Nat
    BY SesAssumption
  <2> QED BY <2>1, <2>2
<1>5. /\ a \in SesRow /\ FitsUntil(a, now) /\ a.s = r.s /\ a.e = at /\ a.proj = p
      /\ a.there = r.there /\ a.hidden = r.hidden /\ a.split = i
  <2>1. /\ now \in Nat /\ r \in SesRow /\ FitsUntil(r, now) /\ at \in (r.s + 1)..(r.e - 1)
        /\ i \in 1..MaxRows /\ a = FirstPart(r, at, p, i)
    BY <1>4
  <2> HIDE DEF a, r
  <2> QED BY <2>1, FirstPartIs
<1>6. /\ b \in SesRow /\ FitsUntil(b, now) /\ b.s = at /\ b.e = r.e /\ b.proj = q
      /\ b.there = r.there /\ b.hidden = r.hidden /\ b.split = i
  <2>1. /\ now \in Nat /\ r \in SesRow /\ FitsUntil(r, now) /\ at \in (r.s + 1)..(r.e - 1)
        /\ i \in 1..MaxRows /\ b = OtherPart(r, at, q, i)
    BY <1>4
  <2> HIDE DEF b, r
  <2> QED BY <2>1, OtherPartIs
<1>7. /\ ns = Append(Put(rows, i, a), b)
      /\ LET first == upsert_manual_session_override(overrides, i, a, a.proj)
         IN overrides' = upsert_manual_session_override(first, n + 1, b, b.proj)
      /\ choice' = [choice EXCEPT
          ![a.s] = IF OverrideFails(overrides, i, a) THEN NoChoice ELSE [e |-> a.e, proj |-> a.proj],
          ![b.s] = [e |-> b.e, proj |-> b.proj]]
  <2> HIDE DEF a, b
  <2> QED BY <1>3 DEF SplitIs
<1> HIDE DEF a, b
<1>8. /\ ns \in SesTables(now) /\ Len(ns) = n + 1 /\ ns[i] = a /\ ns[n + 1] = b
      /\ \A j \in 1..n : j # i => ns[j] = rows[j]
  <2> DEFINE rs == rows
  <2>1. /\ now \in Nat /\ rs \in SesTables(now) /\ i \in 1..Len(rs)
        /\ a \in SesRow /\ FitsUntil(a, now) /\ a.s = rs[i].s /\ a.there = rs[i].there
        /\ b \in SesRow /\ FitsUntil(b, now) /\ StartFree(rs, b)
    BY <1>4, <1>5, <1>6 DEF StartFree
  <2>2. ns = Append(Put(rs, i, a), b)
    BY <1>7
  <2> HIDE DEF ns, rs, r, n
  <2>3. ns \in SesTables(now) /\ SplitInto(rs, i, a, b, ns)
    BY <2>1, <2>2, SplitTable
  <2> QED BY <2>3 DEF rs, n, SplitInto
<1>9. /\ a.s \in Nat /\ a.e \in Nat /\ b.e \in Nat /\ b.s \in Nat /\ a.s # b.s /\ a.s \in 0..SesEnd /\ b.s \in 0..SesEnd
      /\ a.proj \in SesProjRef /\ b.proj \in SesProjRef
  <2>1. r.s < at /\ at \in Nat /\ a.s \in Nat /\ r.s \in Nat
    BY <1>4, <1>5
  <2>2. r.s # at /\ at \in 0..SesEnd
    <3> HIDE DEF r
    <3> QED BY <2>1
  <2> QED BY <1>4, <1>5, <1>6, <2>1, <2>2
<1>10. /\ ns \in Seq(SesRow) /\ Ids = 1..n /\ Ids' = 1..(n + 1) /\ 1..n \subseteq 1..(n + 1) /\ Len(ns) <= MaxRows
  <2>1. ns \in Seq(SesRow) /\ Ids = 1..n /\ Ids' = 1..(n + 1)
    BY <1>4, <1>8, TableTyped DEF Ids
  <2>2. 1..n \subseteq 1..(n + 1)
    <3> HIDE DEF n
    <3> QED BY <1>4
  <2> QED BY <1>4, <1>8, <2>1, <2>2, SesAssumption
<1>11. \A j \in 1..n : /\ ns[j].s = rows[j].s /\ ns[j].there = rows[j].there
                       /\ rows[j].split # 0 => ns[j].split # 0
  BY <1>4, <1>5, <1>8
<1>12. ShownBy(rows) \subseteq ShownBy(ns)
  <2> DEFINE rs == rows
  <2>1. Len(rs) \in Nat /\ i \in 1..Len(rs) /\ SplitInto(rs, i, a, b, ns)
    BY <1>4, <1>8 DEF SplitInto
  <2>2. /\ a.there = rs[i].there /\ a.hidden = rs[i].hidden /\ b.there = rs[i].there /\ b.hidden = rs[i].hidden
        /\ a.s \in Nat /\ a.e \in Nat /\ b.e \in Nat /\ a.s = rs[i].s /\ b.s = a.e /\ b.e = rs[i].e
    BY <1>5, <1>6, <1>9
  <2> HIDE DEF ns, rs, r, n
  <2>3. ShownBy(rs) \subseteq ShownBy(ns)
    BY <2>1, <2>2, SplitShows
  <2> QED BY <2>3 DEF rs, n
<1>13. TimeInv'
  <2>1. \A t \in seen : Kept(t)'
    <3>1. \A k \in 1..Len(slices) :
            k \in 1..Len(slices') /\ slices'[k].s = slices[k].s /\ slices[k].e <= slices'[k].e
                                  /\ slices'[k].e \in Nat
      BY <1>1, <1>2, Bounds
    <3>2. \A j \in Ids : /\ j \in 1..Len(rows') /\ rows'[j].s = rows[j].s /\ rows'[j].there = rows[j].there
                         /\ rows[j].split # 0 => rows'[j].split # 0
      BY <1>8, <1>10, <1>11
    <3> QED BY <1>1, <1>2, <1>12, <3>1, <3>2, SeenKept
  <2>2. ASSUME NEW j \in Ids', Settled(j)'
        PROVE  Covered(j)'
    <3>1. j # i /\ j # n + 1
      BY <1>4, <1>5, <1>6, <1>8, <2>2 DEF Settled
    <3>2. j \in 1..n
      <4> HIDE DEF n
      <4> QED BY <1>4, <1>10, <3>1
    <3>3. rows'[j] = rows[j]
      BY <1>8, <3>1, <3>2
    <3>4. Settled(j)
      BY <1>2, <2>2, <3>3 DEF Settled
    <3>5. ~Unfinished(rows[j]) /\ Instants(rows[j]) \subseteq ShownBy(rows) \cup gone
      BY <1>1, <1>10, <3>2, <3>4 DEF TimeInv, Covered
    <3>6. ~Unfinished(rows[j])'
      BY <1>2, <3>3, <3>5 DEF Unfinished
    <3>7. Instants(rows'[j]) \subseteq ShownBy(rows') \cup gone'
      BY <1>2, <1>12, <3>3, <3>5
    <3> QED BY <3>6, <3>7 DEF Covered, ShownBy
  <2> QED BY <1>2, <2>1, <2>2 DEF TimeInv
<1> DEFINE fs == upsert_manual_session_override(overrides, i, a, a.proj)
           ps == overrides'
           c == IF OverrideFails(overrides, i, a) THEN NoChoice ELSE [e |-> a.e, proj |-> a.proj]
           d == [e |-> b.e, proj |-> b.proj]
           bh == [choice EXCEPT ![a.s] = c]
           dh == choice'
<1>14. /\ overrides \in Seq(SesOverride) /\ IntervalsApart(O) /\ \A o \in O : o.id \in 1..n
       /\ choice \in [0..SesEnd -> [e: Nat, proj: SesProjRef]] /\ Chosen(rows, O, choice)
  BY <1>1, <1>10 DEF SesShape, SesTypeOK, ChoiceInv
<1>15. /\ c \in [e: Nat, proj: SesProjRef] /\ d \in [e: Nat, proj: SesProjRef] /\ d.e = b.e /\ d.proj = b.proj
       /\ OverrideFails(overrides, i, a) => c.e = 0
       /\ ~OverrideFails(overrides, i, a) => c.e = a.e /\ c.proj = a.proj
  <2>1. NoChoice \in [e: Nat, proj: SesProjRef] /\ NoChoice.e = 0
    BY SesAssumption DEF NoChoice, SesProjRef, NoProj
  <2> QED BY <1>9, <2>1
<1>16. /\ dh \in [0..SesEnd -> [e: Nat, proj: SesProjRef]] /\ bh[a.s] = c /\ dh[b.s] = d
       /\ \A z \in 0..SesEnd : (z # a.s => bh[z] = choice[z]) /\ (z # b.s => dh[z] = bh[z])
  <2> DEFINE x == a.s
             y == b.s
             ch == choice
  <2>1. dh = [ch EXCEPT ![x] = c, ![y] = d] /\ bh = [ch EXCEPT ![x] = c]
    BY <1>7
  <2>2. x \in 0..SesEnd /\ y \in 0..SesEnd /\ x # y /\ ch \in [0..SesEnd -> [e: Nat, proj: SesProjRef]]
    BY <1>9, <1>14
  <2>3. c \in [e: Nat, proj: SesProjRef] /\ d \in [e: Nat, proj: SesProjRef]
    BY <1>15
  <2> HIDE DEF c, d, bh, dh, x, y, ch
  <2>4. /\ dh \in [0..SesEnd -> [e: Nat, proj: SesProjRef]] /\ bh[x] = c /\ dh[y] = d
        /\ \A z \in 0..SesEnd : (z # x => bh[z] = ch[z]) /\ (z # y => dh[z] = bh[z])
    BY <2>1, <2>2, <2>3, TwoChoices
  <2> QED BY <2>4 DEF x, y, ch
<1>17. fs = upsert_manual_session_override(overrides, i, a, a.proj) /\ ps = upsert_manual_session_override(fs, n + 1, b, b.proj)
  BY <1>7
<1> HIDE DEF c, d, bh, dh, fs, ps, ns
<1>18. /\ fs \in Seq(SesOverride) /\ IntervalsApart(OverridesIn(fs)) /\ Chosen(ns, OverridesIn(fs), bh)
       /\ \A o \in OverridesIn(fs) : o.id \in 1..n
  <2>1. Chosen(ns, O, choice)
    <3>1. \A o \in O : ns[o.id].s = rows[o.id].s /\ (ns[o.id].there => rows[o.id].there)
      BY <1>11, <1>14
    <3> HIDE DEF O
    <3> QED BY <1>14, <3>1, ChosenSame
  <2>2. i \in There(ns)
    BY <1>4, <1>5, <1>8 DEF There
  <2>3. \A o \in O : o.id \in 1..Len(ns)
    BY <1>8, <1>10, <1>14
  <2>4. (bh[a.s].e = a.e /\ bh[a.s].proj = a.proj) \/ OverrideFails(overrides, i, a)
    BY <1>15, <1>16
  <2>5. OverrideFails(overrides, i, a) => bh[a.s].e = 0
    BY <1>15, <1>16
  <2> DEFINE os == overrides
             ch == choice
  <2>6. /\ now \in Nat /\ ns \in SesTables(now) /\ os \in Seq(SesOverride) /\ IntervalsApart(OverridesIn(os))
        /\ Chosen(ns, OverridesIn(os), ch) /\ i \in There(ns) /\ i \in 1..MaxRows
        /\ \A o \in OverridesIn(os) : o.id \in 1..Len(ns)
    BY <1>4, <1>8, <1>14, <2>1, <2>2, <2>3
  <2>7. /\ a = ns[i] /\ a \in SesRow /\ fs = upsert_manual_session_override(os, i, a, a.proj)
        /\ OverrideFails(os, i, a) => bh[a.s].e = 0
        /\ ~OverrideFails(os, i, a) => bh[a.s].e = a.e /\ bh[a.s].proj = a.proj
        /\ \A z \in 0..SesEnd : z # a.s => bh[z] = ch[z]
    BY <1>5, <1>8, <1>16, <1>17, <2>4, <2>5
  <2> HIDE DEF os, ch, r, n
  <2>8. /\ fs \in Seq(SesOverride) /\ IntervalsApart(OverridesIn(fs)) /\ Chosen(ns, OverridesIn(fs), bh)
        /\ \A o \in OverridesIn(fs) : o \in OverridesIn(os) \/ o.id = i
    BY <2>6, <2>7, FirstChosen
  <2> QED BY <1>4, <1>14, <2>8 DEF os
<1>19. /\ ps \in Seq(SesOverride) /\ IntervalsApart(OverridesIn(ps)) /\ Chosen(ns, OverridesIn(ps), dh)
       /\ \A o \in OverridesIn(ps) : o \in OverridesIn(fs) \/ o.id = n + 1
  <2> DEFINE k == n + 1
  <2>1. ~OverrideFails(fs, k, b)
    <3>1. \A o \in OverridesIn(fs) : o.id # k
      <4> HIDE DEF n
      <4> QED BY <1>4, <1>18
    <3>2. OverridesOf(fs, k) = {}
      BY <3>1 DEF OverridesOf, OverridesIn
    <3> QED BY <3>2 DEF OverrideFails
  <2>2. /\ now \in Nat /\ ns \in SesTables(now) /\ fs \in Seq(SesOverride) /\ IntervalsApart(OverridesIn(fs))
        /\ Chosen(ns, OverridesIn(fs), bh) /\ k \in 1..MaxRows
    BY <1>4, <1>8, <1>18
  <2>3. k \in There(ns)
    <3>1. k \in 1..Len(ns)
      <4> HIDE DEF n
      <4> QED BY <1>4, <1>8
    <3> QED BY <1>4, <1>6, <1>8, <3>1 DEF There
  <2>4. /\ \A o \in OverridesIn(fs) : o.id \in 1..Len(ns)
        /\ b = ns[k] /\ b \in SesRow /\ ps = upsert_manual_session_override(fs, k, b, b.proj)
        /\ dh[b.s].e = b.e /\ dh[b.s].proj = b.proj /\ \A z \in 0..SesEnd : z # b.s => dh[z] = bh[z]
    BY <1>6, <1>8, <1>10, <1>15, <1>16, <1>17, <1>18
  <2> HIDE DEF k
  <2>5. /\ ps \in Seq(SesOverride) /\ IntervalsApart(OverridesIn(ps)) /\ Chosen(ns, OverridesIn(ps), dh)
        /\ \A o \in OverridesIn(ps) : o \in OverridesIn(fs) \/ o.id = k
    <3> HIDE DEF r, n
    <3> QED BY <2>1, <2>2, <2>3, <2>4, FirstChosen
  <2> QED BY <2>5 DEF k
<1>20. \A o \in OverridesIn(ps) : o.id \in 1..(n + 1)
  <2> HIDE DEF n
  <2>1. n + 1 \in 1..(n + 1)
    BY <1>4
  <2> QED BY <1>10, <1>18, <1>19, <2>1
<1>21. SesShape'
  <2>1. SesTypeOK'
    <3>1. late' \subseteq Ids'
      BY <1>1, <1>2, <1>10 DEF SesShape, SesTypeOK
    <3>2. overrides' \in Seq(SesOverride) /\ choice' \in [0..SesEnd -> [e: Nat, proj: SesProjRef]]
      BY <1>16, <1>19 DEF ps, dh
    <3>3. rows' \in Seq(SesRow) /\ Len(rows') <= MaxRows
      BY <1>10 DEF ns
    <3> QED BY <1>1, <1>2, <3>1, <3>2, <3>3 DEF SesShape, SesTypeOK
  <2>2. rows' \in SesTables(now') /\ \A o \in OverridesIn(overrides') : o.id \in Ids'
    BY <1>2, <1>8, <1>10, <1>20 DEF ns, ps
  <2> QED BY <1>1, <1>2, <2>1, <2>2 DEF SesShape
<1>22. ChoiceInv'
  BY <1>19 DEF ChoiceInv, ps, ns, dh
<1> QED BY <1>2, <1>13, <1>21, <1>22 DEF SesInv, ChoiceReapplied

LEMMA SesBegins == SesInit => SesInv
<1> SUFFICES ASSUME SesInit
             PROVE  SesInv
  OBVIOUS
<1>1. /\ now = 0 /\ slices = <<>> /\ open = FALSE /\ rows = <<>> /\ overrides = <<>> /\ registered = TRUE
      /\ ops = 0 /\ seen = {} /\ gone = {} /\ late = {} /\ applied = FALSE
      /\ choice = [t \in 0..SesEnd |-> NoChoice]
  BY DEF SesInit
<1>2. /\ MaxRows \in Nat /\ MaxSesOps \in Nat /\ SesEnd \in Nat /\ NoChoice \in [e: Nat, proj: SesProjRef]
      /\ NoChoice.e = 0
  BY SesAssumption DEF NoChoice, SesProjRef, NoProj
<1>3. /\ rows \in Seq(SesRow) /\ slices \in Seq(SesSlice) /\ overrides \in Seq(SesOverride)
      /\ Len(rows) = 0 /\ Len(slices) = 0 /\ Len(overrides) = 0
  BY <1>1
<1>4. Ids = {} /\ OverridesIn(overrides) = {} /\ There(rows) = {}
  BY <1>3 DEF Ids, OverridesIn, There
<1>5. SesTypeOK
  BY <1>1, <1>2, <1>3 DEF SesTypeOK
<1>6. rows \in SesTables(now)
  BY <1>3, <1>4 DEF SesTables, StartsApart
<1>7. SesShape
  BY <1>1, <1>3, <1>4, <1>5, <1>6 DEF SesShape
<1>8. TimeInv
  BY <1>1, <1>4 DEF TimeInv
<1>9. ChoiceInv
  <2>1. IntervalsApart(OverridesIn(overrides))
    BY <1>4 DEF IntervalsApart
  <2>2. Chosen(rows, OverridesIn(overrides), choice)
    BY <1>1, <1>2 DEF Chosen
  <2> QED BY <2>1, <2>2 DEF ChoiceInv
<1> QED BY <1>1, <1>7, <1>8, <1>9 DEF SesInv, ChoiceReapplied

LEMMA SesKeeps == SesInv /\ [SesNext]_sesVars => SesInv'
<1> SUFFICES ASSUME SesInv, [SesNext]_sesVars
             PROVE  SesInv'
  OBVIOUS
<1>1. CASE Used
  BY <1>1, UsedKeeps
<1>2. CASE Away
  BY <1>2, AwayKeeps
<1>3. CASE refresh_today
  BY <1>3, ImportKeeps DEF refresh_today
<1>4. CASE refresh_missing_days
  BY <1>4, ImportKeeps DEF refresh_missing_days
<1>5. CASE rebuild_sessions
  BY <1>5, RebuildKeeps
<1>6. CASE SetMonitored
  BY <1>6, SetMonitoredKeeps
<1>7. CASE ImportData
  BY <1>7, ImportDataKeeps
<1>8. ASSUME NEW i \in There(rows), update_session_rate_multiplier(i)
      PROVE  SesInv'
  BY <1>8, BoostKeeps
<1>9. ASSUME NEW i \in There(rows), delete_session(i)
      PROVE  SesInv'
  BY <1>9, DeleteKeeps
<1>10. ASSUME NEW i \in There(rows), NEW p \in SesProjRef, assign_session_to_project(i, p)
       PROVE  SesInv'
  BY <1>10, AssignKeeps
<1>11. ASSUME NEW i \in There(rows), NEW at \in 1..SesEnd, NEW p \in SesProjRef, NEW q \in SesProjRef,
              split_session(i, at, p, q)
       PROVE  SesInv'
  BY <1>11, SplitKeeps
<1>12. CASE UNCHANGED sesVars
  <2>1. UNCHANGED <<now, slices, open, rows, overrides, registered, ops, seen, gone, choice, late, applied>>
    BY <1>12 DEF sesVars
  <2>2. SesShape'
    BY <2>1 DEF SesInv, SesShape, SesTypeOK, Ids
  <2>3. TimeInv'
    BY <2>1 DEF SesInv, TimeInv, Kept, Settled, Covered, Unfinished, MayBeHidden, RowAt, Ids
  <2>4. ChoiceInv' /\ ChoiceReapplied'
    BY <2>1 DEF SesInv, ChoiceInv, ChoiceReapplied
  <2> QED BY <2>2, <2>3, <2>4 DEF SesInv
<1> QED BY <1>1, <1>2, <1>3, <1>4, <1>5, <1>6, <1>7, <1>8, <1>9, <1>10, <1>11, <1>12 DEF SesNext

LEMMA SessionsInvariant == SesSpec => []SesInv
<1> QED BY SesBegins, SesKeeps, PTL DEF SesSpec

\* The tables keep their types, and the history variables too.
THEOREM SesTypeTheorem == SesSpec => []SesTypeOK
<1>1. SesInv => SesTypeOK
  BY DEF SesInv, SesShape
<1> QED BY <1>1, SessionsInvariant, PTL

\* In every order of imports, merges, splits, assignments and deletions, recorded time that was
\* imported is shown by some session, but for what a slice gained after rebuild_sessions had hidden
\* its row, after a split, or what the user deleted; and no session counts more than its length.
THEOREM TimeTheorem == SesSpec => []ClosedTimeIsKept
<1>1. SesInv => ClosedTimeIsKept
  <2> SUFFICES ASSUME SesInv
               PROVE  ClosedTimeIsKept
    OBVIOUS
  <2>1. SesShape /\ TimeInv
    BY DEF SesInv
  <2>2. Shown = ShownBy(rows)
    BY DEF Shown, ShownBy
  <2>3. \A t \in seen : t \in Shown \/ MayBeHidden(t) \/ RowAt(t) \cap late # {}
    BY <2>1, <2>2 DEF TimeInv, Kept
  <2>4. \A i \in Visible(rows) : rows[i].dur <= rows[i].e - rows[i].s
    BY <2>1, Bounds DEF Visible, There, Ids, FitsUntil
  <2> QED BY <2>3, <2>4 DEF ClosedTimeIsKept
<1> QED BY <1>1, SessionsInvariant, PTL

\* After an import, apply_manual_session_overrides has given every visible session that has the
\* interval of the user's last assignment its project again, whatever became of its id.
THEOREM ChoiceTheorem == SesSpec => []ChoiceReapplied
<1>1. SesInv => ChoiceReapplied
  BY DEF SesInv
<1> QED BY <1>1, SessionsInvariant, PTL
=============================================================================
