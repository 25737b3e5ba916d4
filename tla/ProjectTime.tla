----------------------------- MODULE ProjectTime -----------------------------
(***************************************************************************)
(* How long each project was worked on: the cache of resolved sessions     *)
(* with its dirty days (commands/sql_fragments.rs and the triggers of      *)
(* schema.sql) and the wall-clock algorithm that reads it                  *)
(* (commands/time_algorithm.rs), between the commands and the LAN merge    *)
(* that change sessions, files and projects.  There is one application.     *)
(* Seconds are multiplied by SCALE, so that a shared second divides.       *)
(***************************************************************************)
EXTENDS Naturals, Sequences, FiniteSets, SequencesExt

CONSTANTS
  PtSess, PtProj, Nobody,
  Lengths,       \* the real length of each local day
  NOMINAL, HOUR, \* the length of a day and of an hour for chrono's Duration
  SCALE,
  Spans,         \* bound: when a session may run
  Imported,      \* when the sessions of the first import ran
  ManualSpan,    \* when a manual session runs
  FileRows,      \* bound: rows that file_activities may have: project and span
  MaxTableEdits      \* bound: of the changes to the tables

ASSUME PtAssumption == "gone" \notin PtProj /\ Nobody \notin PtProj

VARIABLES
  worked,    \* sessions: [from, to, proj, hidden], or NoSlice
  traces,     \* file_activities
  manual,    \* the projects of the manual sessions, each over ManualSpan
  tree,      \* projects: "active", "excluded", "gone", or the parent's name (merged_into)
  cached,    \* session_project_cache: [day, from, to, proj], or NoSlice
  dirty,     \* session_project_cache_dirty
  answer,    \* what the latest query returned, until the tables change
  history    \* changes so far, and whether a merge has deleted a project

ptVars == <<worked, traces, manual, tree, cached, dirty, answer, history>>

NoSlice == [from |-> 0, to |-> 0]
NoAnswer == [days |-> {}]
PtDays == DOMAIN Lengths
Midnights == [d \in PtDays \cup {Len(Lengths) + 1} |-> FoldLeft(+, 0, SubSeq(Lengths, 1, d - 1))]
Midnight(d) == Midnights[d]
Dates == [t \in 0..Midnight(Len(Lengths) + 1) |->
            CHOOSE d \in PtDays : Midnight(d) <= t /\ (t < Midnight(d + 1) \/ d = Len(Lengths))]
DateOf(t) == Dates[t]
Series == PtProj \cup {Nobody}
Exists(p) == p \in PtProj /\ tree[p] # "gone"

PtTypeOK ==
  /\ \A s \in PtSess : worked[s] # NoSlice =>
        <<worked[s].from, worked[s].to>> \in Spans /\ worked[s].proj \in Series
  /\ \A s \in PtSess : cached[s] # NoSlice =>
        cached[s].day \in PtDays /\ cached[s].proj \in Series
  /\ traces \subseteq FileRows /\ manual \subseteq PtProj /\ dirty \subseteq PtDays
  /\ \A p \in PtProj : tree[p] \in {"active", "excluded", "gone"} \cup (PtProj \ {p})

DateOfRow(row) == IF row = NoSlice THEN {} ELSE {DateOf(row.from)}

PtInit ==
  /\ worked \in [PtSess -> {NoSlice} \cup
                {[from |-> x[1], to |-> x[2], proj |-> Nobody, hidden |-> FALSE] : x \in Imported}]
  /\ cached = [s \in PtSess |-> NoSlice]
  /\ traces = {} /\ manual = {} /\ dirty = UNION {DateOfRow(worked[s]) : s \in PtSess}
  /\ tree = [p \in PtProj |-> "active"]
  /\ answer = NoAnswer /\ history = [edits |-> 0, orphans |-> FALSE]

-----------------------------------------------------------------------------
(* Changes of the tables, with what the triggers do. *)

Edit == /\ history.edits < MaxTableEdits /\ answer' = NoAnswer
        /\ history' = [history EXCEPT !.edits = @ + 1]

\* trg_sessions_cache_dirty_insert, _update, _delete
DirtiedBy(old, new) == DateOfRow(old) \cup DateOfRow(new)

\* Mutant: a change of a file row leaves its day clean.
DirtiedByFileNone(row) == {}

\* trg_file_activities_cache_dirty_insert, _update, _delete
DirtiedByFile(row) == {DateOf(row.from)}

PutSession(s, row) ==
  /\ Edit /\ worked[s] # row
  /\ worked' = [worked EXCEPT ![s] = row]
  /\ dirty' = dirty \cup DirtiedBy(worked[s], row)
  /\ UNCHANGED <<traces, manual, tree, cached>>

\* Ids are never reused and a session keeps its start.
InsertSession(s, span, p) ==
  /\ worked[s] = NoSlice /\ cached[s] = NoSlice /\ (p = Nobody \/ Exists(p))
  /\ PutSession(s, [from |-> span[1], to |-> span[2], proj |-> p, hidden |-> FALSE])

UpdateSession(s, to, p, hidden) ==
  /\ worked[s] # NoSlice /\ <<worked[s].from, to>> \in Spans /\ (p = Nobody \/ Exists(p))
  /\ PutSession(s, [worked[s] EXCEPT !.to = to, !.proj = p, !.hidden = hidden])

\* The dashboard's connection cascades to the cache, the daemon's has foreign keys off.
RemoveSession(s, cascade) ==
  /\ Edit /\ worked[s] # NoSlice
  /\ worked' = [worked EXCEPT ![s] = NoSlice]
  /\ dirty' = dirty \cup DirtiedBy(worked[s], NoSlice)
  /\ cached' = IF cascade THEN [cached EXCEPT ![s] = NoSlice] ELSE cached
  /\ UNCHANGED <<traces, manual, tree>>

WriteFile(row) ==
  /\ Edit
  /\ traces' = IF row \in traces THEN traces \ {row} ELSE traces \cup {row}
  /\ dirty' = dirty \cup DirtiedByFile(row)
  /\ UNCHANGED <<worked, manual, tree, cached>>

WriteManual(p) ==
  /\ Edit /\ Exists(p)
  /\ manual' = IF p \in manual THEN manual \ {p} ELSE manual \cup {p}
  /\ UNCHANGED <<worked, traces, tree, cached, dirty>>

Children(p) == {c \in PtProj : tree[c] = p}

SetTree(p, state) ==
  /\ Edit /\ Exists(p) /\ tree[p] # state
  /\ state \in PtProj => tree[state] = "active" /\ Children(p) = {}
  /\ tree[p] \in PtProj => state = "active"
  /\ tree' = [tree EXCEPT ![p] = state]
  /\ UNCHANGED <<worked, traces, manual, cached, dirty>>

Unassigned(p) == [s \in PtSess |-> IF worked[s] # NoSlice /\ worked[s].proj = p
                                   THEN [worked[s] EXCEPT !.proj = Nobody] ELSE worked[s]]
DirtiedByDelete(p) ==
  UNION {DirtiedBy(worked[s], Unassigned(p)[s]) : s \in {t \in PtSess : worked[t] # Unassigned(p)[t]}}

\* delete_project: sessions by hand; manual sessions, files and cache by their constraints.
delete_project(p) ==
  /\ Edit /\ Exists(p) /\ Children(p) = {}
  /\ tree' = [tree EXCEPT ![p] = "gone"]
  /\ worked' = Unassigned(p)
  /\ cached' = [s \in PtSess |-> IF cached[s] # NoSlice /\ cached[s].proj = p
                                 THEN [cached[s] EXCEPT !.proj = Nobody] ELSE cached[s]]
  /\ traces' = {f \in traces : f.proj # p}
  /\ dirty' = dirty \cup DirtiedByDelete(p)
                    \cup UNION {DirtiedByFile(f) : f \in traces \ traces'}
  /\ manual' = manual \ {p}

\* apply_tombstones: foreign keys are off and only the sessions are taken back.
TombstoneProject(p) ==
  /\ history.edits < MaxTableEdits /\ answer' = NoAnswer
  /\ history' = [edits |-> history.edits + 1, orphans |-> TRUE]
  /\ Exists(p) /\ tree' = [tree EXCEPT ![p] = "gone"]
  /\ worked' = Unassigned(p) /\ dirty' = dirty \cup DirtiedByDelete(p)
  /\ manual' = manual \ {p}
  /\ UNCHANGED <<traces, cached>>

-----------------------------------------------------------------------------
(* The cache. *)

IsShown(s) == worked[s] # NoSlice /\ ~worked[s].hidden
OnDay(s, d) == IsShown(s) /\ DateOf(worked[s].from) = d

Sum(f) == FoldSet(LAMBDA k, n : n + f[k], 0, DOMAIN f)

Earlier(a, b) == IF a < b THEN a ELSE b
Later(a, b) == IF a < b THEN b ELSE a
Overlap(row, f) == LET from == Later(row.from, f.from)
                       to == Earlier(row.to, f.to)
                   IN IF from < to THEN to - from ELSE 0

FilesAround(row) ==
  {f \in traces : /\ Exists(f.proj) /\ DateOf(f.from) = DateOf(row.from)
                 /\ f.to > row.from /\ f.from < row.to}

\* rebuild_session_project_cache_day: a session without a project of its own takes the one
\* whose files alone overlap it, if they do so for half of its length.
Resolved(s) ==
  LET row == worked[s]
      owners == {f.proj : f \in FilesAround(row)}
  IN CASE Exists(row.proj) -> row.proj
       [] ~Exists(row.proj) /\ Cardinality(owners) = 1
          /\ 2 * Sum([f \in FilesAround(row) |-> Overlap(row, f)]) >= row.to - row.from
            -> CHOOSE p \in owners : TRUE
       [] OTHER -> Nobody

CacheRow(s) == [day |-> DateOf(worked[s].from), from |-> worked[s].from, to |-> worked[s].to,
                proj |-> Resolved(s)]

\* collect_cache_dates
NotCached(d) == /\ \E s \in PtSess : OnDay(s, d)
                /\ \A s \in PtSess : cached[s] = NoSlice \/ cached[s].day # d
StaleDates(range) == (dirty \cap range) \cup {d \in range : NotCached(d)}

rebuild_session_project_cache(stale) ==
  [s \in PtSess |->
     IF \E d \in stale : OnDay(s, d) THEN CacheRow(s)
     ELSE IF cached[s] # NoSlice /\ cached[s].day \in stale THEN NoSlice ELSE cached[s]]

-----------------------------------------------------------------------------
(* The wall-clock algorithm. *)

\* The callers differ in the buckets, in hiding the manual sessions of excluded projects, and
\* in adding merged projects to their parent.
View(hourly, active_only, rollup_merged) ==
  [hourly |-> hourly, active_only |-> active_only, rollup_merged |-> rollup_merged]
Views == [hour |-> View(TRUE, TRUE, TRUE), day |-> View(FALSE, TRUE, TRUE),
          projects |-> View(FALSE, FALSE, TRUE), apart |-> View(FALSE, FALSE, FALSE)]

ParentOf(p) == IF p \in PtProj /\ Exists(tree[p]) THEN tree[p] ELSE p
IsActive(p) == p \in PtProj /\ tree[ParentOf(p)] = "active"

\* load_project_intervals
Intervals(range, cache, view) ==
  {[from |-> cache[s].from, to |-> cache[s].to, proj |-> cache[s].proj, of |-> s] :
     s \in {t \in PtSess : cache[t] # NoSlice /\ cache[t].day \in range}}
  \cup {[from |-> ManualSpan[1], to |-> ManualSpan[2], proj |-> p, of |-> "manual"] :
          p \in {q \in manual : /\ DateOf(ManualSpan[1]) \in range
                                /\ view.active_only =>
                                     tree[q] = "active" \/ (view.rollup_merged /\ IsActive(q))}}

bucket_floor(t, hourly) ==
  LET day == Midnight(DateOf(t))
  IN IF hourly THEN day + HOUR * ((t - day) \div HOUR) ELSE day

next_bucket(start, hourly) == start + (IF hourly THEN HOUR ELSE NOMINAL)

\* The pieces of an interval within the range, each in the bucket it starts in.
Cut(i, lo, hi, hourly) ==
  LET end == Earlier(i.to, hi)
      cut[t \in 0..end] ==
        LET bucket == bucket_floor(t, hourly)
            stop == Earlier(next_bucket(bucket, hourly), end)
        IN IF t >= end \/ stop <= t THEN {}
           ELSE {[bucket |-> bucket, from |-> t, to |-> stop, proj |-> i.proj]} \cup cut[stop]
  IN IF i.to <= lo \/ i.from >= hi THEN {} ELSE cut[Later(i.from, lo)]

\* Mutant: the shared time is divided among the pieces and not among the projects.
SharersByPiece(pieces, a, b) == {x \in pieces : x.from <= a /\ b <= x.to}

Sharers(pieces, a, b) == {x.proj : x \in {y \in pieces : y.from <= a /\ b <= y.to}}

\* The sweep over one bucket: between two events the time is divided equally.
Swept(pieces) ==
  LET events == SetToSortSeq({x.from : x \in pieces} \cup {x.to : x \in pieces}, <)
      share(k, p) ==
        LET active == Sharers(pieces, events[k], events[k + 1])
        IN IF p \in active
           THEN (SCALE * (events[k + 1] - events[k])) \div Cardinality(active) ELSE 0
  IN [p \in Series |-> Sum([k \in 1..(Len(events) - 1) |-> share(k, p)])]

\* fold_merged_series
Folded(seconds) ==
  [p \in Series |-> Sum([c \in {x \in Series : ParentOf(x) = p} |-> seconds[c]])]

compute_project_activity_unique(range, cache, view) ==
  LET lo == Midnight(CHOOSE d \in range : \A e \in range : d <= e)
      hi == Midnight((CHOOSE d \in range : \A e \in range : d >= e) + 1)
      pieces == UNION {Cut(i, lo, hi, view.hourly) : i \in Intervals(range, cache, view)}
      used == {x.bucket : x \in pieces}
      swept == [b \in used |-> Swept({x \in pieces : x.bucket = b})]
  IN [b \in used |-> IF view.rollup_merged THEN Folded(swept[b]) ELSE swept[b]]

Total(buckets, p) == Sum([b \in DOMAIN buckets |-> buckets[b][p]])

\* Mutant: the sessions of merged projects are not counted.
CountedUnmerged(p) == p = Nobody \/ (p \in PtProj /\ tree[p] = "active")

\* query_project_counts, query_project_session_counts: whose sessions are counted
CountedFor(p) == p = Nobody \/ IsActive(p)

Counts(range, cache) ==
  [p \in Series |->
     Cardinality({i \in Intervals(range, cache, Views.projects) :
                    CountedFor(i.proj) /\ ParentOf(i.proj) = p})]

\* build_stacked_bar_output with a limit of one series
Bars(buckets) ==
  LET top == CHOOSE p \in Series : \A q \in Series : Total(buckets, p) >= Total(buckets, q)
  IN [b \in DOMAIN buckets |->
        [selected |-> buckets[b][top],
         other |-> Sum([p \in Series \ {top} |-> buckets[b][p]])]]

\* build_estimate_rows drops what has no project, by the series or by the table.
EstimateRows(buckets) == {p \in PtProj : Exists(p) /\ Total(buckets, p) > 0}

\* What get_dashboard_data puts together, as do query_projects_with_stats and the others.
Answered(range, cache, view, buckets) ==
  [days |-> range, view |-> view, buckets |-> buckets, counts |-> Counts(range, cache),
   bars |-> Bars(buckets), estimates |-> EstimateRows(buckets)]

\* ensure_session_project_cache and a query of a range of days
Query(range, view) ==
  /\ answer = NoAnswer
  /\ LET stale == StaleDates(range)
     IN /\ cached' = rebuild_session_project_cache(stale)
        /\ dirty' = dirty \ stale
  /\ \E buckets \in {compute_project_activity_unique(range, cached', view)} :
       answer' = Answered(range, cached', view, buckets)
  /\ UNCHANGED <<worked, traces, manual, tree, history>>

Ranges == {{d, e} : d, e \in PtDays}

PtNext ==
  \/ \E s \in PtSess, span \in Spans, p \in Series : InsertSession(s, span, p)
  \/ \E s \in PtSess, span \in Spans, p \in Series, hidden \in BOOLEAN :
       UpdateSession(s, span[2], p, hidden)
  \/ \E s \in PtSess, cascade \in BOOLEAN : RemoveSession(s, cascade)
  \/ \E row \in FileRows : WriteFile(row)
  \/ \E p \in PtProj : \/ WriteManual(p) \/ delete_project(p) \/ TombstoneProject(p)
                       \/ \E state \in {"active", "excluded"} \cup (PtProj \ {p}) : SetTree(p, state)
  \/ \E range \in Ranges, v \in DOMAIN Views : Query(range, Views[v])

PtSpec == PtInit /\ [][PtNext]_ptVars

-----------------------------------------------------------------------------
(* What an answer should be, from the tables themselves, second by second. *)

WorkedOn(range, view) ==
  {[from |-> worked[s].from, to |-> worked[s].to, proj |-> Resolved(s)] :
     s \in {t \in PtSess : \E d \in range : OnDay(t, d)}}
  \cup {[from |-> ManualSpan[1], to |-> ManualSpan[2], proj |-> p] :
          p \in {q \in manual : DateOf(ManualSpan[1]) \in range /\ (view.active_only => IsActive(q))}}

\* The rows of a day are what a rebuild would put there.
UpToDate(d) ==
  \A s \in PtSess : /\ OnDay(s, d) => cached[s] = CacheRow(s)
                    /\ cached[s] # NoSlice /\ cached[s].day = d => OnDay(s, d)

\* A query answers from rows that are up to date, whatever changed since the days were cached:
\* every change leaves its days dirty, but for the deletion of a project that came by LAN sync.
CacheIsCurrent ==
  answer # NoAnswer /\ ~history.orphans => \A d \in answer.days : UpToDate(d)

Share(t, p, busy) == IF p \in busy THEN SCALE \div Cardinality(busy) ELSE 0

Expected(range, view) ==
  LET seconds == UNION {Midnight(d)..(Midnight(d + 1) - 1) : d \in range}
      all == WorkedOn(range, view)
      on(t) == {i.proj : i \in {j \in all : j.from <= t /\ t < j.to}}
      own == [p \in Series |-> Sum([t \in seconds |-> Share(t, p, on(t))])]
  IN IF view.rollup_merged THEN Folded(own) ELSE own

\* Whatever changed before, a query gives every project the seconds in which it was worked on,
\* a second of several projects divided among them and counted once, and merged projects to
\* their parent; only a deletion that came by LAN sync may leave time with a project that is gone.
TimeCountedOnce ==
  answer # NoAnswer =>
    LET should == Expected(answer.days, answer.view)
        told == [p \in Series |-> Total(answer.buckets, p)]
    IN Sum(told) = Sum(should) /\ (~history.orphans => told = should)

\* The counts, the bars and the estimates say the same as the seconds: an active project has
\* sessions exactly when it has time, a bar holds all of its bucket, and without such a
\* deletion every second of a project is in the row of an estimate.
ViewsAgree ==
  answer # NoAnswer =>
    LET told == [p \in Series |-> Total(answer.buckets, p)]
    IN /\ (answer.view.rollup_merged /\ ~history.orphans) =>
            \A p \in Series : p = Nobody \/ tree[p] = "active" =>
              (answer.counts[p] > 0 <=> told[p] > 0)
       /\ \A b \in DOMAIN answer.buckets :
            answer.bars[b].selected + answer.bars[b].other = Sum(answer.buckets[b])
       /\ ~history.orphans => \A p \in PtProj : told[p] > 0 => p \in answer.estimates
=============================================================================
