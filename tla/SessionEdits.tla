---------------------------- MODULE SessionEdits ----------------------------
(***************************************************************************)
(* The sessions of one application in the dashboard's database: slices     *)
(* that the daemon records are imported again and again (refresh_today,    *)
(* refresh_missing_days) while they grow, and between two imports sessions *)
(* are merged (rebuild_sessions), split, assigned, boosted and deleted.    *)
(* Time is counted in units of the slices.                                 *)
(***************************************************************************)
EXTENDS Naturals, Sequences

CONSTANTS
  MaxProjId,           \* bound: project ids
  GAP_FILL,            \* gap_fill_minutes
  SES_DAY,             \* length of a day
  SesEnd, MaxRows, MaxSesOps   \* bounds: the clock, session ids, user commands

ASSUME SesAssumption ==
  /\ MaxProjId \in Nat /\ GAP_FILL \in Nat /\ SES_DAY \in Nat \ {0}
  /\ SesEnd \in Nat /\ MaxRows \in Nat /\ MaxSesOps \in Nat

VARIABLES
  now,         \* the daemon's clock
  slices,      \* sessions of the daily store, the last one may be open
  open,        \* does the daemon still extend the last slice?
  rows,        \* the sessions table; the id is the index
  overrides,   \* session_manual_overrides, the oldest first
  registered,  \* is the application monitored, or assigned to a project?
  ops,         \* user commands so far
  seen,        \* history: instants that have been imported, and not purged since
  gone,        \* history: instants deleted by the user
  choice,      \* history: by start of a session, the interval and project last recorded
  late,        \* history: rows that rebuild hid before all of their slice was imported
  applied      \* history: have the overrides just been applied?

sesVars == <<now, slices, open, rows, overrides, registered, ops, seen, gone, choice, late, applied>>

Ids == 1..Len(rows)
NoProj == 0
SesProjRef == NoProj..MaxProjId
NoChoice == [e |-> 0, proj |-> NoProj]
SesDayOf(t) == t \div SES_DAY
Instants(r) == r.s..(r.e - 1)

SesRow == [s: Nat, e: Nat, dur: Nat, hidden: BOOLEAN, split: 0..MaxRows, boost: BOOLEAN,
           proj: SesProjRef, there: BOOLEAN]
SesSlice == [s: Nat, e: Nat]
SesOverride == [id: 1..MaxRows, s: Nat, e: Nat, proj: SesProjRef]

SesTypeOK ==
  /\ now \in 0..SesEnd /\ open \in BOOLEAN /\ registered \in BOOLEAN /\ applied \in BOOLEAN
  /\ slices \in Seq(SesSlice) /\ rows \in Seq(SesRow) /\ overrides \in Seq(SesOverride)
  /\ Len(rows) <= MaxRows /\ ops \in 0..MaxSesOps
  /\ seen \cup gone \subseteq 0..SesEnd /\ late \subseteq Ids
  /\ choice \in [0..SesEnd -> [e: Nat, proj: SesProjRef]]

SesInit ==
  /\ now = 0 /\ slices = <<>> /\ open = FALSE
  /\ rows = <<>> /\ overrides = <<>> /\ registered = TRUE /\ ops = 0
  /\ seen = {} /\ gone = {} /\ late = {} /\ applied = FALSE
  /\ choice = [t \in 0..SesEnd |-> NoChoice]

-----------------------------------------------------------------------------
(* The daemon: a unit of use extends the open slice or begins one; a day's *)
(* slices end with it.                                                     *)

Used ==
  /\ now < SesEnd /\ now' = now + 1 /\ open' = TRUE
  /\ slices' = IF open /\ SesDayOf(slices[Len(slices)].s) = SesDayOf(now)
               THEN [slices EXCEPT ![Len(slices)].e = now + 1]
               ELSE Append(slices, [s |-> now, e |-> now + 1])
  /\ applied' = FALSE
  /\ UNCHANGED <<rows, overrides, registered, ops, seen, gone, choice, late>>

Away ==
  /\ now < SesEnd /\ now' = now + 1 /\ open' = FALSE /\ applied' = FALSE
  /\ UNCHANGED <<slices, rows, overrides, registered, ops, seen, gone, choice, late>>

-----------------------------------------------------------------------------
(* upsert_daily_data. *)

There(rs) == {i \in 1..Len(rs) : rs[i].there}
Visible(rs) == {i \in There(rs) : ~rs[i].hidden}

Larger(a, b) == IF a > b THEN a ELSE b
Smaller(a, b) == IF a < b THEN a ELSE b

\* ON CONFLICT(app_id, start_time): extend only, and a split session never.
Upserted(r, sl) ==
  IF r.split # 0 THEN r
  ELSE [r EXCEPT !.e = Larger(r.e, sl.e), !.dur = Larger(r.dur, sl.e - sl.s)]

NewRow(sl) == [s |-> sl.s, e |-> sl.e, dur |-> sl.e - sl.s, hidden |-> FALSE, split |-> 0,
               boost |-> FALSE, proj |-> NoProj, there |-> TRUE]

UpsertSlice(rs, sl) ==
  IF \E i \in There(rs) : rs[i].s = sl.s
  THEN [i \in 1..Len(rs) |-> IF rs[i].there /\ rs[i].s = sl.s THEN Upserted(rs[i], sl) ELSE rs[i]]
  ELSE Append(rs, NewRow(sl))

\* purge_unregistered_apps: sessions of an application that is neither monitored
\* nor assigned go, without tombstones.
purge_unregistered_apps(rs) == [i \in 1..Len(rs) |-> [rs[i] EXCEPT !.there = FALSE]]

SlicesOf(day) == {n \in 1..Len(slices) : SesDayOf(slices[n].s) = day}

\* The slices of a day, one after the other.
UpsertedDay(day) ==
  LET upserted[n \in 0..Len(slices)] ==
        IF n = 0 THEN rows
        ELSE IF n \in SlicesOf(day) THEN UpsertSlice(upserted[n - 1], slices[n])
        ELSE upserted[n - 1]
  IN upserted[Len(slices)]

upsert_daily_data(day) ==
  /\ SlicesOf(day) # {}
  /\ rows' = IF registered THEN UpsertedDay(day) ELSE purge_unregistered_apps(rows)
  /\ Len(rows') <= MaxRows
  /\ seen' = IF registered THEN seen \cup UNION {Instants(slices[n]) : n \in SlicesOf(day)} ELSE {}
  /\ applied' = FALSE
  /\ UNCHANGED <<now, slices, open, overrides, registered, ops, gone, choice, late>>

refresh_today == upsert_daily_data(SesDayOf(now))

\* Days before today, and only those of which the database has no session.
refresh_missing_days ==
  \E day \in 0..(SesDayOf(now) - 1) :
    /\ ~\E i \in There(rows) : SesDayOf(rows[i].s) = day
    /\ upsert_daily_data(day)

-----------------------------------------------------------------------------
(* rebuild_sessions. *)

\* Mutant of MergedEnd: the end of the surviving session is not written.
MergedEndKept(cur, next) == cur.e

MergedEnd(cur, next) == Larger(cur.e, next.e)

\* Mutant of AddedDuration: what two sessions share is counted twice.
AddedDurationAll(cur, next) == next.dur

\* Only what the next session adds beyond the end counts.
AddedDuration(cur, next) ==
  LET from == Larger(next.s, cur.e) IN Smaller(next.dur, IF next.e > from THEN next.e - from ELSE 0)

GapDuration(cur, next) == IF next.s > cur.e THEN next.s - cur.e ELSE 0

Mergeable(cur, next) ==
  /\ cur.proj = next.proj /\ cur.boost = next.boost
  /\ next.s <= cur.e + GAP_FILL

Absorb(cur, next) ==
  [cur EXCEPT !.e = MergedEnd(cur, next),
              !.dur = cur.dur + AddedDuration(cur, next) + GapDuration(cur, next)]

\* One session of the sorted sequence: merged into the current one, or the next current one.
MergeNext(acc, i) ==
  IF acc.cur # 0 /\ Mergeable(acc.rows[acc.cur], acc.rows[i])
  THEN [rows |-> [acc.rows EXCEPT ![acc.cur] = Absorb(acc.rows[acc.cur], acc.rows[i]),
                                  ![i].hidden = TRUE],
        cur  |-> acc.cur,
        into |-> Append(acc.into, <<i, acc.cur>>)]
  ELSE [acc EXCEPT !.cur = i]

\* The session that sort_by puts at the n-th place of project and start.
Turn(rs, n) == {i \in Visible(rs) : rs[i].split = 0 /\ rs[i].proj * (SesEnd + 1) + rs[i].s = n - 1}
LastTurn == (MaxProjId + 1) * (SesEnd + 1)

Merged(rs) ==
  LET merged[n \in 0..LastTurn] ==
        IF n = 0 THEN [rows |-> rs, cur |-> 0, into |-> <<>>]
        ELSE IF Turn(rs, n) = {} THEN merged[n - 1]
        ELSE MergeNext(merged[n - 1], CHOOSE i \in Turn(rs, n) : TRUE)
  IN merged[LastTurn]

\* The overrides without those at the places D.
Without(os, D) ==
  LET kept[n \in 0..Len(os)] ==
        IF n = 0 THEN <<>> ELSE IF n \in D THEN kept[n - 1] ELSE Append(kept[n - 1], os[n])
  IN kept[Len(os)]

OverridesOf(os, id) == {k \in 1..Len(os) : os[k].id = id}
OverridesAt(os, r) == {k \in 1..Len(os) : os[k].s = r.s /\ os[k].e = r.e}

\* UPDATE OR IGNORE of the override of a merged session, whose id is unique; it is
\* the newest then.  What could not be moved is deleted.
MoveOverride(os, pair) ==
  LET own == OverridesOf(os, pair[1])
  IN IF own = {} THEN os
     ELSE IF OverridesOf(os, pair[2]) # {} THEN Without(os, own)
     ELSE Append(Without(os, own), [os[CHOOSE k \in own : TRUE] EXCEPT !.id = pair[2]])

MovedOverrides(os, into) ==
  LET moved[n \in 0..Len(into)] ==
        IF n = 0 THEN os ELSE MoveOverride(moved[n - 1], into[n])
  IN moved[Len(into)]

\* Does the daemon still extend the row's slice, or has extended it since the import?
Unfinished(r) ==
  \E k \in 1..Len(slices) :
    slices[k].s = r.s /\ (slices[k].e > r.e \/ (open /\ k = Len(slices)))

rebuild_sessions ==
  LET m == Merged(rows) IN
  /\ m.into # <<>>
  /\ rows' = m.rows
  /\ overrides' = MovedOverrides(overrides, m.into)
  /\ late' = late \cup {i \in Ids : m.rows[i].hidden /\ ~rows[i].hidden /\ Unfinished(rows[i])}
  /\ choice' = [t \in 0..SesEnd |->      \* a merged session is no longer a choice of its own
                  IF \E k \in 1..Len(m.into) : t \in {rows[m.into[k][1]].s, rows[m.into[k][2]].s}
                  THEN NoChoice ELSE choice[t]]
  /\ applied' = FALSE
  /\ UNCHANGED <<now, slices, open, registered, ops, seen, gone>>

-----------------------------------------------------------------------------
(* Commands of the user. *)

Command == ops < MaxSesOps /\ ops' = ops + 1 /\ applied' = FALSE

\* The UPDATE of the override of this interval gives it the session's id, which is unique:
\* it fails when that was another session's and this one has an override already.
OverrideFails(os, id, r) ==
  /\ OverridesOf(os, id) # {}
  /\ \E k \in OverridesAt(os, r) : os[k].id # id

\* The override of this interval, else a new one that replaces the session's older one.
upsert_manual_session_override(os, id, r, p) ==
  IF OverrideFails(os, id, r) THEN os
  ELSE Append(Without(os, OverridesAt(os, r) \cup OverridesOf(os, id)),
              [id |-> id, s |-> r.s, e |-> r.e, proj |-> p])

assign_session_to_project(i, p) ==
  /\ Command /\ rows[i].proj # p /\ ~OverrideFails(overrides, i, rows[i])
  /\ rows' = [rows EXCEPT ![i].proj = p]
  /\ overrides' = upsert_manual_session_override(overrides, i, rows[i], p)
  /\ choice' = [choice EXCEPT ![rows[i].s] = [e |-> rows[i].e, proj |-> p]]
  /\ UNCHANGED <<now, slices, open, registered, seen, gone, late>>

\* Its comment is taken to be there.
update_session_rate_multiplier(i) ==
  /\ Command
  /\ rows' = [rows EXCEPT ![i].boost = ~rows[i].boost]
  /\ UNCHANGED <<now, slices, open, overrides, registered, seen, gone, choice, late>>

delete_session(i) ==
  /\ Command
  /\ rows' = [rows EXCEPT ![i].hidden = TRUE]
  /\ gone' = gone \cup Instants(rows[i])
  /\ UNCHANGED <<now, slices, open, overrides, registered, seen, choice, late>>

\* execute_session_split: the parts of a session, its seconds in the ratio of the cut,
\* rounded; the last part has the rest.
SplitParts(i, at, p, q) ==
  LET r == rows[i]
      span == r.e - r.s
      secs == (2 * r.dur * (at - r.s) + span) \div (2 * span)
  IN <<[r EXCEPT !.e = at, !.dur = secs, !.proj = p, !.split = i],
       [r EXCEPT !.s = at, !.dur = r.dur - secs, !.proj = q, !.split = i]>>

\* An override for each part; that of the first may fail, which is logged.
apply_split_side_effects(i, parts) ==
  LET first == upsert_manual_session_override(overrides, i, parts[1], parts[1].proj)
  IN /\ overrides' = upsert_manual_session_override(first, Len(rows) + 1, parts[2], parts[2].proj)
     /\ choice' = [choice EXCEPT
          ![parts[1].s] = IF OverrideFails(overrides, i, parts[1]) THEN NoChoice
                          ELSE [e |-> parts[1].e, proj |-> parts[1].proj],
          ![parts[2].s] = [e |-> parts[2].e, proj |-> parts[2].proj]]

\* load_split_source_session: a split session is not split again, a hidden one may be.
CanSplit(i, at) ==
  /\ rows[i].split = 0 /\ Len(rows) < MaxRows
  /\ at \in (rows[i].s + 1)..(rows[i].e - 1)

\* A start that is taken fails the INSERT.
split_session(i, at, p, q) ==
  /\ Command /\ CanSplit(i, at)
  /\ ~\E j \in There(rows) : rows[j].s = at
  /\ LET parts == SplitParts(i, at, p, q) IN
     /\ rows' = Append([rows EXCEPT ![i] = parts[1]], parts[2])
     /\ apply_split_side_effects(i, parts)
  /\ UNCHANGED <<now, slices, open, registered, seen, gone, late>>

\* The application is taken off the list of monitored ones, or put on it again.
SetMonitored ==
  /\ registered' = ~registered
  /\ \/ registered /\ Command
     \/ ~registered /\ UNCHANGED <<ops, applied>>
  /\ UNCHANGED <<now, slices, open, rows, overrides, seen, gone, choice, late>>

\* Mutant of Targets: sessions are found by their id only.
TargetsById(rs, o) == IF o.id \in There(rs) THEN {o.id} ELSE {}

\* By id, or by the interval when the id is not there.
Targets(rs, o) ==
  IF o.id \in There(rs) THEN {o.id} ELSE {i \in There(rs) : rs[i].s = o.s /\ rs[i].e = o.e}

ApplyOverride(rs, o) ==
  [i \in 1..Len(rs) |-> IF i \in Targets(rs, o) THEN [rs[i] EXCEPT !.proj = o.proj] ELSE rs[i]]

\* At the end of an import of data, the newest first.
apply_manual_session_overrides(rs) ==
  LET reapplied[n \in 0..Len(overrides)] ==
        IF n = 0 THEN rs
        ELSE ApplyOverride(reapplied[n - 1], overrides[Len(overrides) - n + 1])
  IN reapplied[Len(overrides)]

ImportData ==
  /\ overrides # <<>> /\ ~applied /\ applied' = TRUE
  /\ rows' = apply_manual_session_overrides(rows)
  /\ UNCHANGED <<now, slices, open, overrides, registered, ops, seen, gone, choice, late>>

SesNext ==
  \/ Used \/ Away \/ refresh_today \/ refresh_missing_days \/ rebuild_sessions
  \/ SetMonitored \/ ImportData
  \/ \E i \in There(rows) :
       \/ update_session_rate_multiplier(i) \/ delete_session(i)
       \/ \E p \in SesProjRef : assign_session_to_project(i, p)
       \/ \E at \in 1..SesEnd, p, q \in SesProjRef : split_session(i, at, p, q)

SesSpec == SesInit /\ [][SesNext]_sesVars

-----------------------------------------------------------------------------
Shown == UNION {Instants(rows[i]) : i \in Visible(rows)}

\* The row an imported instant came from.
RowAt(t) == {i \in There(rows) : \E k \in 1..Len(slices) : slices[k].s = rows[i].s /\ t \in Instants(slices[k])}

\* Deleted by the user, or grown after the user split or deleted its session.
MayBeHidden(t) ==
  \/ t \in gone
  \/ \E i \in RowAt(t) : rows[i].split # 0 \/ rows[i].s \in gone

\* "Merging does not change this value; if it changes after a rebuild, we are
\* losing time": recorded time that was imported is shown by some session, in
\* every order of imports, merges, splits and assignments.
TimeStaysVisible == \A t \in seen : t \in Shown \/ MayBeHidden(t)

\* The same, but for what a slice gained after rebuild_sessions had hidden its row; and
\* no session counts more seconds than it is long, however often it was merged with
\* sessions that overlap it, extended and split.
ClosedTimeIsKept ==
  /\ \A t \in seen : t \in Shown \/ MayBeHidden(t) \/ RowAt(t) \cap late # {}
  /\ \A i \in Visible(rows) : rows[i].dur <= rows[i].e - rows[i].s

\* "manual assignments survive session-id churn": a session whose interval is the
\* one the user assigned last has that project again, once an import has applied the
\* overrides; but for a part of a split whose override could not be recorded.
ChoiceReapplied ==
  applied => \A i \in Visible(rows) :
               choice[rows[i].s].e = rows[i].e => rows[i].proj = choice[rows[i].s].proj
=============================================================================
