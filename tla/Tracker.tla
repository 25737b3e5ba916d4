------------------------------- MODULE Tracker -------------------------------
(***************************************************************************)
(* The monitor thread (src/tracker.rs): one iteration of run_loop is       *)
(* LoopTop (stop signal, change of date, sleep) and LoopBottom (recording  *)
(* and saving), with the freeze of the database, the settings and the      *)
(* machine's sleep changing in between; the day's data in memory and the   *)
(* daily store (src/storage.rs, shared/daily_store) they are saved to.     *)
(* Files of an application, titles and the summary are left out.           *)
(***************************************************************************)
EXTENDS Naturals, Sequences, FiniteSets

CONSTANTS
  Exes, NoExe,           \* monitored applications; any other window
  DAY, SESSION_GAP, SAVE_SECS, MAX_ELAPSED,   \* lengths in seconds; the last one is 3 * poll
  NoDay,                 \* no snapshot of a day
  TrkStart, TrkEnd, TrkUpsets, MaxWait   \* bounds: the clock, bad events, seconds between two ticks

ASSUME TrackerAssumption ==
  /\ DAY \in Nat \ {0} /\ SAVE_SECS \in Nat /\ SESSION_GAP \in Nat \ {0}
  /\ MAX_ELAPSED \in Nat \ {0}
  /\ MaxWait \in Nat /\ TrkUpsets \in Nat /\ TrkEnd \in Nat /\ TrkStart \in MaxWait..TrkEnd
  /\ NoExe \notin Exes \cup Nat

VARIABLES
  clock,     \* wall clock
  at,        \* the loop: "top", "bottom" or "stopped"
  dt,        \* seconds since the last tick
  mem,       \* daily_data
  store,     \* the daily store: a snapshot per day
  active,    \* active_sessions: when an application was last recorded
  fg,        \* last_foreground
  was_idle, had_prev, tracked, \* was_idle, a CPU snapshot is there, the monitored applications
  frozen, skipped, lastSave,   \* db_frozen, save_skipped_while_frozen, last_save
  credit,    \* history: seconds credited to a day and application
  used,      \* history: seconds of ticks in which the user was there
  away,      \* history: instants at which the user was idle or the machine asleep
  excuse,    \* history: days with a save that was skipped or failed, or a load that failed
  trkBad     \* bad events so far

trkVars == <<clock, at, dt, mem, store, active, fg, was_idle, had_prev, tracked,
             frozen, skipped, lastSave, credit, used, away, excuse, trkBad>>

DayOf(t) == t \div DAY
TrkDays == 0..DayOf(TrkEnd)
Span == [s: Nat, e: Nat]
DayData == [day: TrkDays, total: [Exes -> Nat], spans: [Exes -> Seq(Span)]]

ASSUME NoDayAssumption == NoDay \notin DayData

TrkTypeOK ==
  /\ clock \in Nat /\ dt \in Nat /\ lastSave \in Nat /\ used \in Nat /\ trkBad \in Nat
  /\ at \in {"top", "bottom", "stopped"}
  /\ mem \in DayData
  /\ store \in [TrkDays -> DayData \cup {NoDay}]
  /\ active \in [Exes -> Nat \cup {NoExe}]
  /\ fg \in Exes \cup {NoExe} /\ tracked \subseteq Exes
  /\ was_idle \in BOOLEAN /\ had_prev \in BOOLEAN /\ frozen \in BOOLEAN /\ skipped \in BOOLEAN
  /\ credit \in [TrkDays -> [Exes -> Nat]]
  /\ away \subseteq Nat /\ excuse \subseteq TrkDays

empty_daily(d) == [day |-> d, total |-> [x \in Exes |-> 0], spans |-> [x \in Exes |-> <<>>]]
NothingActive == [x \in Exes |-> NoExe]

TrkInit ==
  /\ clock = TrkStart /\ at = "top" /\ dt = 0
  /\ mem = empty_daily(DayOf(TrkStart))
  /\ store = [d \in TrkDays |-> NoDay]
  /\ active = NothingActive /\ fg = NoExe
  /\ was_idle = FALSE /\ had_prev = FALSE /\ tracked = Exes
  /\ frozen = FALSE /\ skipped = FALSE /\ lastSave = TrkStart
  /\ credit = [d \in TrkDays |-> [x \in Exes |-> 0]]
  /\ used = 0 /\ away = {} /\ excuse = {} /\ trkBad = 0

-----------------------------------------------------------------------------
(* Saving and loading. *)

\* load_daily: a day that cannot be read is an empty day.
load_daily(d, readable) == IF readable /\ store[d] # NoDay THEN store[d] ELSE empty_daily(d)

\* save_daily_if_unfrozen: skipped while frozen; an error of the store is logged
\* and counts as saved.  replace_day_snapshot is one transaction.
saved(written) == IF ~frozen /\ written THEN [store EXCEPT ![mem.day] = mem] ELSE store

\* Is what memory holds of the day left out of the store, once this save is over?
Left(written) == (frozen \/ ~written) /\ store[mem.day] # mem

\* An error of the store, counted as a bad event.
Works(b) == /\ (~b => trkBad < TrkUpsets)
            /\ trkBad' = IF b THEN trkBad ELSE trkBad + 1

\* Mutant of ChangeOfDate: the new day is loaded without saving the old one.
ChangeOfDateUnsaved(written, readable) ==
  /\ store' = store
  /\ skipped' = frozen
  /\ mem' = load_daily(DayOf(clock'), readable)
  /\ excuse' = excuse \cup (IF Left(written) THEN {mem.day} ELSE {})
                      \cup (IF readable THEN {} ELSE {DayOf(clock')})

ChangeOfDate(written, readable) ==
  /\ store' = saved(written)
  /\ skipped' = frozen
  /\ mem' = load_daily(DayOf(clock'), readable)
  /\ excuse' = excuse \cup (IF Left(written) THEN {mem.day} ELSE {})
                      \cup (IF readable THEN {} ELSE {DayOf(clock')})

\* The next iteration, n seconds after the last one: with a change of date the
\* day is saved and the new one loaded, and open sessions are forgotten.
LoopTop(n) ==
  /\ at = "top" /\ clock + n <= TrkEnd
  /\ clock' = clock + n /\ dt' = n /\ at' = "bottom"
  /\ \/ /\ DayOf(clock') = mem.day
        /\ UNCHANGED <<store, mem, skipped, excuse, active, had_prev, trkBad>>
     \/ /\ DayOf(clock') # mem.day
        /\ \E written, readable \in BOOLEAN :
             /\ Works(written /\ readable)
             /\ ChangeOfDate(written, readable)
        /\ active' = NothingActive /\ had_prev' = FALSE
  /\ UNCHANGED <<fg, was_idle, tracked, frozen, lastSave, credit, used, away>>

\* The machine slept n of the seconds since the last tick: the tick is discarded.
SleepDetected(n) ==
  /\ at = "bottom" /\ clock + n <= TrkEnd /\ DayOf(clock + n) = mem.day
  /\ clock' = clock + n /\ at' = "top" /\ dt' = 0
  /\ \E written \in BOOLEAN :
       /\ Works(written)
       /\ store' = saved(written)
       /\ excuse' = excuse \cup (IF Left(written) /\ ~frozen THEN {mem.day} ELSE {})
  /\ skipped' = frozen /\ lastSave' = IF frozen THEN lastSave ELSE clock + n
  /\ active' = NothingActive /\ was_idle' = TRUE
  /\ away' = away \cup {clock + n}
  /\ UNCHANGED <<mem, fg, had_prev, tracked, frozen, credit, used>>

\* The stop signal: a last save, or none while the database is frozen.
Shutdown ==
  /\ at = "top" /\ at' = "stopped"
  /\ \E written \in BOOLEAN :
       /\ Works(written)
       /\ store' = saved(written)
       /\ excuse' = excuse \cup (IF Left(written) THEN {mem.day} ELSE {})
  /\ UNCHANGED <<clock, dt, mem, active, fg, was_idle, had_prev, tracked, frozen, skipped,
                 lastSave, credit, used, away>>

\* The thread starts again, after a shutdown or a crash.
Start(n) ==
  /\ clock + n <= TrkEnd
  /\ clock' = clock + n /\ at' = "top" /\ dt' = 0
  /\ \E readable \in BOOLEAN :
       /\ (at # "stopped" \/ ~readable) => trkBad < TrkUpsets
       /\ trkBad' = IF at # "stopped" \/ ~readable THEN trkBad + 1 ELSE trkBad
       /\ mem' = load_daily(DayOf(clock'), readable)
       /\ excuse' = excuse \cup (IF at # "stopped" /\ store[mem.day] # mem THEN {mem.day} ELSE {})
                           \cup (IF readable THEN {} ELSE {DayOf(clock')})
  /\ active' = NothingActive /\ fg' = NoExe /\ was_idle' = FALSE /\ had_prev' = FALSE
  /\ skipped' = FALSE /\ lastSave' = clock + n
  /\ UNCHANGED <<store, tracked, frozen, credit, used, away>>

-----------------------------------------------------------------------------
(* Recording.  A state of the recording is [mem, active, credit]. *)

\* Is the application's last session still open?
Extends(r, x) == r.active[x] # NoExe /\ clock - r.active[x] < SESSION_GAP

\* record_app_activity: credits n seconds, extends the last session up to now or
\* opens one that began n seconds ago.
record_app_activity(r, x, n) ==
  LET spans == r.mem.spans[x]
      new == IF Extends(r, x)
             THEN IF spans = <<>> THEN spans ELSE [spans EXCEPT ![Len(spans)].e = clock]
             ELSE Append(spans, [s |-> clock - n, e |-> clock])
  IN [mem    |-> [r.mem EXCEPT !.total[x] = @ + n, !.spans[x] = new],
      active |-> [r.active EXCEPT ![x] = clock],
      credit |-> [r.credit EXCEPT ![r.mem.day][x] = @ + n]]

RecordIf(b, r, x, n) == IF b THEN record_app_activity(r, x, n) ELSE r

Least(a, b) == IF a < b THEN a ELSE b

\* split_switch_elapsed: what the application that was left gets of a tick in
\* which the window changed `since' seconds ago (0: it did not change).
PrevElapsed(n, since) == IF since = 0 THEN 0 ELSE n - Least(since, n)

\* Foreground: the application that was left, then the one that is there now.
Foreground(r, x, n, since) ==
  LET left == ~was_idle /\ PrevElapsed(n, since) > 0 /\ fg # NoExe
      r1 == RecordIf(left, r, fg, PrevElapsed(n, since))
  IN RecordIf(x # NoExe, r1, x, IF was_idle THEN n ELSE n - PrevElapsed(n, since))

Recorded(x, n, since) ==
  {x, IF ~was_idle /\ PrevElapsed(n, since) > 0 THEN fg ELSE NoExe} \ {NoExe}

\* Mutant of Background: what the foreground has recorded is not left out.
BackgroundTwice(busy, done) == busy \cap tracked

\* should_record_background_cpu, for applications the foreground has not recorded.
Background(busy, done) == IF had_prev THEN (busy \cap tracked) \ done ELSE {}

RECORDS(r, S, n) ==
  [mem    |-> [r.mem EXCEPT !.total = [x \in Exes |-> IF x \in S THEN record_app_activity(r, x, n).mem.total[x] ELSE @[x]],
                            !.spans = [x \in Exes |-> IF x \in S THEN record_app_activity(r, x, n).mem.spans[x] ELSE @[x]]],
   active |-> [x \in Exes |-> IF x \in S THEN clock ELSE r.active[x]],
   credit |-> [r.credit EXCEPT ![r.mem.day] = [x \in Exes |-> IF x \in S THEN @[x] + n ELSE @[x]]]]

\* Mutant of close_sessions: sessions stay open when the user goes idle.
close_sessions_never(r) == r

\* close_sessions_on_idle_transition
close_sessions(r) == IF was_idle THEN r ELSE [r EXCEPT !.active = NothingActive]

AsItWas == [mem |-> mem, active |-> active, credit |-> credit]

\* What a tick records: x in front, changed `since' seconds ago, `busy' in the
\* background.
Tick(idle, x, since, busy) ==
  LET n == Least(dt, MAX_ELAPSED)
  IN IF idle THEN close_sessions(AsItWas)
     ELSE RECORDS(Foreground(AsItWas, x, n, since), Background(busy, Recorded(x, n, since)), n)

\* The periodic save, or the save that was skipped while frozen.
SaveDue == clock - lastSave >= SAVE_SECS \/ (skipped /\ ~frozen)

\* The rest of the iteration: one recording and perhaps a save.
LoopBottom ==
  /\ at = "bottom" /\ at' = "top"
  /\ \E idle \in BOOLEAN, x \in tracked \cup {NoExe}, since \in 0..(dt - 1), busy \in SUBSET tracked :
       LET r == Tick(idle, x, since, busy) IN
       /\ mem' = r.mem /\ active' = r.active /\ credit' = r.credit
       /\ fg' = IF idle THEN NoExe ELSE x
       /\ was_idle' = idle
       /\ used' = IF idle THEN used ELSE used + Least(dt, MAX_ELAPSED)
       /\ away' = IF idle THEN away \cup {clock} ELSE away
       /\ \/ /\ ~SaveDue
             /\ UNCHANGED <<store, skipped, lastSave, excuse, trkBad>>
          \/ /\ SaveDue /\ frozen /\ skipped' = TRUE
             /\ UNCHANGED <<store, lastSave, excuse, trkBad>>
          \/ /\ SaveDue /\ ~frozen /\ skipped' = FALSE /\ lastSave' = clock
             /\ \E written \in BOOLEAN :
                  /\ Works(written)
                  /\ store' = IF written THEN [store EXCEPT ![mem.day] = r.mem] ELSE store
                  /\ excuse' = IF written THEN excuse ELSE excuse \cup {mem.day}
  /\ had_prev' = (tracked # {} \/ had_prev)
  /\ UNCHANGED <<clock, dt, tracked, frozen>>

\* A sync freezes and unfreezes the database.
Freeze ==
  /\ frozen' = ~frozen
  /\ frozen \/ trkBad < TrkUpsets
  /\ trkBad' = IF frozen THEN trkBad ELSE trkBad + 1
  /\ UNCHANGED <<clock, at, dt, mem, store, active, fg, was_idle, had_prev, tracked, skipped,
                 lastSave, credit, used, away, excuse>>

\* The configuration is read again and names other applications.
ReloadConfig ==
  /\ at = "bottom" /\ trkBad < TrkUpsets /\ trkBad' = trkBad + 1
  /\ tracked' \in SUBSET Exes \ {tracked}
  /\ UNCHANGED <<clock, at, dt, mem, store, active, fg, was_idle, had_prev, frozen, skipped,
                 lastSave, credit, used, away, excuse>>

TrkNext ==
  \/ \E n \in 1..MaxWait : LoopTop(n) \/ SleepDetected(n) \/ Start(n)
  \/ LoopBottom \/ Shutdown \/ Freeze \/ ReloadConfig

TrkSpec == TrkInit /\ [][TrkNext]_trkVars

-----------------------------------------------------------------------------
Recordings(d) == IF d = mem.day THEN mem ELSE store[d]

OverAllDays(f) ==
  LET T[d \in TrkDays] == f[d] + (IF d = 0 THEN 0 ELSE T[d - 1])
  IN T[DayOf(TrkEnd)]

TotalOf(x) ==
  OverAllDays([d \in TrkDays |-> IF Recordings(d) = NoDay THEN 0 ELSE Recordings(d).total[x]])

NoTimeInvented == \A x \in Exes : TotalOf(x) <= used

AwayTimeStaysOut ==
  \A d \in TrkDays : Recordings(d) # NoDay =>
    \A x \in Exes :
      LET spans == Recordings(d).spans[x] IN
      \A i \in 1..Len(spans) :
        /\ \A t \in away : ~(spans[i].s < t /\ t < spans[i].e)
        /\ \A j \in 1..(i - 1) : spans[j].e <= spans[i].s

\* An application is never credited with more seconds, over all days, than there
\* were ticks with the user at the machine: the slices of a switch, a window that
\* is both in front and busy, midnight, and restarts count no second twice.
\* "Forget active sessions so that the next active tick opens a fresh session
\* instead of extending the pre-idle one across the idle gap": no session runs
\* over a moment in which the user was idle or the machine asleep, and the
\* sessions of an application do not overlap.
TrackedTimeIsReal == NoTimeInvented /\ AwayTimeStaysOut

\* What was credited to a day that is over, or before the thread stopped, is in
\* the daily store, but for days with a save that fell into a freeze or failed, a
\* load that failed, or a crash.
LossHasAReason ==
  \A d \in TrkDays \ excuse :
    (d < mem.day \/ at = "stopped") =>
      \A x \in Exes : (IF store[d] = NoDay THEN 0 ELSE store[d].total[x]) = credit[d][x]
=============================================================================
