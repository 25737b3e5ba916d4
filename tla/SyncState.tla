------------------------------ MODULE SyncState ------------------------------
(***************************************************************************)
(* LanSyncState of one daemon (src/lan_server.rs): the in-progress lock,   *)
(* the database freeze, role, phase, cooldown and circuit breaker, shared  *)
(* by the threads that run a sync as master (src/lan_sync_orchestrator.rs),*)
(* the triggers that start them, the handlers that serve a remote master,  *)
(* and the auto-unfreeze poll.  What the databases hold is LanSync's part. *)
(*                                                                         *)
(* freeze() and unfreeze() are three stores each; they are one step here.  *)
(* Durations are not counted: a window, a cooldown or a timeout elapses at *)
(* some moment.                                                            *)
(***************************************************************************)
EXTENDS Integers, FiniteSets

CONSTANTS
  Thread,        \* threads that may run a sync as master
  Remote,        \* remote masters that may use this daemon as their slave
  MAX_RETRIES,
  SYNC_CIRCUIT_BREAKER_THRESHOLD,
  SYNC_BACKOFF_BASE_SECS,
  SYNC_BACKOFF_MAX_SECS,
  Forces,        \* bound: values of the dashboard's and the tray's "force" flag
  Triggers,      \* bound: what starts syncs, of "dashboard", "tray" and "discovery"
  MaxFailures    \* bound: no sync is started after so many failures in a row

ASSUME ParameterAssumption ==
  /\ MAX_RETRIES \in Nat \ {0} /\ SYNC_CIRCUIT_BREAKER_THRESHOLD \in Nat \ {0}
  /\ SYNC_BACKOFF_BASE_SECS \in Nat \ {0}
  /\ SYNC_BACKOFF_MAX_SECS \in Nat /\ SYNC_BACKOFF_MAX_SECS >= SYNC_BACKOFF_BASE_SECS
  /\ MaxFailures \in Nat /\ Forces \subseteq BOOLEAN

\* Evaluated by TLC: exponentiation is beyond the provers.
ASSUME PowerAssumption == \A n \in 0..20 : 2^n \in Nat \ {0}

VARIABLES
  sync_in_progress,
  db_frozen,
  frozen_at,       \* is the time of the freeze recorded?
  phase,
  role,
  recent,          \* a sync completed less than SYNC_COOLDOWN_SECS ago
  failures,        \* consecutive_sync_failures
  backoff,         \* length of the open breaker window, 0 when none is open
  waited,          \* history: a window has elapsed since the last failure
  thread,          \* where each master thread is
  guard,           \* threads whose tray helper still holds a SyncGuard
  remote           \* how far each remote master has got with us

vars == <<sync_in_progress, db_frozen, frozen_at, phase, role, recent, failures,
          backoff, waited, thread, guard, remote>>

flags == <<sync_in_progress, db_frozen, frozen_at>>
breaker == <<failures, backoff, waited>>

ThreadState == [pc: {"off", "finding", "start", "attempt", "freezing", "frozen", "failed", "backoff", "ended", "closing"},
                force: BOOLEAN, attempt: Nat, ok: BOOLEAN]

Off == [pc |-> "off", force |-> FALSE, attempt |-> 0, ok |-> FALSE]

\* Every field of the shared state stays within its type, the breaker's window
\* within SYNC_BACKOFF_MAX_SECS, and no thread is past its last attempt.
TypeOK ==
  /\ sync_in_progress \in BOOLEAN /\ db_frozen \in BOOLEAN /\ frozen_at \in BOOLEAN
  /\ phase \in {"idle", "starting", "syncing", "completed"}
  /\ role \in {"undecided", "master", "slave"}
  /\ recent \in BOOLEAN
  /\ failures \in Nat /\ waited \in BOOLEAN
  /\ backoff \in 0..SYNC_BACKOFF_MAX_SECS
  /\ thread \in [Thread -> ThreadState]
  /\ \A t \in Thread : thread[t].attempt <= MAX_RETRIES
  /\ guard \subseteq Thread
  /\ remote \in [Remote -> {"none", "preflight", "refused", "negotiated", "frozen", "dead"}]

Init ==
  /\ sync_in_progress = FALSE /\ db_frozen = FALSE /\ frozen_at = FALSE
  /\ phase = "idle" /\ role = "undecided" /\ recent = FALSE
  /\ failures = 0 /\ backoff = 0 /\ waited = FALSE
  /\ thread = [t \in Thread |-> Off] /\ guard = {}
  /\ remote = [r \in Remote |-> "none"]

-----------------------------------------------------------------------------
freeze   == db_frozen' = TRUE /\ sync_in_progress' = TRUE /\ frozen_at' = TRUE
unfreeze == db_frozen' = FALSE /\ sync_in_progress' = FALSE /\ frozen_at' = FALSE

IsOff(t) == thread[t].pc = "off"

Enter(t, pc) == thread' = [thread EXCEPT ![t].pc = pc]

Spawn(t, pc, force) ==
  /\ IsOff(t) /\ failures < MaxFailures
  /\ sync_in_progress' = TRUE
  /\ thread' = [thread EXCEPT ![t] =
                  [pc |-> pc, force |-> force, attempt |-> 0, ok |-> FALSE]]

\* handle_trigger_sync, from the dashboard: refused during the cooldown unless
\* forced; a lock that looks stale (database not frozen, phase idle or completed)
\* is cleared first; then compare-and-set.
Stale == sync_in_progress /\ ~db_frozen /\ phase \in {"idle", "completed"}

DashboardTrigger(t, force) ==
  /\ "dashboard" \in Triggers
  /\ force \/ ~recent
  /\ ~sync_in_progress \/ Stale
  /\ Spawn(t, "start", force)
  /\ role' = "master"
  /\ UNCHANGED <<db_frozen, frozen_at, phase, recent, breaker, remote, guard>>

\* The same request for a peer that is not paired clears a stale lock, then is rejected.
TriggerUnpaired(force) ==
  /\ "dashboard" \in Triggers
  /\ force \/ ~recent
  /\ Stale
  /\ sync_in_progress' = FALSE
  /\ UNCHANGED <<db_frozen, frozen_at, phase, role, recent, breaker, thread, remote, guard>>

\* trigger_sync, from the tray: compare-and-set only; a helper thread then looks for
\* a peer and starts the sync, or gives the lock back.
TrayTrigger(t, force) ==
  /\ "tray" \in Triggers
  /\ ~sync_in_progress
  /\ Spawn(t, "finding", force)
  /\ UNCHANGED <<db_frozen, frozen_at, phase, role, recent, breaker, guard, remote>>

FindPeer(t) ==
  /\ thread[t].pc = "finding"
  /\ Enter(t, "start") /\ role' = "master" /\ guard' = guard \cup {t}
  /\ UNCHANGED <<flags, phase, recent, breaker, remote>>

NoPeer(t) ==
  /\ thread[t].pc = "finding"
  /\ sync_in_progress' = FALSE
  /\ thread' = [thread EXCEPT ![t] = Off]
  /\ UNCHANGED <<db_frozen, frozen_at, phase, role, recent, breaker, guard, remote>>

\* On Windows the helper does not wait for the sync it has started: its SyncGuard is
\* dropped at any moment after that.  (On macOS it waits: no fairness here.)
DropGuard(t) ==
  /\ t \in guard /\ guard' = guard \ {t}
  /\ sync_in_progress' = FALSE
  /\ UNCHANGED <<db_frozen, frozen_at, phase, role, recent, breaker, thread, remote>>

\* The discovery loop: as master, outside the cooldown, never forced.
DiscoveryTrigger(t) ==
  /\ "discovery" \in Triggers
  /\ role = "master" /\ ~recent /\ ~sync_in_progress
  /\ Spawn(t, "start", FALSE)
  /\ UNCHANGED <<db_frozen, frozen_at, phase, role, recent, breaker, remote, guard>>

\* lan_discovery decides who should be master: the election of handle_packet among
\* undecided peers, a master yielding to another one, or the role forced in the settings.
Elect == \E r \in {"master", "slave"} :
  /\ role # r /\ role' = r
  /\ UNCHANGED <<flags, phase, recent, breaker, thread, remote, guard>>

-----------------------------------------------------------------------------
(* run_sync_as_master_with_options *)

\* The breaker is open: the caller's lock is given back.
Skip(t) ==
  /\ thread[t].pc = "start" /\ ~thread[t].force /\ backoff > 0
  /\ unfreeze /\ phase' = "idle" /\ role' = "undecided"
  /\ thread' = [thread EXCEPT ![t] = Off]
  /\ UNCHANGED <<recent, breaker, remote, guard>>

Begin(t) ==
  /\ thread[t].pc = "start" /\ (thread[t].force \/ backoff = 0)
  /\ thread' = [thread EXCEPT ![t].pc = "attempt", ![t].attempt = 1]
  /\ phase' = "starting"
  /\ UNCHANGED <<flags, role, recent, breaker, remote, guard>>

\* execute_master_sync: preflight and negotiation, then freeze() and freeze-ack.
PeerRefuses(t) ==
  /\ thread[t].pc = "attempt"
  /\ Enter(t, "failed") /\ phase' = "syncing"
  /\ UNCHANGED <<flags, role, recent, breaker, remote, guard>>

FreezeHere(t) ==
  /\ thread[t].pc = "attempt"
  /\ freeze /\ phase' = "syncing"
  /\ Enter(t, "freezing")
  /\ UNCHANGED <<role, recent, breaker, remote, guard>>

FreezeAcknowledged(t) ==
  /\ thread[t].pc = "freezing"
  /\ Enter(t, "frozen") /\ phase' = "syncing"
  /\ UNCHANGED <<flags, role, recent, breaker, remote, guard>>

\* The slave does not acknowledge: "rollback master freeze" is a full unfreeze().
FreezeAckFails(t) ==
  /\ thread[t].pc = "freezing"
  /\ unfreeze
  /\ Enter(t, "failed")
  /\ UNCHANGED <<phase, role, recent, breaker, remote, guard>>

\* Steps 7 to 12 set the phase anew, also after a remote master has reset it.
Progress(t) ==
  /\ thread[t].pc = "frozen" /\ phase # "syncing"
  /\ phase' = "syncing"
  /\ UNCHANGED <<flags, role, recent, breaker, thread, remote, guard>>

\* Pull, merge, verify, upload or db-ready fails.
SyncFails(t) ==
  /\ thread[t].pc = "frozen"
  /\ Enter(t, "failed")
  /\ UNCHANGED <<flags, phase, role, recent, breaker, remote, guard>>

SyncSucceeds(t) ==
  /\ thread[t].pc = "frozen"
  /\ unfreeze /\ phase' = "completed"
  /\ thread' = [thread EXCEPT ![t].pc = "ended", ![t].ok = TRUE]
  /\ UNCHANGED <<role, recent, breaker, remote, guard>>

\* The error arm: the database is unfrozen, the lock is meant to be kept through
\* the wait for the next attempt.
AttemptFailed(t) ==
  /\ thread[t].pc = "failed"
  /\ db_frozen' = FALSE /\ phase' = "idle"
  /\ Enter(t, IF thread[t].attempt < MAX_RETRIES THEN "backoff" ELSE "ended")
  /\ UNCHANGED <<sync_in_progress, frozen_at, role, recent, breaker, remote, guard>>

Retry(t) ==
  /\ thread[t].pc = "backoff"
  /\ thread' = [thread EXCEPT ![t].pc = "attempt", ![t].attempt = @ + 1]
  /\ phase' = "syncing"
  /\ UNCHANGED <<flags, role, recent, breaker, remote, guard>>

\* Mutant of BackoffSecs: not capped.
BackoffUncapped(n) == SYNC_BACKOFF_BASE_SECS * 2^(n - SYNC_CIRCUIT_BREAKER_THRESHOLD)

\* 60 s from the threshold on, doubled with every further failure, at most an hour.
BackoffSecs(n) ==
  LET over == n - SYNC_CIRCUIT_BREAKER_THRESHOLD
      secs == SYNC_BACKOFF_BASE_SECS * 2^(IF over <= 20 THEN over ELSE 20)
  IN IF secs <= SYNC_BACKOFF_MAX_SECS THEN secs ELSE SYNC_BACKOFF_MAX_SECS

\* Mutant of note_sync_outcome: the window opens one failure late.
note_one_late(success) ==
  IF success THEN failures' = 0 /\ backoff' = 0 /\ waited' = FALSE
  ELSE /\ failures' = failures + 1
       /\ waited' = FALSE
       /\ backoff' = IF failures' > SYNC_CIRCUIT_BREAKER_THRESHOLD
                     THEN BackoffSecs(failures') ELSE backoff

note_sync_outcome(success) ==
  IF success THEN failures' = 0 /\ backoff' = 0 /\ waited' = FALSE
  ELSE /\ failures' = failures + 1
       /\ waited' = FALSE
       /\ backoff' = IF failures' >= SYNC_CIRCUIT_BREAKER_THRESHOLD
                     THEN BackoffSecs(failures') ELSE backoff

\* Mutant of End: the closing unfreeze() only after a success.
EndUnfreezesOnSuccess(t) ==
  /\ thread[t].pc = "ended"
  /\ note_sync_outcome(thread[t].ok)
  /\ IF thread[t].ok THEN unfreeze ELSE UNCHANGED flags
  /\ recent' = (recent \/ thread[t].ok)
  /\ Enter(t, "closing")
  /\ UNCHANGED <<phase, role, remote, guard>>

\* "Guarantee cleanup": breaker, unfreeze(), cooldown.
End(t) ==
  /\ thread[t].pc = "ended"
  /\ note_sync_outcome(thread[t].ok)
  /\ unfreeze
  /\ recent' = (recent \/ thread[t].ok)
  /\ Enter(t, "closing")
  /\ UNCHANGED <<phase, role, remote, guard>>

\* Three seconds later.
Close(t) ==
  /\ thread[t].pc = "closing"
  /\ phase' = "idle" /\ role' = "undecided"
  /\ thread' = [thread EXCEPT ![t] = Off]
  /\ UNCHANGED <<flags, recent, breaker, remote, guard>>

-----------------------------------------------------------------------------
(* The handlers that serve a remote master. *)

\* A remote that finds us busy gives up, but its error arm still sends /lan/unfreeze.
handle_preflight(r) ==
  /\ remote[r] \in {"none", "dead"}
  /\ remote' = [remote EXCEPT ![r] =
                  IF sync_in_progress \/ db_frozen THEN "refused" ELSE "preflight"]
  /\ UNCHANGED <<flags, phase, role, recent, breaker, thread, guard>>

\* Refused only to a remote with the higher device id while we sync as master.
handle_negotiate(r) ==
  /\ remote[r] = "preflight"
  /\ \E lower \in BOOLEAN :
       IF sync_in_progress /\ role = "master" /\ ~lower
       THEN remote' = [remote EXCEPT ![r] = "refused"] /\ UNCHANGED <<phase, role>>
       ELSE /\ remote' = [remote EXCEPT ![r] = "negotiated"]
            /\ role' = "slave" /\ phase' = "syncing"
  /\ UNCHANGED <<flags, recent, breaker, thread, guard>>

handle_freeze_ack(r) ==
  /\ remote[r] = "negotiated"
  /\ freeze /\ phase' = "syncing"
  /\ remote' = [remote EXCEPT ![r] = "frozen"]
  /\ UNCHANGED <<role, recent, breaker, thread, guard>>

\* Sent when the remote's sync is complete, and by its error arm at any point.
handle_unfreeze(r) ==
  /\ remote[r] \notin {"none", "dead"}
  /\ unfreeze /\ role' = "undecided" /\ recent' = TRUE /\ phase' = "completed"
  /\ remote' = [remote EXCEPT ![r] = "none"]
  /\ UNCHANGED <<breaker, thread, guard>>

\* The remote disappears in the middle of its sync; it may be back with a preflight.
RemoteDies(r) ==
  /\ remote[r] \notin {"none", "dead"}
  /\ remote' = [remote EXCEPT ![r] = "dead"]
  /\ UNCHANGED <<flags, phase, role, recent, breaker, thread, guard>>

\* Mutant of check_auto_unfreeze: not in the middle of a phase.
auto_unfreeze_when_idle ==
  /\ db_frozen /\ frozen_at /\ phase \in {"idle", "completed"}
  /\ \A t \in Thread : thread[t].pc \notin {"freezing", "frozen"}
  /\ \A r \in Remote : remote[r] # "frozen"
  /\ unfreeze /\ phase' = "idle" /\ role' = "undecided"
  /\ UNCHANGED <<recent, breaker, thread, remote, guard>>

\* check_auto_unfreeze: the timeout is longer than any sync that is still alive.
check_auto_unfreeze ==
  /\ db_frozen /\ frozen_at
  /\ \A t \in Thread : thread[t].pc \notin {"freezing", "frozen"}
  /\ \A r \in Remote : remote[r] # "frozen"
  /\ db_frozen' = FALSE /\ frozen_at' = FALSE
  /\ IF phase \in {"idle", "completed"}
     THEN sync_in_progress' = FALSE /\ phase' = "idle" /\ role' = "undecided"
     ELSE UNCHANGED <<sync_in_progress, phase, role>>
  /\ UNCHANGED <<recent, breaker, thread, remote, guard>>

\* The dashboard polls /lan/sync-progress: "completed" turns idle after 5 s.
handle_sync_progress ==
  /\ phase = "completed" /\ phase' = "idle"
  /\ UNCHANGED <<flags, role, recent, breaker, thread, remote, guard>>

CooldownElapses == recent /\ recent' = FALSE
                   /\ UNCHANGED <<flags, phase, role, breaker, thread, remote, guard>>

WindowElapses == backoff > 0 /\ backoff' = 0 /\ waited' = TRUE
                 /\ UNCHANGED <<flags, phase, role, recent, failures, thread, remote, guard>>

-----------------------------------------------------------------------------
Trigger(t) == \/ \E force \in Forces : DashboardTrigger(t, force) \/ TrayTrigger(t, force)
              \/ DiscoveryTrigger(t)

Run(t) == \/ FindPeer(t) \/ NoPeer(t) \/ Skip(t) \/ Begin(t) \/ PeerRefuses(t) \/ FreezeHere(t)
          \/ FreezeAcknowledged(t) \/ FreezeAckFails(t)
          \/ SyncFails(t) \/ SyncSucceeds(t) \/ AttemptFailed(t) \/ Retry(t)
          \/ End(t) \/ Close(t)

Serve(r) == \/ handle_preflight(r) \/ handle_negotiate(r) \/ handle_freeze_ack(r)
            \/ handle_unfreeze(r)

Next == \/ \E t \in Thread : Trigger(t) \/ Run(t) \/ Progress(t) \/ DropGuard(t)
        \/ \E r \in Remote : Serve(r) \/ RemoteDies(r)
        \/ \E force \in Forces : TriggerUnpaired(force)
        \/ Elect \/ check_auto_unfreeze \/ handle_sync_progress
        \/ CooldownElapses \/ WindowElapses

Spec == Init /\ [][Next]_vars

\* A thread runs on; a remote master that is alive ends its sync with /lan/unfreeze;
\* run_server polls check_auto_unfreeze every 5 s.
FairSpec == /\ Spec
            /\ \A t \in Thread : WF_vars(Run(t))
            /\ \A r \in Remote : WF_vars(handle_freeze_ack(r)) /\ WF_vars(handle_unfreeze(r))
            /\ WF_vars(check_auto_unfreeze)

-----------------------------------------------------------------------------
(***************************************************************************)
(* Properties.                                                             *)
(***************************************************************************)

\* After SYNC_CIRCUIT_BREAKER_THRESHOLD failures in a row no cycle begins, except a
\* forced one, before a full backoff window has elapsed since the last failure,
\* whoever triggered it and however triggers, failing threads and windows interleave.
BreakerHolds ==
  [][\A t \in Thread :
       /\ thread[t].attempt = 0 /\ thread'[t].attempt = 1
       /\ failures >= SYNC_CIRCUIT_BREAKER_THRESHOLD
       => thread[t].force \/ waited]_vars

Syncing(t) == thread[t].pc \notin {"off", "finding", "start", "closing"}

\* The in-progress lock is given back after every sync, whatever fails and even when
\* the lock changes hands; only a remote master that died in the middle of its sync
\* may leave it behind.
LockReleased ==
  sync_in_progress ~> \/ ~sync_in_progress
                      \/ /\ \E r \in Remote : remote[r] = "dead"
                         /\ \A t \in Thread : thread[t].pc \in {"off", "closing"}

\* The tracker's saves wait for the freeze to end: it always does, at the latest
\* by the auto-unfreeze of a slave whose master is gone.
FreezeEnds == db_frozen ~> ~db_frozen

\* "keep sync_in_progress = true to prevent another thread from starting a
\* concurrent sync during backoff": while a thread waits for its next attempt no
\* other one syncs.
NoSyncDuringBackoff ==
  \A t, u \in Thread : thread[t].pc = "backoff" /\ Syncing(u) => t = u

\* "Don't start if already syncing": no sync is started from the tray while one runs.
TraySyncIsTheOnlyOne ==
  [][\A t \in Thread : (thread[t].pc = "off" /\ thread'[t].pc = "finding")
                        => \A u \in Thread : ~Syncing(u)]_vars
=============================================================================
