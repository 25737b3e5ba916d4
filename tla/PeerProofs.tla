----------------------------- MODULE PeerProofs -----------------------------
(***************************************************************************)
(* The state that a machine's sync threads share (SyncState), for any      *)
(* number of master threads and remote masters and any values of the       *)
(* breaker's parameters; and the online sync of two machines (OnlineSync), *)
(* for any bounds: OnSpec => []SessionMeansSame and []NothingForgotten.    *)
(***************************************************************************)
EXTENDS SyncState, OnlineSync, WellFoundedInduction, TLAPS

-----------------------------------------------------------------------------
(* SyncState. *)


\* The window is positive and never longer than SYNC_BACKOFF_MAX_SECS.
LEMMA BackoffBounded ==
  ASSUME NEW n \in Nat, n >= SYNC_CIRCUIT_BREAKER_THRESHOLD
  PROVE  BackoffSecs(n) \in 1..SYNC_BACKOFF_MAX_SECS
<1> DEFINE over == n - SYNC_CIRCUIT_BREAKER_THRESHOLD
           e    == IF over <= 20 THEN over ELSE 20
           secs == SYNC_BACKOFF_BASE_SECS * 2^e
<1>1. e \in 0..20
  BY ParameterAssumption
<1>2. 2^e \in Nat \ {0}
  BY <1>1, PowerAssumption
<1>3. secs \in Nat \ {0}
  <2>1. \A b, q \in Nat \ {0} : b * q \in Nat \ {0}
    OBVIOUS
  <2> QED BY <1>2, <2>1, ParameterAssumption
<1>4. BackoffSecs(n) = IF secs <= SYNC_BACKOFF_MAX_SECS THEN secs ELSE SYNC_BACKOFF_MAX_SECS
  BY DEF BackoffSecs
<1> HIDE DEF secs
<1> QED BY <1>3, <1>4, ParameterAssumption

\* note_sync_outcome keeps the counters in their ranges, whatever the outcome.
LEMMA OutcomeTyped ==
  ASSUME NEW success \in BOOLEAN, note_sync_outcome(success),
         failures \in Nat, backoff \in 0..SYNC_BACKOFF_MAX_SECS
  PROVE  /\ failures' \in Nat /\ waited' = FALSE
         /\ backoff' \in 0..SYNC_BACKOFF_MAX_SECS
         /\ failures' >= SYNC_CIRCUIT_BREAKER_THRESHOLD => backoff' > 0
<1>1. CASE success
  BY <1>1, ParameterAssumption DEF note_sync_outcome
<1>2. CASE ~success
  <2>1. failures' = failures + 1 /\ waited' = FALSE
    BY <1>2 DEF note_sync_outcome
  <2>2. CASE failures' >= SYNC_CIRCUIT_BREAKER_THRESHOLD
    <3>1. backoff' = BackoffSecs(failures')
      BY <1>2, <2>2 DEF note_sync_outcome
    <3>2. BackoffSecs(failures') \in 1..SYNC_BACKOFF_MAX_SECS
      BY <2>1, <2>2, BackoffBounded
    <3> QED BY <2>1, <3>1, <3>2, ParameterAssumption
  <2>3. CASE ~(failures' >= SYNC_CIRCUIT_BREAKER_THRESHOLD)
    BY <1>2, <2>1, <2>3 DEF note_sync_outcome
  <2> QED BY <2>2, <2>3
<1> QED BY <1>1, <1>2

\* A retry is never taken after the last attempt, and only after a first one.
RetryBound ==
  \A t \in Thread : /\ thread[t].pc = "backoff" => thread[t].attempt < MAX_RETRIES
                    /\ thread[t].pc \notin {"off", "finding", "start"} => thread[t].attempt > 0

\* At or past the threshold a window is open until one has elapsed.
WindowOpen == failures >= SYNC_CIRCUIT_BREAKER_THRESHOLD => backoff > 0 \/ waited

IInv == TypeOK /\ RetryBound /\ WindowOpen

\* A thread that does not run is a thread.
LEMMA OffTyped == Off \in ThreadState /\ Off.attempt = 0 /\ Off.pc = "off"
BY DEF Off, ThreadState

\* The daemon starts in the invariant.
LEMMA InitIInv == Init => IInv
<1> SUFFICES ASSUME Init PROVE IInv
  OBVIOUS
<1>1. /\ thread \in [Thread -> ThreadState]
      /\ \A t \in Thread : thread[t].attempt <= MAX_RETRIES
      /\ RetryBound
  BY OffTyped, ParameterAssumption DEF Init, RetryBound
<1>2. remote \in [Remote -> {"none", "preflight", "refused", "negotiated", "frozen", "dead"}]
  BY DEF Init
<1>3. WindowOpen
  <2>1. ~(failures >= SYNC_CIRCUIT_BREAKER_THRESHOLD)
    BY ParameterAssumption DEF Init
  <2> QED BY <2>1 DEF WindowOpen
<1>4. failures \in Nat /\ backoff \in 0..SYNC_BACKOFF_MAX_SECS
  BY ParameterAssumption DEF Init
<1> QED BY <1>1, <1>2, <1>3, <1>4 DEF Init, IInv, TypeOK

\* Steps that move one thread to another program counter keep its record typed.
LEMMA EnterTyped ==
  ASSUME NEW t \in Thread, NEW pc, TypeOK, RetryBound, Enter(t, pc),
         pc \in {"off", "start", "attempt", "freezing", "frozen", "failed", "backoff",
                 "ended", "closing"},
         thread[t].pc \notin {"off", "finding", "start"},
         pc = "backoff" => thread[t].attempt < MAX_RETRIES
  PROVE  /\ thread' \in [Thread -> ThreadState]
         /\ \A u \in Thread : thread'[u].attempt <= MAX_RETRIES
         /\ RetryBound'
BY DEF TypeOK, RetryBound, Enter, ThreadState

\* The steps of a master thread's run.
LEMMA RunIInv ==
  ASSUME NEW t \in Thread, IInv, Run(t)
  PROVE  IInv'
<1> USE ParameterAssumption
<1>1. CASE Skip(t)
  <2>1. /\ thread' \in [Thread -> ThreadState]
        /\ \A u \in Thread : thread'[u].attempt <= MAX_RETRIES
        /\ RetryBound'
    BY <1>1, OffTyped DEF Skip, IInv, TypeOK, RetryBound
  <2> QED BY <1>1, <2>1 DEF Skip, IInv, TypeOK, WindowOpen, unfreeze, breaker
<1>0. CASE FindPeer(t) \/ NoPeer(t)
  <2>1. /\ thread' \in [Thread -> ThreadState]
        /\ \A u \in Thread : thread'[u].attempt <= MAX_RETRIES
        /\ RetryBound'
    BY <1>0, OffTyped DEF FindPeer, NoPeer, Enter, IInv, TypeOK, RetryBound, ThreadState
  <2>2. /\ role' \in {role, "master"} /\ guard' \subseteq Thread
        /\ sync_in_progress' \in BOOLEAN
        /\ UNCHANGED <<db_frozen, frozen_at, phase, recent, failures, backoff, waited, remote>>
    BY <1>0 DEF FindPeer, NoPeer, IInv, TypeOK, flags, breaker
  <2> QED BY <2>1, <2>2 DEF IInv, TypeOK, WindowOpen
<1>2. CASE Begin(t)
  <2> DEFINE begun == [thread[t] EXCEPT !.pc = "attempt", !.attempt = 1]
  <2>1. begun \in ThreadState /\ begun.attempt = 1 /\ begun.pc = "attempt"
    BY DEF IInv, TypeOK, ThreadState
  <2>2. thread' = [thread EXCEPT ![t] = begun]
    BY <1>2 DEF Begin, IInv, TypeOK
  <2> HIDE DEF begun
  <2>3. /\ thread' \in [Thread -> ThreadState]
        /\ \A u \in Thread : thread'[u].attempt <= MAX_RETRIES
        /\ RetryBound'
    BY <2>1, <2>2 DEF IInv, TypeOK, RetryBound
  <2> QED BY <1>2, <2>3 DEF Begin, IInv, TypeOK, WindowOpen, flags, breaker
<1>3. CASE PeerRefuses(t)
  BY <1>3, EnterTyped DEF PeerRefuses, IInv, TypeOK, WindowOpen, flags, breaker
<1>4. CASE FreezeHere(t)
  BY <1>4, EnterTyped DEF FreezeHere, freeze, IInv, TypeOK, WindowOpen, breaker
<1>5. CASE FreezeAcknowledged(t)
  BY <1>5, EnterTyped DEF FreezeAcknowledged, IInv, TypeOK, WindowOpen, flags, breaker
<1>6. CASE FreezeAckFails(t)
  BY <1>6, EnterTyped DEF FreezeAckFails, unfreeze, IInv, TypeOK, WindowOpen, breaker
<1>7. CASE SyncFails(t)
  BY <1>7, EnterTyped DEF SyncFails, IInv, TypeOK, WindowOpen, flags, breaker
<1>8. CASE SyncSucceeds(t)
  <2>1. /\ thread' \in [Thread -> ThreadState]
        /\ \A u \in Thread : thread'[u].attempt <= MAX_RETRIES
        /\ RetryBound'
    <3> DEFINE done == [thread[t] EXCEPT !.pc = "ended", !.ok = TRUE]
    <3>1. /\ done \in ThreadState /\ done.pc = "ended" /\ done.attempt = thread[t].attempt
      BY DEF IInv, TypeOK, ThreadState
    <3>2. thread' = [thread EXCEPT ![t] = done]
      BY <1>8 DEF SyncSucceeds, IInv, TypeOK
    <3>3. thread[t].attempt > 0
      BY <1>8 DEF SyncSucceeds, IInv, RetryBound
    <3> HIDE DEF done
    <3> QED BY <3>1, <3>2, <3>3 DEF IInv, TypeOK, RetryBound
  <2> QED BY <1>8, <2>1 DEF SyncSucceeds, IInv, TypeOK, WindowOpen, unfreeze, breaker
<1>9. CASE AttemptFailed(t)
  <2>1. /\ thread' \in [Thread -> ThreadState]
        /\ \A u \in Thread : thread'[u].attempt <= MAX_RETRIES
        /\ RetryBound'
    BY <1>9, EnterTyped DEF AttemptFailed, IInv
  <2> QED BY <1>9, <2>1 DEF AttemptFailed, IInv, TypeOK, WindowOpen, breaker
<1>10. CASE Retry(t)
  BY <1>10 DEF Retry, IInv, TypeOK, RetryBound, WindowOpen, flags, breaker, ThreadState
<1>11. CASE End(t)
  <2>1. thread[t].ok \in BOOLEAN
    BY DEF IInv, TypeOK, ThreadState
  <2>2. /\ failures' \in Nat /\ waited' = FALSE
        /\ backoff' \in 0..SYNC_BACKOFF_MAX_SECS
        /\ failures' >= SYNC_CIRCUIT_BREAKER_THRESHOLD => backoff' > 0
    BY <1>11, <2>1, OutcomeTyped DEF End, IInv, TypeOK
  <2>3. /\ thread' \in [Thread -> ThreadState]
        /\ \A u \in Thread : thread'[u].attempt <= MAX_RETRIES
        /\ RetryBound'
    BY <1>11, EnterTyped DEF End, IInv
  <2>4. recent' \in BOOLEAN
    BY <1>11, <2>1 DEF End, IInv, TypeOK
  <2> QED BY <1>11, <2>2, <2>3, <2>4 DEF End, IInv, TypeOK, WindowOpen, unfreeze
<1>12. CASE Close(t)
  BY <1>12 DEF Close, IInv, TypeOK, RetryBound, WindowOpen, flags, breaker, ThreadState, Off
<1> QED BY <1>0, <1>1, <1>2, <1>3, <1>4, <1>5, <1>6, <1>7, <1>8, <1>9, <1>10, <1>11, <1>12 DEF Run

\* The triggers, the handlers and the polls.
LEMMA OtherIInv ==
  ASSUME IInv, [Next]_vars, \A t \in Thread : ~Run(t)
  PROVE  IInv'
<1> USE DEF IInv, TypeOK, RetryBound, WindowOpen
<1>1. CASE \E t \in Thread : Trigger(t)
  <2>1. PICK t \in Thread : Trigger(t)
    BY <1>1
  <2>2. PICK force \in BOOLEAN, pc \in {"finding", "start"} : Spawn(t, pc, force)
    BY <2>1, ParameterAssumption DEF Trigger, DashboardTrigger, TrayTrigger, DiscoveryTrigger
  <2>3. /\ sync_in_progress' = TRUE
        /\ thread' \in [Thread -> ThreadState]
        /\ \A u \in Thread : thread'[u].attempt <= MAX_RETRIES
        /\ RetryBound'
    BY <2>2, ParameterAssumption DEF Spawn, ThreadState
  <2>4. /\ role' \in {role, "master"}
        /\ UNCHANGED <<db_frozen, frozen_at, phase, recent, failures, backoff, waited, guard, remote>>
    BY <2>1 DEF Trigger, DashboardTrigger, TrayTrigger, DiscoveryTrigger, breaker
  <2> QED BY <2>3, <2>4
<1>2. CASE \E r \in Remote : Serve(r) \/ RemoteDies(r)
  <2>1. PICK r \in Remote : Serve(r) \/ RemoteDies(r)
    BY <1>2
  <2>2. CASE handle_preflight(r)
    BY <2>2 DEF handle_preflight, flags, breaker
  <2>3. CASE handle_negotiate(r)
    BY <2>3 DEF handle_negotiate, flags, breaker
  <2>4. CASE handle_freeze_ack(r)
    BY <2>4 DEF handle_freeze_ack, freeze, breaker
  <2>5. CASE handle_unfreeze(r)
    BY <2>5 DEF handle_unfreeze, unfreeze, breaker
  <2>6. CASE RemoteDies(r)
    BY <2>6 DEF RemoteDies, flags, breaker
  <2> QED BY <2>1, <2>2, <2>3, <2>4, <2>5, <2>6 DEF Serve
<1>3. CASE Elect
  BY <1>3 DEF Elect, flags, breaker
<1>4. CASE check_auto_unfreeze
  BY <1>4 DEF check_auto_unfreeze, breaker
<1>5. CASE handle_sync_progress
  BY <1>5 DEF handle_sync_progress, flags, breaker
<1>6. CASE CooldownElapses
  BY <1>6 DEF CooldownElapses, flags, breaker
<1>7. CASE WindowElapses
  BY <1>7, ParameterAssumption DEF WindowElapses, flags
<1>8. CASE \E force \in Forces : TriggerUnpaired(force)
  <2>1. /\ sync_in_progress' = FALSE
        /\ UNCHANGED <<db_frozen, frozen_at, phase, role, recent, failures, backoff, waited,
                       thread, guard, remote>>
    BY <1>8, Zenon DEF TriggerUnpaired, breaker
  <2> QED BY <2>1
<1>9. CASE \E t \in Thread : Progress(t)
  <2>1. /\ phase' = "syncing"
        /\ UNCHANGED <<sync_in_progress, db_frozen, frozen_at, role, recent, failures, backoff,
                       waited, thread, guard, remote>>
    BY <1>9, Zenon DEF Progress, flags, breaker
  <2> QED BY <2>1
<1>10. CASE \E t \in Thread : DropGuard(t)
  <2>1. /\ sync_in_progress' = FALSE /\ guard' \subseteq Thread
        /\ UNCHANGED <<db_frozen, frozen_at, phase, role, recent, failures, backoff, waited,
                       thread, remote>>
    BY <1>10 DEF DropGuard, breaker
  <2> QED BY <2>1
<1>11. CASE UNCHANGED vars
  BY <1>11 DEF vars
<1> QED BY <1>1, <1>2, <1>3, <1>4, <1>5, <1>6, <1>7, <1>8, <1>9, <1>10, <1>11 DEF Next

\* Every step keeps the invariant.
LEMMA NextIInv == IInv /\ [Next]_vars => IInv'
BY RunIInv, OtherIInv

\* The invariant always holds.
LEMMA SpecIInv == Spec => []IInv
BY InitIInv, NextIInv, PTL DEF Spec

\* The shared state keeps its types; the window never exceeds its maximum and no
\* thread makes more than MAX_RETRIES attempts.
THEOREM TypeCorrect == Spec => []TypeOK
<1>1. IInv => TypeOK
  BY DEF IInv
<1> QED BY <1>1, SpecIInv, PTL

\* A cycle begins only in Begin, and Begin looks at the window.
LEMMA BeginsOnlyOutsideWindow ==
  ASSUME IInv, [Next]_vars, NEW t \in Thread,
         thread[t].attempt = 0, thread'[t].attempt = 1,
         failures >= SYNC_CIRCUIT_BREAKER_THRESHOLD
  PROVE  thread[t].force \/ waited
<1> USE DEF IInv, TypeOK
<1>1. thread' # thread
  OBVIOUS
<1>2. PICK u \in Thread : Trigger(u) \/ Run(u)
  BY <1>1 DEF Next, vars, Serve, handle_preflight, handle_negotiate, handle_freeze_ack,
     handle_unfreeze, RemoteDies, Elect, check_auto_unfreeze, handle_sync_progress,
     CooldownElapses, WindowElapses, TriggerUnpaired, Progress, DropGuard
<1>3. ~Trigger(u)
  BY <1>2 DEF Trigger, DashboardTrigger, TrayTrigger, DiscoveryTrigger, Spawn, ThreadState
<1>4. CASE Begin(u)
  <2>1. u = t
    BY <1>4 DEF Begin, ThreadState
  <2> QED BY <1>4, <2>1 DEF Begin, WindowOpen
<1>5. CASE Retry(u)
  <2>1. u = t
    BY <1>5 DEF Retry, ThreadState
  <2>2. thread[t].pc = "backoff" /\ thread[t].attempt = 0
    BY <1>5, <2>1 DEF Retry
  <2> QED BY <2>2 DEF RetryBound
<1>6. CASE Run(u) /\ ~Begin(u) /\ ~Retry(u)
  <2>1. CASE Skip(u) \/ Close(u) \/ NoPeer(u)
    BY <2>1, OffTyped DEF Skip, Close, NoPeer
  <2>2. CASE SyncSucceeds(u)
    BY <2>2 DEF SyncSucceeds, ThreadState
  <2>3. CASE \E pc : Enter(u, pc)
    BY <2>3 DEF Enter, ThreadState
  <2> QED BY <1>6, <2>1, <2>2, <2>3 DEF Run, FindPeer, PeerRefuses, FreezeHere, FreezeAcknowledged,
          FreezeAckFails, SyncFails, AttemptFailed, End
<1> QED BY <1>2, <1>3, <1>4, <1>5, <1>6

\* The circuit breaker holds whatever its parameters and however many threads and
\* triggers there are.
THEOREM BreakerTheorem == Spec => BreakerHolds
<1>1. IInv /\ [Next]_vars =>
        [\A t \in Thread :
           /\ thread[t].attempt = 0 /\ thread'[t].attempt = 1
           /\ failures >= SYNC_CIRCUIT_BREAKER_THRESHOLD
           => thread[t].force \/ waited]_vars
  BY BeginsOnlyOutsideWindow
<1> QED BY <1>1, SpecIInv, PTL DEF Spec, BreakerHolds

-----------------------------------------------------------------------------
(* OnlineSync: the inductive invariant OnInv.  A lemma XStep says what the     *)
(* action X does to the fields; the lemmas that end in Kept say that every     *)
(* step keeps a part of the invariant.                                         *)

\* In the session that the server has, and its part in it.
In(m) == pv[m].pc \in SessionPcs /\ pv[m].sess = Session.id
Master(m) == Session.id > 0 /\ m = Session.master
Slave(m) == Session.id > 0 /\ m # Session.master

\* What m keeps whatever fails: while it may put its backup back, the backup.
Sure(m) == IF pv[m].pc \in {"m9", "m10", "pulling", "ack"} THEN pv[m].bk ELSE pv[m].has

\* Sessions: who is where, and which step the server has been told.
Numbers(m) ==
  /\ pv[m].sess <= Session.id
  /\ pv[m].pc \in SessionPcs <=> pv[m].sess > 0
  /\ past.done[m] <= Session.id
  /\ pv[m].sess > 0 => past.done[m] < pv[m].sess
  /\ past.done[m] = Session.id /\ Session.id > 0 => Session.step >= 12

MasterAt(m) ==
  Master(m) /\ In(m) =>
    /\ pv[m].pc \in {"wait_peer", "freeze", "m6", "m9", "m10", "m11", "m12"}
    /\ pv[m].pc \in {"wait_peer", "freeze", "m6"} => Session.step <= 6
    /\ pv[m].pc \in {"m9", "m10", "m11"} => Session.step = 6
    /\ pv[m].pc = "m12" => Session.step >= 11

SlaveAt(m) ==
  Slave(m) /\ In(m) =>
    /\ pv[m].pc \in {"freeze", "s6", "s11", "s13"} /\ Session.st # "awaiting" /\ Session.step < 12
    /\ pv[m].pc \in {"freeze", "s6"} => Session.step = 0
    /\ pv[m].pc = "s11" => Session.step >= 6
    /\ pv[m].pc = "s13" => Session.step >= 11

Roles ==
  /\ Session.id = past.made
  /\ Session.id > 0 => Session.master \in Peers
  /\ Session.st = "awaiting" => Session.step = 0
  /\ Session.st = "none" <=> Session.id = 0
  /\ Session.id = 0 => Session.step = 0
  /\ \A m \in Peers : Numbers(m) /\ MasterAt(m) /\ SlaveAt(m)

\* Sessions: where the edits are that take part.
SlaveCarries(m) ==
  Slave(m) =>
    /\ Session.up \subseteq Sure(m)
    /\ In(m) /\ pv[m].pc = "s11" => pv[m].got = Session.up
    /\ In(m) /\ pv[m].pc = "s13" => Session.down \subseteq pv[m].has
    /\ Session.step >= 12 => Session.down \subseteq Sure(m)

MasterCarries(m) ==
  Master(m) =>
    /\ In(m) /\ pv[m].pc \in {"wait_peer", "freeze", "m6", "m9"} => past.all \subseteq Session.up
    /\ In(m) /\ pv[m].pc = "m9" => pv[m].got = Session.up
    /\ In(m) /\ pv[m].pc \in {"m10", "m11"}
         => past.all \subseteq pv[m].has /\ Session.up \subseteq pv[m].has
    /\ Session.step >= 11 => Session.down \subseteq Sure(m)
    /\ pv[m].pc \in {"m11", "m12"} => pv[m].mark # NoMark
    /\ In(m) /\ pv[m].pc = "m12" => \A x \in pv[m].has \ Session.down : x >= pv[m].mark

Carried ==
  /\ Session.step < 6 => Session.up = {} /\ past.all = {}
  /\ Session.step >= 11 => past.all \subseteq Session.down /\ Session.up \subseteq Session.down
  /\ \A m \in Peers : SlaveCarries(m) /\ MasterCarries(m)

\* The markers of the machines differ, but those of an earlier LAN sync.
Holds(m, k) ==
  \/ k = pv[m].mark \/ k = pv[m].bkMark
  \/ k = pv[m].next /\ pv[m].pc \in {"upload", "mark"}
  \/ \E p \in cloud.pkgs : p.from = m /\ p.base = k

Dated(m) ==
  /\ \A x \in pv[m].has \cup pv[m].bk : x <= utc
  /\ \A k \in Marks : Holds(m, k) => k = NoMark \/ k <= utc

\* The backup that may be put back and the marker with it, and the marker to come.
Backed(m) ==
  /\ pv[m].pc \in {"m9", "m10", "pulling", "ack"} => pv[m].bk \subseteq pv[m].has
  /\ pv[m].pc \in {"m9", "m10"} => pv[m].mark = pv[m].bkMark
  /\ pv[m].pc = "pulling" => pv[m].mark = pv[m].bkMark \/ pv[m].bk \subseteq past.late[m]
  /\ pv[m].pc = "ack" => /\ pv[m].bk \subseteq past.late[m] /\ pv[m].mark \notin {0, NoMark}
                         /\ Oldest(m).up /\ Oldest(m).edits \subseteq pv[m].has
  /\ pv[m].pc \in {"upload", "mark"} => pv[m].next # NoMark

Told ==
  /\ \A m \in Peers : Dated(m) /\ Backed(m)
  /\ \A m, n \in Peers : \A k \in Marks : m # n /\ Holds(m, k) /\ Holds(n, k) => k \in {0, NoMark}

\* Packages: what is in them, and those that a machine has seen stay until it answers them.
PackagesHold ==
  \A p \in cloud.pkgs :
    /\ p.id <= utc
    /\ p.edits \subseteq Sure(p.from)
    /\ \A q \in cloud.pkgs :
         /\ p.id = q.id => p = q
         /\ p.from = q.from /\ p.id < q.id /\ q.base = NoMark => p.edits \subseteq q.edits

Awaited(m) ==
  /\ pv[m].pc \in {"pulling", "ack"} => pv[m].todo # {}
  /\ \A i \in pv[m].todo : \E p \in Pending(m) : p.id = i

Packed == PackagesHold /\ \A m \in Peers : Awaited(m)

\* The edit x of m, which the restore of the other machine would lose, is in every
\* package that may make it do so.
Doomed(o, x) ==
  /\ pv[o].pc = "pulling" /\ x \in pv[o].has /\ pv[o].mark \notin {0, NoMark}
  /\ \A p \in Pending(o) : p.base = NoMark => x \in p.edits

InPackage(x) == \E p \in cloud.pkgs : x \in p.edits /\ p.up

Safe(m, o, x) == x \in past.late[m] \/ InPackage(x) \/ Doomed(o, x)

\* The edit is newer than the marker of m, or else safe; and so it will be with the marker to come.
Tracked(m, o, x) == x \in Delta(m) \/ pv[m].pc \in {"m11", "m12"} \/ Safe(m, o, x)

Sent(m, o, x) ==
  pv[m].pc \in {"upload", "mark"} =>
    \/ x >= pv[m].next \/ Safe(m, o, x)
    \/ pv[m].pc = "upload" /\ \E p \in cloud.pkgs : x \in p.edits /\ p.id = pv[m].next

CoveredFrom(m, o) == \A x \in pv[m].has \ Sure(o) : Tracked(m, o, x) /\ Sent(m, o, x)

Covered == \A m, o \in Peers : m # o => CoveredFrom(m, o)

OnInv == OnTypeOK /\ Roles /\ Carried /\ Told /\ Packed /\ Covered

\* What a machine is after a step, and that the other one is as it was.
Step(m, pc, has, mark, bk, bkMark, got, sess, todo, next) ==
  /\ pv'[m].pc = pc /\ pv'[m].has = has /\ pv'[m].mark = mark /\ pv'[m].bk = bk
  /\ pv'[m].bkMark = bkMark /\ pv'[m].got = got /\ pv'[m].sess = sess /\ pv'[m].todo = todo
  /\ pv'[m].next = next
  /\ \A n \in Peers : n # m => pv'[n] = pv[n]

\* What the server and the history are after a step.
Server(id, st, step, master, up, down, pkgs) ==
  /\ Session'.id = id /\ Session'.st = st /\ Session'.step = step /\ Session'.master = master
  /\ Session'.up = up /\ Session'.down = down /\ cloud'.pkgs = pkgs

History(done, all, late, made) ==
  past'.done = done /\ past'.all = all /\ past'.late = late /\ past'.made = made

DoneWith(m) == [past.done EXCEPT ![m] = pv[m].sess]
LateWith(m, edits) == [past.late EXCEPT ![m] = @ \cup edits]

Unfrozen == \A m \in Peers : pv[m].frozen => pv[m].pc \in SessionPcs
CloudType == [sess: SessionType, pkgs: SUBSET Package]
PastType == [done: [Peers -> 0..MaxSessions], all: SUBSET Edits, late: [Peers -> SUBSET Edits],
             edits: Nat, faults: Nat, made: 0..MaxSessions, starts: Nat]

\* The two machines.
LEMMA TwoPeers ==
  ASSUME NEW m \in Peers
  PROVE  /\ Other(m) \in Peers /\ Other(m) # m /\ Other(Other(m)) = m
         /\ \A n \in Peers : n = m \/ n = Other(m)
<1>1. PICK a \in Peers, b \in Peers : a # b /\ Peers = {a, b}
  BY OnAssumption
<1>2. \A n \in Peers : Other(n) \in Peers /\ Other(n) # n
  BY <1>1 DEF Other
<1> QED BY <1>1, <1>2

\* The second after this one is a second of the model while the clock may go on.
LEMMA NextSecond ==
  ASSUME OnTypeOK, Ticks
  PROVE  /\ utc \in Nat /\ utc' = utc + 1 /\ utc' \in 0..MaxUtc
         /\ utc + 1 \in Edits /\ utc + 1 \in Marks
BY OnAssumption DEF OnTypeOK, Ticks, Edits, Marks

\* The types hold at the start.
LEMMA InitTyped == OnInit => OnTypeOK
BY OnAssumption DEF OnInit, OnTypeOK, Machine, SessionType, Package, Marks, Edits, SessionPcs,
   AsyncPcs,
   Places, Statuses

Numbered == {p \in Nat \X Nat : p[1] < p[2]}

\* Every set of numbers that is not empty has a least one.
LEMMA NumberedWellFounded == IsWellFoundedOn(Numbered, Nat)
<1>1. Numbered = OpToRel(<, Nat)
  BY DEF Numbered, OpToRel
<1> QED BY <1>1, NatLessThanWellFounded

\* The package a machine is at is one of those that wait for it, and the oldest.
LEMMA OldestPending ==
  ASSUME OnTypeOK, NEW m \in Peers, Pending(m) # {}
  PROVE  Oldest(m) \in Pending(m) /\ \A q \in Pending(m) : Oldest(m).id <= q.id
<1> DEFINE Ids == {p.id : p \in Pending(m)}
<1>1. Ids \subseteq Nat /\ Ids # {}
  BY OnAssumption DEF OnTypeOK, Pending, Package, Edits
<1>2. PICK i \in Ids : \A k \in Ids : <<k, i>> \notin Numbered
  BY <1>1, NumberedWellFounded, WFMin
<1>3. ASSUME NEW k \in Ids
      PROVE  i <= k
  <2>1. i \in Nat /\ k \in Nat /\ <<k, i>> \in Nat \X Nat /\ <<k, i>> \notin Numbered
    BY <1>1, <1>2, <1>3
  <2> QED BY <2>1 DEF Numbered
<1>4. PICK p \in Pending(m) : i = p.id
  BY <1>2
<1>5. \A q \in Pending(m) : p.id <= q.id
  BY <1>3, <1>4
<1> QED BY <1>4, <1>5 DEF Oldest

\* The places that the steps name are places.
LEMMA PlaceNames ==
  /\ \A c \in {"idle", "enter", "wait_peer", "freeze", "s6", "s11", "s13", "m6", "m9", "m10", "m11",
         "m12", "pull", "pulling", "ack", "push", "upload", "mark"} : c \in Places
  /\ 0 \in 0..MaxSessions /\ {} \in SUBSET Edits
BY OnAssumption DEF Places, SessionPcs, AsyncPcs

\* The session's states and steps that the steps name are such.
LEMMA StageNames ==
  /\ \A c \in {"none", "awaiting", "active", "failed", "done"} : c \in Statuses
  /\ \A i \in {0, 6, 11, 12, 13} : i \in 0..13
BY DEF Statuses

\* A step that gives one machine a record r.
LEMMA Moves ==
  ASSUME OnTypeOK, NEW m \in Peers, NEW r \in Machine, pv' = [pv EXCEPT ![m] = r],
         r.frozen => r.pc \in SessionPcs
  PROVE  /\ pv' \in [Peers -> Machine] /\ Unfrozen'
         /\ Step(m, r.pc, r.has, r.mark, r.bk, r.bkMark, r.got, r.sess, r.todo, r.next)
BY DEF OnTypeOK, Step, Unfrozen

\* A step that changes the server's session only.
LEMMA ServerMoves ==
  ASSUME OnTypeOK, NEW s \in SessionType, cloud' = [cloud EXCEPT !.sess = s]
  PROVE  /\ Server(s.id, s.st, s.step, s.master, s.up, s.down, cloud.pkgs)
         /\ cloud' \in CloudType
BY DEF OnTypeOK, Server, CloudType, Session

\* What is overtaken is edits.
LEMMA LateTyped ==
  ASSUME OnTypeOK, NEW m \in Peers, NEW x \in SUBSET Edits
  PROVE  LateWith(m, x) \in [Peers -> SUBSET Edits]
BY DEF OnTypeOK, LateWith

\* What is completed is sessions.
LEMMA DoneTyped ==
  ASSUME OnTypeOK, NEW m \in Peers
  PROVE  DoneWith(m) \in [Peers -> 0..MaxSessions]
BY DEF OnTypeOK, DoneWith, Machine

\* The counters go on.
LEMMA MoreTyped ==
  ASSUME OnTypeOK
  PROVE  past.edits + 1 \in Nat /\ past.faults + 1 \in Nat /\ past.starts + 1 \in Nat
BY DEF OnTypeOK

\* The machine stops, with what it has or with its backup.
Ends(m) == Step(m, "idle", pv[m].has, pv[m].mark, pv[m].bk, pv[m].bkMark, {}, 0, {}, pv[m].next)
Restores(m) == Step(m, "idle", pv[m].bk, pv[m].bkMark, pv[m].bk, pv[m].bkMark, {}, 0, {}, pv[m].next)

Cancelled(m) ==
  \/ UNCHANGED cloud
  \/ /\ pv[m].sess = Session.id /\ Session.st \in {"awaiting", "active"}
     /\ Server(Session.id, "failed", Session.step, Session.master, Session.up, Session.down,
               cloud.pkgs)

NewPackage(m) == [id |-> utc + 1, from |-> m, base |-> pv[m].mark, edits |-> Delta(m), up |-> FALSE]
Uploaded(p, next) == IF p.id = next THEN [p EXCEPT !.up = TRUE] ELSE p

\* A machine that has ended its sync.
LEMMA EndedFields ==
  ASSUME NEW r \in Machine
  PROVE  /\ Ended(r) \in Machine /\ Ended(r).pc = "idle" /\ ~Ended(r).frozen /\ Ended(r).sess = 0
         /\ Ended(r).todo = {} /\ Ended(r).got = {} /\ Ended(r).has = r.has
         /\ Ended(r).mark = r.mark
         /\ Ended(r).bk = r.bk /\ Ended(r).bkMark = r.bkMark /\ Ended(r).next = r.next
<1>1. ASSUME NEW c \in Places, NEW f \in BOOLEAN, NEW k \in 0..MaxSessions, NEW t \in SUBSET Edits,
             NEW g \in SUBSET Edits
      PROVE  [r EXCEPT !.pc = c, !.frozen = f, !.sess = k, !.todo = t, !.got = g] \in Machine
  BY DEF Machine
<1>2. Ended(r) \in Machine
  BY <1>1, PlaceNames DEF Ended
<1> QED BY <1>2 DEF Ended, Machine

\* A machine that has put its backup back.
LEMMA RestoredFields ==
  ASSUME NEW r \in Machine
  PROVE  /\ Restored(r) \in Machine /\ Restored(r).has = r.bk /\ Restored(r).mark = r.bkMark
         /\ Restored(r).pc = r.pc
         /\ Restored(r).bk = r.bk /\ Restored(r).bkMark = r.bkMark /\ Restored(r).next = r.next
BY DEF Machine, Restored

\* A best-effort cancel fails the session or does nothing.
LEMMA CancelTyped ==
  ASSUME OnTypeOK, NEW m \in Peers, CancelSession(m)
  PROVE  Cancelled(m) /\ cloud' \in CloudType
<1>1. CASE UNCHANGED cloud
  BY <1>1 DEF OnTypeOK, Cancelled, CloudType
<1>2. CASE /\ pv[m].sess = Session.id /\ Session.st \in {"awaiting", "active"}
           /\ cloud' = [cloud EXCEPT !.sess.st = "failed"]
  <2> DEFINE s == [Session EXCEPT !.st = "failed"]
  <2>1. cloud' = [cloud EXCEPT !.sess = s] /\ Session \in SessionType
    BY <1>2 DEF Session, OnTypeOK
  <2>2. s \in SessionType
    BY <2>1, StageNames DEF SessionType
  <2>3. Server(s.id, s.st, s.step, s.master, s.up, s.down, cloud.pkgs) /\ cloud' \in CloudType
    BY <2>1, <2>2, ServerMoves
  <2> QED BY <1>2, <2>1, <2>3 DEF SessionType, Cancelled
<1> QED BY <1>1, <1>2 DEF CancelSession

\* A step that changes the packages only.
LEMMA PackagesMove ==
  ASSUME OnTypeOK, NEW k \in SUBSET Package, cloud' = [cloud EXCEPT !.pkgs = k]
  PROVE  /\ Server(Session.id, Session.st, Session.step, Session.master, Session.up, Session.down, k)
         /\ cloud' \in CloudType
BY DEF OnTypeOK, Server, CloudType, Session

\* An upload changes nothing else of a package.
LEMMA UploadedFields ==
  ASSUME NEW p \in Package, NEW next
  PROVE  /\ Uploaded(p, next) \in Package
         /\ Uploaded(p, next).id = p.id /\ Uploaded(p, next).from = p.from
         /\ Uploaded(p, next).base = p.base /\ Uploaded(p, next).edits = p.edits
         /\ Uploaded(p, next).up <=> p.up \/ p.id = next
BY DEF Package, Uploaded

\* The package that a machine is at is there, and is the oldest of the other machine's.
LEMMA OldestThere ==
  ASSUME OnTypeOK, Packed, NEW m \in Peers, pv[m].pc \in {"pulling", "ack"}
  PROVE  /\ Oldest(m) \in Package /\ Oldest(m) \in cloud.pkgs /\ Oldest(m) \in Pending(m)
         /\ Oldest(m).from \in Peers /\ Oldest(m).from # m
         /\ \A q \in Pending(m) : Oldest(m).id <= q.id
<1>1. Pending(m) # {}
  BY DEF Packed, Awaited
<1>2. Oldest(m) \in Pending(m) /\ \A q \in Pending(m) : Oldest(m).id <= q.id
  BY <1>1, OldestPending
<1> QED BY <1>2 DEF Pending, OnTypeOK, Package

\* The numbers of the sessions, before a step and after it.
LEMMA Counts ==
  ASSUME OnTypeOK, NEW m \in Peers
  PROVE  /\ Session.id \in Nat /\ Session.step \in Nat /\ past.made \in Nat
         /\ pv[m].sess \in Nat /\ past.done[m] \in Nat
BY OnAssumption DEF OnTypeOK, Session, SessionType, Machine

\* The same after a step.
LEMMA CountsNext ==
  ASSUME OnTypeOK', NEW m \in Peers
  PROVE  /\ Session'.id \in Nat /\ Session'.step \in Nat /\ past'.made \in Nat
         /\ pv'[m].sess \in Nat /\ past'.done[m] \in Nat
BY OnAssumption DEF OnTypeOK, Session, SessionType, Machine

\* Completing a session is recorded for that machine.
LEMMA DoneField ==
  ASSUME OnTypeOK, NEW m \in Peers
  PROVE  /\ DoneWith(m)[m] = pv[m].sess
         /\ \A n \in Peers : n # m => DoneWith(m)[n] = past.done[n]
BY DEF OnTypeOK, DoneWith

\* A second is not the missing marker.
LEMMA SecondIsNoMark ==
  ASSUME OnTypeOK
  PROVE  utc + 1 # NoMark
BY OnAssumption DEF OnTypeOK

\* An edit of now is newer than every marker.
LEMMA EditIsNewer ==
  ASSUME OnTypeOK, Told, NEW m \in Peers
  PROVE  pv[m].mark = NoMark \/ utc + 1 >= pv[m].mark
<1>1. Holds(m, pv[m].mark)
  BY DEF Holds
<1>2. pv[m].mark \in Marks /\ utc \in Nat
  BY OnAssumption DEF OnTypeOK, Machine
<1> QED BY <1>1, <1>2, OnAssumption DEF Told, Dated, Marks

\* The clock and the ids of packages are numbers.
LEMMA Seconds ==
  ASSUME OnTypeOK
  PROVE  /\ utc \in Nat /\ cloud.pkgs \subseteq Package
         /\ \A p \in Package : p.id \in Nat /\ p.from \in Peers
BY OnAssumption DEF OnTypeOK, Package, Edits

\* An edit: the machine has it.
LEMMA EditRowStep ==
  ASSUME OnTypeOK, NEW m \in Peers, EditRow(m)
  PROVE  /\ OnTypeOK'
         /\ Step(m, pv[m].pc, pv[m].has \cup {utc + 1}, pv[m].mark, pv[m].bk, pv[m].bkMark,
                        pv[m].got, pv[m].sess, pv[m].todo, pv[m].next)
         /\ UNCHANGED cloud
         /\ History(past.done, past.all, past.late, past.made) /\ utc' = utc + 1
<1> DEFINE r == [pv[m] EXCEPT !.has = pv[m].has \cup {utc + 1}]
<1>1. /\ pv[m] \in Machine /\ Session \in SessionType /\ (pv[m].frozen => pv[m].pc \in SessionPcs)
      /\ utc + 1 \in Edits /\ utc + 1 \in Marks
  BY NextSecond DEF OnTypeOK, Session, Machine, SessionType, EditRow
<1>2. pv' = [pv EXCEPT ![m] = r]
  BY DEF EditRow
<1>3. r \in Machine /\ (r.frozen => r.pc \in SessionPcs)
  BY <1>1, PlaceNames DEF Machine, SessionType, SessionPcs
<1>4. /\ Step(m, r.pc, r.has, r.mark, r.bk, r.bkMark, r.got, r.sess, r.todo, r.next)
      /\ pv' \in [Peers -> Machine] /\ Unfrozen'
  BY <1>2, <1>3, Moves
<1>5. UNCHANGED cloud /\ cloud' \in CloudType
  BY DEF EditRow, OnTypeOK, CloudType
<1>6. History(past.done, past.all, past.late, past.made) /\ past' \in PastType
  <2> DEFINE q == [past EXCEPT !.edits = past.edits + 1]
  <2>1. past' = q /\ past.edits + 1 \in Nat
    BY LateTyped, DoneTyped, MoreTyped, <1>1 DEF EditRow, OnTypeOK, PastType, Machine
  <2>2. q \in PastType
    BY <2>1 DEF OnTypeOK, PastType
  <2>3. History(q.done, q.all, q.late, q.made)
    BY <2>1 DEF History
  <2> QED BY <2>1, <2>2, <2>3 DEF OnTypeOK, PastType
<1>7. utc' \in 0..MaxUtc /\ utc' = utc + 1
  BY NextSecond DEF EditRow, OnTypeOK
<1> QED BY <1>1, <1>4, <1>5, <1>6, <1>7 DEF OnTypeOK, Machine, CloudType, PastType, Unfrozen

\* The master stops waiting.
LEMMA wait_for_peerStep ==
  ASSUME OnTypeOK, NEW m \in Peers, wait_for_peer(m)
  PROVE  /\ OnTypeOK' /\ pv[m].pc = "wait_peer"
         /\ Step(m, "freeze", pv[m].has, pv[m].mark, pv[m].bk, pv[m].bkMark, pv[m].got,
                        pv[m].sess, pv[m].todo, pv[m].next)
         /\ UNCHANGED cloud
         /\ UNCHANGED past /\ UNCHANGED utc
<1> DEFINE r == [pv[m] EXCEPT !.pc = "freeze"]
<1>1. pv[m] \in Machine /\ Session \in SessionType /\ (pv[m].frozen => pv[m].pc \in SessionPcs)
  BY DEF OnTypeOK, Session, Machine, SessionType
<1>2. pv' = [pv EXCEPT ![m] = r]
  BY DEF wait_for_peer
<1>3. r \in Machine /\ (r.frozen => r.pc \in SessionPcs)
  BY <1>1, PlaceNames DEF Machine, SessionType, SessionPcs
<1>4. /\ Step(m, r.pc, r.has, r.mark, r.bk, r.bkMark, r.got, r.sess, r.todo, r.next)
      /\ pv' \in [Peers -> Machine] /\ Unfrozen'
  BY <1>2, <1>3, Moves
<1>5. UNCHANGED cloud /\ cloud' \in CloudType
  BY DEF wait_for_peer, OnTypeOK, CloudType
<1>6. UNCHANGED past /\ past' \in PastType
  BY DEF wait_for_peer, OnTypeOK, PastType
<1>7. utc' \in 0..MaxUtc /\ UNCHANGED utc
  BY DEF wait_for_peer, OnTypeOK
<1>9. pv[m].pc = "wait_peer"
  BY DEF wait_for_peer
<1> QED BY <1>9, <1>1, <1>4, <1>5, <1>6, <1>7 DEF OnTypeOK, Machine, CloudType, PastType, Unfrozen

\* The machine freezes its database.
LEMMA Freeze5Step ==
  ASSUME OnTypeOK, NEW m \in Peers, Freeze5(m)
  PROVE  /\ OnTypeOK' /\ pv[m].pc = "freeze" /\ Live(m)
         /\ Step(m, IF Session.master = m THEN "m6" ELSE "s6", pv[m].has, pv[m].mark,
                        pv[m].bk, pv[m].bkMark, pv[m].got, pv[m].sess, pv[m].todo,
                        pv[m].next)
         /\ UNCHANGED cloud
         /\ UNCHANGED past /\ UNCHANGED utc
<1> DEFINE r == [pv[m] EXCEPT !.pc = IF Session.master = m THEN "m6" ELSE "s6", !.frozen = TRUE]
<1>1. pv[m] \in Machine /\ Session \in SessionType /\ (pv[m].frozen => pv[m].pc \in SessionPcs)
  BY DEF OnTypeOK, Session, Machine, SessionType
<1>2. pv' = [pv EXCEPT ![m] = r]
  BY DEF Freeze5
<1>3. r \in Machine /\ (r.frozen => r.pc \in SessionPcs)
  BY <1>1, PlaceNames DEF Machine, SessionType, SessionPcs
<1>4. /\ Step(m, r.pc, r.has, r.mark, r.bk, r.bkMark, r.got, r.sess, r.todo, r.next)
      /\ pv' \in [Peers -> Machine] /\ Unfrozen'
  BY <1>2, <1>3, Moves
<1>5. UNCHANGED cloud /\ cloud' \in CloudType
  BY DEF Freeze5, OnTypeOK, CloudType
<1>6. UNCHANGED past /\ past' \in PastType
  BY DEF Freeze5, OnTypeOK, PastType
<1>7. utc' \in 0..MaxUtc /\ UNCHANGED utc
  BY DEF Freeze5, OnTypeOK
<1>9. pv[m].pc = "freeze" /\ Live(m)
  BY DEF Freeze5
<1> QED BY <1>9, <1>1, <1>4, <1>5, <1>6, <1>7 DEF OnTypeOK, Machine, CloudType, PastType, Unfrozen

\* The slave uploads what it has.
LEMMA SlaveUploadsStep ==
  ASSUME OnTypeOK, NEW m \in Peers, SlaveUploads(m)
  PROVE  /\ OnTypeOK' /\ pv[m].pc = "s6" /\ Live(m)
         /\ Step(m, "s11", pv[m].has, pv[m].mark, pv[m].bk, pv[m].bkMark, pv[m].has,
                        pv[m].sess, pv[m].todo, pv[m].next)
         /\ Server(Session.id, Session.st, 6, Session.master, pv[m].has, Session.down,
                          cloud.pkgs)
         /\ History(past.done, past.all \cup pv[m].has, past.late, past.made) /\ UNCHANGED utc
<1> DEFINE r == [pv[m] EXCEPT !.pc = "s11", !.got = pv[m].has]
<1>1. pv[m] \in Machine /\ Session \in SessionType /\ (pv[m].frozen => pv[m].pc \in SessionPcs)
  BY DEF OnTypeOK, Session, Machine, SessionType
<1>2. pv' = [pv EXCEPT ![m] = r]
  BY DEF SlaveUploads
<1>3. r \in Machine /\ (r.frozen => r.pc \in SessionPcs)
  BY <1>1, PlaceNames DEF Machine, SessionType, SessionPcs
<1>4. /\ Step(m, r.pc, r.has, r.mark, r.bk, r.bkMark, r.got, r.sess, r.todo, r.next)
      /\ pv' \in [Peers -> Machine] /\ Unfrozen'
  BY <1>2, <1>3, Moves
<1>5. /\ Server(Session.id, Session.st, 6, Session.master, pv[m].has, Session.down,
                          cloud.pkgs)
      /\ cloud' \in CloudType
  <2> DEFINE s == [Session EXCEPT !.up = pv[m].has, !.step = 6]
  <2>1. cloud' = [cloud EXCEPT !.sess = s]
    BY DEF SlaveUploads, Session
  <2>2. s \in SessionType
    BY <1>1, StageNames DEF Machine, SessionType
  <2>3. Server(s.id, s.st, s.step, s.master, s.up, s.down, cloud.pkgs) /\ cloud' \in CloudType
    BY <2>1, <2>2, ServerMoves
  <2> QED BY <1>1, <2>3 DEF SessionType
<1>6. History(past.done, past.all \cup pv[m].has, past.late, past.made) /\ past' \in PastType
  <2> DEFINE q == [past EXCEPT !.all = past.all \cup pv[m].has]
  <2>1. past' = q /\ past.all \cup pv[m].has \in SUBSET Edits
    BY <1>1 DEF SlaveUploads, OnTypeOK, PastType, Machine
  <2>2. q \in PastType
    BY <2>1 DEF OnTypeOK, PastType
  <2>3. History(q.done, q.all, q.late, q.made)
    BY <2>1 DEF History
  <2> QED BY <2>1, <2>2, <2>3 DEF OnTypeOK, PastType
<1>7. utc' \in 0..MaxUtc /\ UNCHANGED utc
  BY DEF SlaveUploads, OnTypeOK
<1>9. pv[m].pc = "s6" /\ Live(m)
  BY DEF SlaveUploads
<1> QED BY <1>9, <1>1, <1>4, <1>5, <1>6, <1>7 DEF OnTypeOK, Machine, CloudType, PastType, Unfrozen

\* The master downloads and backs up.
LEMMA MasterDownloadsStep ==
  ASSUME OnTypeOK, NEW m \in Peers, MasterDownloads(m)
  PROVE  /\ OnTypeOK' /\ pv[m].pc = "m6" /\ Live(m) /\ Session.step >= 6
         /\ Step(m, "m9", pv[m].has, pv[m].mark, pv[m].has, pv[m].mark, Session.up,
                        pv[m].sess, pv[m].todo, pv[m].next)
         /\ UNCHANGED cloud
         /\ UNCHANGED past /\ UNCHANGED utc
<1> DEFINE r == [pv[m] EXCEPT !.pc = "m9",
                              !.got = Session.up,
                              !.bk = pv[m].has,
                              !.bkMark = pv[m].mark]
<1>1. pv[m] \in Machine /\ Session \in SessionType /\ (pv[m].frozen => pv[m].pc \in SessionPcs)
  BY DEF OnTypeOK, Session, Machine, SessionType
<1>2. pv' = [pv EXCEPT ![m] = r]
  BY DEF MasterDownloads
<1>3. r \in Machine /\ (r.frozen => r.pc \in SessionPcs)
  BY <1>1, PlaceNames DEF Machine, SessionType, SessionPcs
<1>4. /\ Step(m, r.pc, r.has, r.mark, r.bk, r.bkMark, r.got, r.sess, r.todo, r.next)
      /\ pv' \in [Peers -> Machine] /\ Unfrozen'
  BY <1>2, <1>3, Moves
<1>5. UNCHANGED cloud /\ cloud' \in CloudType
  BY DEF MasterDownloads, OnTypeOK, CloudType
<1>6. UNCHANGED past /\ past' \in PastType
  BY DEF MasterDownloads, OnTypeOK, PastType
<1>7. utc' \in 0..MaxUtc /\ UNCHANGED utc
  BY DEF MasterDownloads, OnTypeOK
<1>9. pv[m].pc = "m6" /\ Live(m) /\ Session.step >= 6
  BY DEF MasterDownloads
<1> QED BY <1>9, <1>1, <1>4, <1>5, <1>6, <1>7 DEF OnTypeOK, Machine, CloudType, PastType, Unfrozen

\* The master merges.
LEMMA MasterMergesStep ==
  ASSUME OnTypeOK, NEW m \in Peers, MasterMerges(m)
  PROVE  /\ OnTypeOK' /\ pv[m].pc = "m9" /\ Live(m)
         /\ Step(m, "m10", pv[m].has \cup pv[m].got, pv[m].mark, pv[m].bk, pv[m].bkMark,
                        pv[m].got, pv[m].sess, pv[m].todo, pv[m].next)
         /\ UNCHANGED cloud
         /\ History(past.done, past.all \cup pv[m].has, past.late, past.made) /\ UNCHANGED utc
<1> DEFINE r == [pv[m] EXCEPT !.pc = "m10", !.has = pv[m].has \cup pv[m].got]
<1>1. pv[m] \in Machine /\ Session \in SessionType /\ (pv[m].frozen => pv[m].pc \in SessionPcs)
  BY DEF OnTypeOK, Session, Machine, SessionType
<1>2. pv' = [pv EXCEPT ![m] = r]
  BY DEF MasterMerges
<1>3. r \in Machine /\ (r.frozen => r.pc \in SessionPcs)
  BY <1>1, PlaceNames DEF Machine, SessionType, SessionPcs
<1>4. /\ Step(m, r.pc, r.has, r.mark, r.bk, r.bkMark, r.got, r.sess, r.todo, r.next)
      /\ pv' \in [Peers -> Machine] /\ Unfrozen'
  BY <1>2, <1>3, Moves
<1>5. UNCHANGED cloud /\ cloud' \in CloudType
  BY DEF MasterMerges, OnTypeOK, CloudType
<1>6. History(past.done, past.all \cup pv[m].has, past.late, past.made) /\ past' \in PastType
  <2> DEFINE q == [past EXCEPT !.all = past.all \cup pv[m].has]
  <2>1. past' = q /\ past.all \cup pv[m].has \in SUBSET Edits
    BY <1>1 DEF MasterMerges, OnTypeOK, PastType, Machine
  <2>2. q \in PastType
    BY <2>1 DEF OnTypeOK, PastType
  <2>3. History(q.done, q.all, q.late, q.made)
    BY <2>1 DEF History
  <2> QED BY <2>1, <2>2, <2>3 DEF OnTypeOK, PastType
<1>7. utc' \in 0..MaxUtc /\ UNCHANGED utc
  BY DEF MasterMerges, OnTypeOK
<1>9. pv[m].pc = "m9" /\ Live(m)
  BY DEF MasterMerges
<1> QED BY <1>9, <1>1, <1>4, <1>5, <1>6, <1>7 DEF OnTypeOK, Machine, CloudType, PastType, Unfrozen

\* The master takes a marker.
LEMMA MasterMarksStep ==
  ASSUME OnTypeOK, NEW m \in Peers, MasterMarks(m)
  PROVE  /\ OnTypeOK' /\ pv[m].pc = "m10" /\ Live(m)
         /\ Step(m, "m11", pv[m].has, utc + 1, pv[m].bk, pv[m].bkMark, pv[m].got, pv[m].sess,
                        pv[m].todo, pv[m].next)
         /\ UNCHANGED cloud
         /\ UNCHANGED past /\ utc' = utc + 1
<1> DEFINE r == [pv[m] EXCEPT !.pc = "m11", !.mark = utc + 1]
<1>1. /\ pv[m] \in Machine /\ Session \in SessionType /\ (pv[m].frozen => pv[m].pc \in SessionPcs)
      /\ utc + 1 \in Edits /\ utc + 1 \in Marks
  BY NextSecond DEF OnTypeOK, Session, Machine, SessionType, MasterMarks
<1>2. pv' = [pv EXCEPT ![m] = r]
  BY DEF MasterMarks
<1>3. r \in Machine /\ (r.frozen => r.pc \in SessionPcs)
  BY <1>1, PlaceNames DEF Machine, SessionType, SessionPcs
<1>4. /\ Step(m, r.pc, r.has, r.mark, r.bk, r.bkMark, r.got, r.sess, r.todo, r.next)
      /\ pv' \in [Peers -> Machine] /\ Unfrozen'
  BY <1>2, <1>3, Moves
<1>5. UNCHANGED cloud /\ cloud' \in CloudType
  BY DEF MasterMarks, OnTypeOK, CloudType
<1>6. UNCHANGED past /\ past' \in PastType
  BY DEF MasterMarks, OnTypeOK, PastType
<1>7. utc' \in 0..MaxUtc /\ utc' = utc + 1
  BY NextSecond DEF MasterMarks, OnTypeOK
<1>9. pv[m].pc = "m10" /\ Live(m)
  BY DEF MasterMarks
<1> QED BY <1>9, <1>1, <1>4, <1>5, <1>6, <1>7 DEF OnTypeOK, Machine, CloudType, PastType, Unfrozen

\* The master uploads what it has merged.
LEMMA MasterUploadsStep ==
  ASSUME OnTypeOK, NEW m \in Peers, MasterUploads(m)
  PROVE  /\ OnTypeOK' /\ pv[m].pc = "m11" /\ Live(m)
         /\ Step(m, "m12", pv[m].has, pv[m].mark, pv[m].bk, pv[m].bkMark, pv[m].got,
                        pv[m].sess, pv[m].todo, pv[m].next)
         /\ Server(Session.id, Session.st, 11, Session.master, Session.up, pv[m].has,
                          cloud.pkgs)
         /\ UNCHANGED past /\ UNCHANGED utc
<1> DEFINE r == [pv[m] EXCEPT !.pc = "m12"]
<1>1. pv[m] \in Machine /\ Session \in SessionType /\ (pv[m].frozen => pv[m].pc \in SessionPcs)
  BY DEF OnTypeOK, Session, Machine, SessionType
<1>2. pv' = [pv EXCEPT ![m] = r]
  BY DEF MasterUploads, MergedExport
<1>3. r \in Machine /\ (r.frozen => r.pc \in SessionPcs)
  BY <1>1, PlaceNames DEF Machine, SessionType, SessionPcs
<1>4. /\ Step(m, r.pc, r.has, r.mark, r.bk, r.bkMark, r.got, r.sess, r.todo, r.next)
      /\ pv' \in [Peers -> Machine] /\ Unfrozen'
  BY <1>2, <1>3, Moves
<1>5. /\ Server(Session.id, Session.st, 11, Session.master, Session.up, pv[m].has,
                          cloud.pkgs)
      /\ cloud' \in CloudType
  <2> DEFINE s == [Session EXCEPT !.down = pv[m].has, !.step = 11]
  <2>1. cloud' = [cloud EXCEPT !.sess = s]
    BY DEF MasterUploads, Session, MergedExport
  <2>2. s \in SessionType
    BY <1>1, StageNames DEF Machine, SessionType
  <2>3. Server(s.id, s.st, s.step, s.master, s.up, s.down, cloud.pkgs) /\ cloud' \in CloudType
    BY <2>1, <2>2, ServerMoves
  <2> QED BY <1>1, <2>3 DEF SessionType
<1>6. UNCHANGED past /\ past' \in PastType
  BY DEF MasterUploads, OnTypeOK, PastType
<1>7. utc' \in 0..MaxUtc /\ UNCHANGED utc
  BY DEF MasterUploads, OnTypeOK
<1>9. pv[m].pc = "m11" /\ Live(m)
  BY DEF MasterUploads
<1> QED BY <1>9, <1>1, <1>4, <1>5, <1>6, <1>7 DEF OnTypeOK, Machine, CloudType, PastType, Unfrozen

\* The slave merges and takes a marker.
LEMMA SlaveImportsStep ==
  ASSUME OnTypeOK, NEW m \in Peers, SlaveImports(m)
  PROVE  /\ OnTypeOK' /\ pv[m].pc = "s11" /\ Live(m) /\ Session.step >= 11
         /\ Step(m, "s13", pv[m].has \cup Session.down, utc + 1, pv[m].has, pv[m].mark,
                        pv[m].got, pv[m].sess, pv[m].todo, pv[m].next)
         /\ UNCHANGED cloud
         /\ History(past.done, past.all, LateWith(m, pv[m].has \ pv[m].got), past.made)
         /\ utc' = utc + 1
<1> DEFINE r == [pv[m] EXCEPT !.pc = "s13",
                              !.has = pv[m].has \cup Session.down,
                              !.mark = utc + 1,
                              !.bk = pv[m].has,
                              !.bkMark = pv[m].mark]
<1>1. /\ pv[m] \in Machine /\ Session \in SessionType /\ (pv[m].frozen => pv[m].pc \in SessionPcs)
      /\ utc + 1 \in Edits /\ utc + 1 \in Marks
  BY NextSecond DEF OnTypeOK, Session, Machine, SessionType, SlaveImports
<1>2. pv' = [pv EXCEPT ![m] = r]
  BY DEF SlaveImports
<1>3. r \in Machine /\ (r.frozen => r.pc \in SessionPcs)
  BY <1>1, PlaceNames DEF Machine, SessionType, SessionPcs
<1>4. /\ Step(m, r.pc, r.has, r.mark, r.bk, r.bkMark, r.got, r.sess, r.todo, r.next)
      /\ pv' \in [Peers -> Machine] /\ Unfrozen'
  BY <1>2, <1>3, Moves
<1>5. UNCHANGED cloud /\ cloud' \in CloudType
  BY DEF SlaveImports, OnTypeOK, CloudType
<1>6. History(past.done, past.all, LateWith(m, pv[m].has \ pv[m].got), past.made)
      /\ past' \in PastType
  <2> DEFINE q == [past EXCEPT !.late = LateWith(m, pv[m].has \ pv[m].got)]
  <2>1. past' = q /\ LateWith(m, pv[m].has \ pv[m].got) \in [Peers -> SUBSET Edits]
    BY LateTyped, DoneTyped, MoreTyped, <1>1 DEF SlaveImports, OnTypeOK, PastType, Machine,
       LateWith, Session, SessionType
  <2>2. q \in PastType
    BY <2>1 DEF OnTypeOK, PastType
  <2>3. History(q.done, q.all, q.late, q.made)
    BY <2>1 DEF History
  <2> QED BY <2>1, <2>2, <2>3 DEF OnTypeOK, PastType
<1>7. utc' \in 0..MaxUtc /\ utc' = utc + 1
  BY NextSecond DEF SlaveImports, OnTypeOK
<1>9. pv[m].pc = "s11" /\ Live(m) /\ Session.step >= 11
  BY DEF SlaveImports
<1> QED BY <1>9, <1>1, <1>4, <1>5, <1>6, <1>7 DEF OnTypeOK, Machine, CloudType, PastType, Unfrozen
\* The slave has merged, and is done.
LEMMA SlaveReportsStep ==
  ASSUME OnTypeOK, NEW m \in Peers, SlaveReports(m)
  PROVE  /\ OnTypeOK' /\ pv[m].pc = "s13" /\ Live(m)
         /\ Ends(m)
         /\ Server(Session.id, Session.st, 12, Session.master, Session.up, Session.down,
                          cloud.pkgs)
         /\ History(DoneWith(m), past.all, past.late, past.made) /\ UNCHANGED utc
<1> DEFINE r == Ended(pv[m])
<1>1. /\ pv[m] \in Machine /\ Session \in SessionType /\ (pv[m].frozen => pv[m].pc \in SessionPcs)
  BY DEF OnTypeOK, Session, SlaveReports, Machine, SessionType
<1>2. pv' = [pv EXCEPT ![m] = r]
  BY DEF SlaveReports
<1>3. r \in Machine /\ (r.frozen => r.pc \in SessionPcs)
  BY <1>1, PlaceNames, EndedFields DEF Machine, SessionPcs, SlaveReports
<1>4. /\ Step(m, r.pc, r.has, r.mark, r.bk, r.bkMark, r.got, r.sess, r.todo, r.next)
      /\ pv' \in [Peers -> Machine] /\ Unfrozen'
  BY <1>2, <1>3, Moves
<1>5. Server(Session.id, Session.st, 12, Session.master, Session.up, Session.down,
                       cloud.pkgs) /\ cloud' \in CloudType
  <2> DEFINE s == [Session EXCEPT !.step = 12]
  <2>1. cloud' = [cloud EXCEPT !.sess = s]
    BY DEF SlaveReports, Session
  <2>2. s \in SessionType
    BY <1>1, StageNames DEF Machine, SessionType
  <2>3. Server(s.id, s.st, s.step, s.master, s.up, s.down, cloud.pkgs) /\ cloud' \in CloudType
    BY <2>1, <2>2, ServerMoves
  <2> QED BY <1>1, <2>3 DEF SessionType
<1>6. History(DoneWith(m), past.all, past.late, past.made) /\ past' \in PastType
  <2> DEFINE q == [past EXCEPT !.done = DoneWith(m)]
  <2>1. past' = q /\ DoneWith(m) \in [Peers -> 0..MaxSessions]
    BY LateTyped, DoneTyped, MoreTyped, <1>1 DEF SlaveReports, OnTypeOK, PastType, Machine, DoneWith
  <2>2. q \in PastType
    BY <2>1 DEF OnTypeOK, PastType
  <2>3. History(q.done, q.all, q.late, q.made)
    BY <2>1 DEF History
  <2> QED BY <2>1, <2>2, <2>3 DEF OnTypeOK, PastType
<1>7. utc' \in 0..MaxUtc /\ UNCHANGED utc
  BY DEF SlaveReports, OnTypeOK
<1>9. pv[m].pc = "s13" /\ Live(m)
  BY DEF SlaveReports
<1> QED BY <1>9, <1>1, <1>4, <1>5, <1>6, <1>7, EndedFields DEF OnTypeOK, Machine, CloudType,
   PastType, Unfrozen, Ends, Restores

\* The master closes the session.
LEMMA MasterEndsStep ==
  ASSUME OnTypeOK, NEW m \in Peers, MasterEnds(m)
  PROVE  /\ OnTypeOK' /\ pv[m].pc = "m12" /\ Live(m) /\ Session.step >= 12
         /\ Ends(m)
         /\ Server(Session.id, "done", 13, Session.master, Session.up, Session.down,
                          cloud.pkgs)
         /\ History(DoneWith(m), past.all, past.late, past.made) /\ UNCHANGED utc
<1> DEFINE r == Ended(pv[m])
<1>1. /\ pv[m] \in Machine /\ Session \in SessionType /\ (pv[m].frozen => pv[m].pc \in SessionPcs)
  BY DEF OnTypeOK, Session, MasterEnds, Machine, SessionType
<1>2. pv' = [pv EXCEPT ![m] = r]
  BY DEF MasterEnds
<1>3. r \in Machine /\ (r.frozen => r.pc \in SessionPcs)
  BY <1>1, PlaceNames, EndedFields DEF Machine, SessionPcs, MasterEnds
<1>4. /\ Step(m, r.pc, r.has, r.mark, r.bk, r.bkMark, r.got, r.sess, r.todo, r.next)
      /\ pv' \in [Peers -> Machine] /\ Unfrozen'
  BY <1>2, <1>3, Moves
<1>5. Server(Session.id, "done", 13, Session.master, Session.up, Session.down,
                       cloud.pkgs) /\ cloud' \in CloudType
  <2> DEFINE s == [Session EXCEPT !.st = "done", !.step = 13]
  <2>1. cloud' = [cloud EXCEPT !.sess = s]
    BY DEF MasterEnds, Session
  <2>2. s \in SessionType
    BY <1>1, StageNames DEF Machine, SessionType
  <2>3. Server(s.id, s.st, s.step, s.master, s.up, s.down, cloud.pkgs) /\ cloud' \in CloudType
    BY <2>1, <2>2, ServerMoves
  <2> QED BY <1>1, <2>3 DEF SessionType
<1>6. History(DoneWith(m), past.all, past.late, past.made) /\ past' \in PastType
  <2> DEFINE q == [past EXCEPT !.done = DoneWith(m)]
  <2>1. past' = q /\ DoneWith(m) \in [Peers -> 0..MaxSessions]
    BY LateTyped, DoneTyped, MoreTyped, <1>1 DEF MasterEnds, OnTypeOK, PastType, Machine, DoneWith
  <2>2. q \in PastType
    BY <2>1 DEF OnTypeOK, PastType
  <2>3. History(q.done, q.all, q.late, q.made)
    BY <2>1 DEF History
  <2> QED BY <2>1, <2>2, <2>3 DEF OnTypeOK, PastType
<1>7. utc' \in 0..MaxUtc /\ UNCHANGED utc
  BY DEF MasterEnds, OnTypeOK
<1>9. pv[m].pc = "m12" /\ Live(m) /\ Session.step >= 12
  BY DEF MasterEnds
<1> QED BY <1>9, <1>1, <1>4, <1>5, <1>6, <1>7, EndedFields DEF OnTypeOK, Machine, CloudType,
   PastType, Unfrozen, Ends, Restores

\* A merge fails: the backup is put back.
LEMMA MergeFailsStep ==
  ASSUME OnTypeOK, NEW m \in Peers, MergeFails(m)
  PROVE  /\ OnTypeOK' /\ pv[m].pc \in {"m9", "m10", "s11"}
         /\ IF pv[m].pc = "s11" THEN Ends(m) ELSE Restores(m)
         /\ Cancelled(m)
         /\ History(past.done, past.all, past.late, past.made) /\ UNCHANGED utc
<1> DEFINE r == Ended(IF pv[m].pc = "s11" THEN pv[m] ELSE Restored(pv[m]))
<1>1. /\ pv[m] \in Machine /\ Session \in SessionType /\ (pv[m].frozen => pv[m].pc \in SessionPcs)
  BY DEF OnTypeOK, Session, MergeFails, Machine, SessionType
<1>2. pv' = [pv EXCEPT ![m] = r]
  BY DEF MergeFails
<1>3. r \in Machine /\ (r.frozen => r.pc \in SessionPcs)
  BY <1>1, PlaceNames, EndedFields, RestoredFields DEF Machine, SessionPcs, MergeFails
<1>4. /\ Step(m, r.pc, r.has, r.mark, r.bk, r.bkMark, r.got, r.sess, r.todo, r.next)
      /\ pv' \in [Peers -> Machine] /\ Unfrozen'
  BY <1>2, <1>3, Moves
<1>5. Cancelled(m) /\ cloud' \in CloudType
  BY CancelTyped DEF MergeFails
<1>6. History(past.done, past.all, past.late, past.made) /\ past' \in PastType
  <2> DEFINE q == [past EXCEPT !.faults = past.faults + 1]
  <2>1. past' = q /\ past.faults + 1 \in Nat
    BY LateTyped, DoneTyped, MoreTyped, <1>1 DEF MergeFails, OnTypeOK, PastType, Machine
  <2>2. q \in PastType
    BY <2>1 DEF OnTypeOK, PastType
  <2>3. History(q.done, q.all, q.late, q.made)
    BY <2>1 DEF History
  <2> QED BY <2>1, <2>2, <2>3 DEF OnTypeOK, PastType
<1>7. utc' \in 0..MaxUtc /\ UNCHANGED utc
  BY DEF MergeFails, OnTypeOK
<1>8. /\ r.pc = "idle" /\ r.got = {} /\ r.sess = 0 /\ r.todo = {} /\ r.next = pv[m].next
      /\ r.bk = pv[m].bk /\ r.bkMark = pv[m].bkMark
      /\ IF pv[m].pc = "s11" THEN r.has = pv[m].has /\ r.mark = pv[m].mark
         ELSE r.has = pv[m].bk /\ r.mark = pv[m].bkMark
  BY <1>1, EndedFields, RestoredFields
<1>9. pv[m].pc \in {"m9", "m10", "s11"}
  BY DEF MergeFails
<1> QED BY <1>9, <1>1, <1>4, <1>5, <1>6, <1>7, <1>8 DEF OnTypeOK, Machine, CloudType, PastType,
   Unfrozen, Ends, Restores

\* The session is over for the server.
LEMMA SessionGoneStep ==
  ASSUME OnTypeOK, NEW m \in Peers, SessionGone(m)
  PROVE  /\ OnTypeOK' /\ pv[m].pc \in SessionPcs /\ ~Live(m)
         /\ Ends(m)
         /\ UNCHANGED cloud
         /\ History(past.done, past.all, LateWith(m, Overtaken(m)), past.made) /\ UNCHANGED utc
<1> DEFINE r == Ended(pv[m])
<1>1. /\ pv[m] \in Machine /\ Session \in SessionType /\ (pv[m].frozen => pv[m].pc \in SessionPcs)
      /\ Overtaken(m) \in SUBSET Edits
  BY DEF Overtaken, OnTypeOK, Session, SessionGone, Machine, SessionType
<1>2. pv' = [pv EXCEPT ![m] = r]
  BY DEF SessionGone
<1>3. r \in Machine /\ (r.frozen => r.pc \in SessionPcs)
  BY <1>1, PlaceNames, EndedFields DEF Machine, SessionPcs, SessionGone
<1>4. /\ Step(m, r.pc, r.has, r.mark, r.bk, r.bkMark, r.got, r.sess, r.todo, r.next)
      /\ pv' \in [Peers -> Machine] /\ Unfrozen'
  BY <1>2, <1>3, Moves
<1>5. UNCHANGED cloud /\ cloud' \in CloudType
  BY DEF SessionGone, OnTypeOK, CloudType
<1>6. History(past.done, past.all, LateWith(m, Overtaken(m)), past.made) /\ past' \in PastType
  <2> DEFINE q == [past EXCEPT !.late = LateWith(m, Overtaken(m))]
  <2>1. past' = q /\ LateWith(m, Overtaken(m)) \in [Peers -> SUBSET Edits]
    BY LateTyped, DoneTyped, MoreTyped, <1>1 DEF SessionGone, OnTypeOK, PastType, Machine, LateWith
  <2>2. q \in PastType
    BY <2>1 DEF OnTypeOK, PastType
  <2>3. History(q.done, q.all, q.late, q.made)
    BY <2>1 DEF History
  <2> QED BY <2>1, <2>2, <2>3 DEF OnTypeOK, PastType
<1>7. utc' \in 0..MaxUtc /\ UNCHANGED utc
  BY DEF SessionGone, OnTypeOK
<1>9. pv[m].pc \in SessionPcs /\ ~Live(m)
  BY DEF SessionGone
<1> QED BY <1>9, <1>1, <1>4, <1>5, <1>6, <1>7, EndedFields DEF OnTypeOK, Machine, CloudType,
   PastType, Unfrozen, Ends, Restores

\* The machine gives up.
LEMMA NetworkFailsStep ==
  ASSUME OnTypeOK, NEW m \in Peers, NetworkFails(m)
  PROVE  /\ OnTypeOK' /\ pv[m].pc # "idle"
         /\ Ends(m)
         /\ Cancelled(m)
         /\ History(past.done, past.all, LateWith(m, Overtaken(m)), past.made) /\ UNCHANGED utc
<1> DEFINE r == Ended(pv[m])
<1>1. /\ pv[m] \in Machine /\ Session \in SessionType /\ (pv[m].frozen => pv[m].pc \in SessionPcs)
      /\ Overtaken(m) \in SUBSET Edits
  BY DEF Overtaken, OnTypeOK, Session, NetworkFails, Machine, SessionType
<1>2. pv' = [pv EXCEPT ![m] = r]
  BY DEF NetworkFails
<1>3. r \in Machine /\ (r.frozen => r.pc \in SessionPcs)
  BY <1>1, PlaceNames, EndedFields DEF Machine, SessionPcs, NetworkFails
<1>4. /\ Step(m, r.pc, r.has, r.mark, r.bk, r.bkMark, r.got, r.sess, r.todo, r.next)
      /\ pv' \in [Peers -> Machine] /\ Unfrozen'
  BY <1>2, <1>3, Moves
<1>5. Cancelled(m) /\ cloud' \in CloudType
  BY CancelTyped DEF NetworkFails
<1>6. History(past.done, past.all, LateWith(m, Overtaken(m)), past.made) /\ past' \in PastType
  <2> DEFINE q == [past EXCEPT !.late = LateWith(m, Overtaken(m)), !.faults = past.faults + 1]
  <2>1. past' = q /\ LateWith(m, Overtaken(m)) \in [Peers -> SUBSET Edits]
        /\ past.faults + 1 \in Nat
    BY LateTyped, DoneTyped, MoreTyped, <1>1 DEF NetworkFails, OnTypeOK, PastType, Machine, LateWith
  <2>2. q \in PastType
    BY <2>1 DEF OnTypeOK, PastType
  <2>3. History(q.done, q.all, q.late, q.made)
    BY <2>1 DEF History
  <2> QED BY <2>1, <2>2, <2>3 DEF OnTypeOK, PastType
<1>7. utc' \in 0..MaxUtc /\ UNCHANGED utc
  BY DEF NetworkFails, OnTypeOK
<1>9. pv[m].pc # "idle"
  BY DEF NetworkFails
<1> QED BY <1>9, <1>1, <1>4, <1>5, <1>6, <1>7, EndedFields DEF OnTypeOK, Machine, CloudType,
   PastType, Unfrozen, Ends, Restores

\* A pull starts with a backup.
LEMMA async_pendingStep ==
  ASSUME OnTypeOK, NEW m \in Peers, async_pending(m)
  PROVE  /\ OnTypeOK' /\ pv[m].pc = "pull"
         /\ Step(m, IF Pending(m) = {} THEN "push" ELSE "pulling", pv[m].has, pv[m].mark,
                        pv[m].has, pv[m].mark, pv[m].got, pv[m].sess,
                        {p.id : p \in Pending(m)}, pv[m].next)
         /\ UNCHANGED cloud
         /\ UNCHANGED past /\ UNCHANGED utc
<1> DEFINE r == [pv[m] EXCEPT !.pc = IF Pending(m) = {} THEN "push" ELSE "pulling",
                              !.todo = {p.id : p \in Pending(m)},
                              !.bk = pv[m].has,
                              !.bkMark = pv[m].mark]
<1>1. /\ pv[m] \in Machine /\ Session \in SessionType /\ (pv[m].frozen => pv[m].pc \in SessionPcs)
      /\ {p.id : p \in Pending(m)} \in SUBSET Edits
  BY DEF Pending, Package, OnTypeOK, Session, async_pending, Machine, SessionType
<1>2. pv' = [pv EXCEPT ![m] = r]
  BY SMTT(20) DEF async_pending
<1>3. r \in Machine /\ (r.frozen => r.pc \in SessionPcs)
  BY <1>1, PlaceNames DEF Machine, SessionPcs, async_pending
<1>4. /\ Step(m, r.pc, r.has, r.mark, r.bk, r.bkMark, r.got, r.sess, r.todo, r.next)
      /\ pv' \in [Peers -> Machine] /\ Unfrozen'
  BY <1>2, <1>3, Moves
<1>5. UNCHANGED cloud /\ cloud' \in CloudType
  BY DEF async_pending, OnTypeOK, CloudType
<1>6. UNCHANGED past /\ past' \in PastType
  BY DEF async_pending, OnTypeOK, PastType
<1>7. utc' \in 0..MaxUtc /\ UNCHANGED utc
  BY DEF async_pending, OnTypeOK
<1>9. pv[m].pc = "pull"
  BY DEF async_pending
<1> QED BY <1>9, <1>1, <1>4, <1>5, <1>6, <1>7 DEF OnTypeOK, Machine, CloudType, PastType,
   Unfrozen, Ends, Restores

\* A package made on another marker is refused.
LEMMA async_rejectStep ==
  ASSUME OnTypeOK, Packed, NEW m \in Peers, async_reject(m)
  PROVE  /\ OnTypeOK' /\ pv[m].pc = "pulling" /\ Oldest(m).base \notin {NoMark, pv[m].mark}
         /\ Step(m, "enter", pv[m].has, pv[m].mark, pv[m].bk, pv[m].bkMark, pv[m].got,
                        pv[m].sess, {}, pv[m].next)
         /\ Server(Session.id, Session.st, Session.step, Session.master, Session.up, Session.down,
                   cloud.pkgs \ {Oldest(m)})
         /\ History(past.done, past.all, LateWith(Oldest(m).from, Oldest(m).edits), past.made)
         /\ UNCHANGED utc
<1> DEFINE r == [pv[m] EXCEPT !.pc = "enter", !.todo = {}]
<1>1. /\ pv[m] \in Machine /\ Session \in SessionType /\ (pv[m].frozen => pv[m].pc \in SessionPcs)
      /\ Oldest(m) \in Package /\ Oldest(m).from \in Peers /\ Oldest(m).edits \in SUBSET Edits
  BY OldestThere DEF OnTypeOK, Session, async_reject, Machine, SessionType, Package
<1>2. pv' = [pv EXCEPT ![m] = r]
  BY DEF async_reject
<1>3. r \in Machine /\ (r.frozen => r.pc \in SessionPcs)
  BY <1>1, PlaceNames DEF Machine, SessionPcs, async_reject
<1>4. /\ Step(m, r.pc, r.has, r.mark, r.bk, r.bkMark, r.got, r.sess, r.todo, r.next)
      /\ pv' \in [Peers -> Machine] /\ Unfrozen'
  BY <1>2, <1>3, Moves
<1>5. Server(Session.id, Session.st, Session.step, Session.master, Session.up, Session.down,
                cloud.pkgs \ {Oldest(m)}) /\ cloud' \in CloudType
  <2> DEFINE k == cloud.pkgs \ {Oldest(m)}
  <2>1. cloud' = [cloud EXCEPT !.pkgs = k]
    BY DEF async_reject
  <2>2. k \in SUBSET Package
    BY <1>1 DEF OnTypeOK
  <2> QED BY <2>1, <2>2, PackagesMove
<1>6. History(past.done, past.all, LateWith(Oldest(m).from, Oldest(m).edits), past.made)
      /\ past' \in PastType
  <2> DEFINE q == [past EXCEPT !.late = LateWith(Oldest(m).from, Oldest(m).edits)]
  <2>1. past' = q /\ LateWith(Oldest(m).from, Oldest(m).edits) \in [Peers -> SUBSET Edits]
    BY LateTyped, DoneTyped, MoreTyped, <1>1 DEF async_reject, OnTypeOK, PastType, Machine, LateWith
  <2>2. q \in PastType
    BY <2>1 DEF OnTypeOK, PastType
  <2>3. History(q.done, q.all, q.late, q.made)
    BY <2>1 DEF History
  <2> QED BY <2>1, <2>2, <2>3 DEF OnTypeOK, PastType
<1>7. utc' \in 0..MaxUtc /\ UNCHANGED utc
  BY DEF async_reject, OnTypeOK
<1>9. pv[m].pc = "pulling" /\ Oldest(m).base \notin {NoMark, pv[m].mark}
  BY DEF async_reject
<1> QED BY <1>9, <1>1, <1>4, <1>5, <1>6, <1>7 DEF OnTypeOK, Machine, CloudType, PastType,
   Unfrozen, Ends, Restores

\* A package without a file stays.
LEMMA DownloadFailsStep ==
  ASSUME OnTypeOK, NEW m \in Peers, DownloadFails(m)
  PROVE  /\ OnTypeOK' /\ pv[m].pc = "pulling"
         /\ Ends(m)
         /\ UNCHANGED cloud
         /\ UNCHANGED past /\ UNCHANGED utc
<1> DEFINE r == Ended(pv[m])
<1>1. /\ pv[m] \in Machine /\ Session \in SessionType /\ (pv[m].frozen => pv[m].pc \in SessionPcs)
  BY DEF OnTypeOK, Session, DownloadFails, Machine, SessionType
<1>2. pv' = [pv EXCEPT ![m] = r]
  BY DEF DownloadFails
<1>3. r \in Machine /\ (r.frozen => r.pc \in SessionPcs)
  BY <1>1, PlaceNames, EndedFields DEF Machine, SessionPcs, DownloadFails
<1>4. /\ Step(m, r.pc, r.has, r.mark, r.bk, r.bkMark, r.got, r.sess, r.todo, r.next)
      /\ pv' \in [Peers -> Machine] /\ Unfrozen'
  BY <1>2, <1>3, Moves
<1>5. UNCHANGED cloud /\ cloud' \in CloudType
  BY DEF DownloadFails, OnTypeOK, CloudType
<1>6. UNCHANGED past /\ past' \in PastType
  BY DEF DownloadFails, OnTypeOK, PastType
<1>7. utc' \in 0..MaxUtc /\ UNCHANGED utc
  BY DEF DownloadFails, OnTypeOK
<1>9. pv[m].pc = "pulling"
  BY DEF DownloadFails
<1> QED BY <1>9, <1>1, <1>4, <1>5, <1>6, <1>7, EndedFields DEF OnTypeOK, Machine, CloudType,
   PastType, Unfrozen, Ends, Restores

\* A package is merged.
LEMMA AsyncMergeStep ==
  ASSUME OnTypeOK, Packed, NEW m \in Peers, AsyncMerge(m)
  PROVE  /\ OnTypeOK' /\ pv[m].pc = "pulling" /\ Oldest(m).base \in {NoMark, pv[m].mark} /\ Oldest(m).up
         /\ Step(m, "ack", pv[m].has \cup Oldest(m).edits, utc + 1, pv[m].bk, pv[m].bkMark,
                        pv[m].got, pv[m].sess, pv[m].todo, pv[m].next)
         /\ UNCHANGED cloud
         /\ History(past.done, past.all, LateWith(m, pv[m].has), past.made) /\ utc' = utc + 1
<1> DEFINE r == [pv[m] EXCEPT !.pc = "ack",
                              !.has = pv[m].has \cup Oldest(m).edits,
                              !.mark = utc + 1]
<1>1. /\ pv[m] \in Machine /\ Session \in SessionType /\ (pv[m].frozen => pv[m].pc \in SessionPcs)
      /\ Oldest(m) \in Package /\ Oldest(m).edits \in SUBSET Edits /\ utc + 1 \in Marks
  BY NextSecond, OldestThere DEF OnTypeOK, Session, AsyncMerge, Machine, SessionType, Package
<1>2. pv' = [pv EXCEPT ![m] = r]
  BY DEF AsyncMerge
<1>3. r \in Machine /\ (r.frozen => r.pc \in SessionPcs)
  BY <1>1, PlaceNames DEF Machine, SessionPcs, AsyncMerge
<1>4. /\ Step(m, r.pc, r.has, r.mark, r.bk, r.bkMark, r.got, r.sess, r.todo, r.next)
      /\ pv' \in [Peers -> Machine] /\ Unfrozen'
  BY <1>2, <1>3, Moves
<1>5. UNCHANGED cloud /\ cloud' \in CloudType
  BY DEF AsyncMerge, OnTypeOK, CloudType
<1>6. History(past.done, past.all, LateWith(m, pv[m].has), past.made) /\ past' \in PastType
  <2> DEFINE q == [past EXCEPT !.late = LateWith(m, pv[m].has)]
  <2>1. past' = q /\ LateWith(m, pv[m].has) \in [Peers -> SUBSET Edits]
    BY LateTyped, DoneTyped, MoreTyped, <1>1 DEF AsyncMerge, OnTypeOK, PastType, Machine, LateWith
  <2>2. q \in PastType
    BY <2>1 DEF OnTypeOK, PastType
  <2>3. History(q.done, q.all, q.late, q.made)
    BY <2>1 DEF History
  <2> QED BY <2>1, <2>2, <2>3 DEF OnTypeOK, PastType
<1>7. utc' \in 0..MaxUtc /\ utc' = utc + 1
  BY NextSecond DEF AsyncMerge, OnTypeOK
<1>9. pv[m].pc = "pulling" /\ Oldest(m).base \in {NoMark, pv[m].mark} /\ Oldest(m).up
  BY DEF AsyncMerge
<1> QED BY <1>9, <1>1, <1>4, <1>5, <1>6, <1>7 DEF OnTypeOK, Machine, CloudType, PastType,
   Unfrozen, Ends, Restores

\* A package does not merge: the backup is put back.
LEMMA AsyncMergeFailsStep ==
  ASSUME OnTypeOK, Packed, NEW m \in Peers, AsyncMergeFails(m)
  PROVE  /\ OnTypeOK' /\ pv[m].pc = "pulling" /\ Oldest(m).base \in {NoMark, pv[m].mark}
         /\ Restores(m)
         /\ Server(Session.id, Session.st, Session.step, Session.master, Session.up, Session.down,
                   cloud.pkgs \ {Oldest(m)})
         /\ History(past.done, past.all, LateWith(Oldest(m).from, Oldest(m).edits), past.made)
         /\ UNCHANGED utc
<1> DEFINE r == Ended(Restored(pv[m]))
<1>1. /\ pv[m] \in Machine /\ Session \in SessionType /\ (pv[m].frozen => pv[m].pc \in SessionPcs)
      /\ Oldest(m) \in Package /\ Oldest(m).from \in Peers /\ Oldest(m).edits \in SUBSET Edits
  BY OldestThere DEF OnTypeOK, Session, AsyncMergeFails, Machine, SessionType, Package
<1>2. pv' = [pv EXCEPT ![m] = r]
  BY DEF AsyncMergeFails
<1>3. r \in Machine /\ (r.frozen => r.pc \in SessionPcs)
  BY <1>1, PlaceNames, EndedFields, RestoredFields DEF Machine, SessionPcs, AsyncMergeFails
<1>4. /\ Step(m, r.pc, r.has, r.mark, r.bk, r.bkMark, r.got, r.sess, r.todo, r.next)
      /\ pv' \in [Peers -> Machine] /\ Unfrozen'
  BY <1>2, <1>3, Moves
<1>5. Server(Session.id, Session.st, Session.step, Session.master, Session.up, Session.down,
                cloud.pkgs \ {Oldest(m)}) /\ cloud' \in CloudType
  <2> DEFINE k == cloud.pkgs \ {Oldest(m)}
  <2>1. cloud' = [cloud EXCEPT !.pkgs = k]
    BY DEF AsyncMergeFails
  <2>2. k \in SUBSET Package
    BY <1>1 DEF OnTypeOK
  <2> QED BY <2>1, <2>2, PackagesMove
<1>6. History(past.done, past.all, LateWith(Oldest(m).from, Oldest(m).edits), past.made)
      /\ past' \in PastType
  <2> DEFINE q == [past EXCEPT !.late = LateWith(Oldest(m).from, Oldest(m).edits),
                                !.faults = past.faults + 1]
  <2>1. past' = q /\ LateWith(Oldest(m).from, Oldest(m).edits) \in [Peers -> SUBSET Edits]
        /\ past.faults + 1 \in Nat
    BY LateTyped, DoneTyped, MoreTyped, <1>1 DEF AsyncMergeFails, OnTypeOK, PastType, Machine,
       LateWith
  <2>2. q \in PastType
    BY <2>1 DEF OnTypeOK, PastType
  <2>3. History(q.done, q.all, q.late, q.made)
    BY <2>1 DEF History
  <2> QED BY <2>1, <2>2, <2>3 DEF OnTypeOK, PastType
<1>7. utc' \in 0..MaxUtc /\ UNCHANGED utc
  BY DEF AsyncMergeFails, OnTypeOK
<1>8. /\ r.pc = "idle" /\ r.got = {} /\ r.sess = 0 /\ r.todo = {} /\ r.next = pv[m].next
      /\ r.bk = pv[m].bk /\ r.bkMark = pv[m].bkMark
      /\ r.has = pv[m].bk /\ r.mark = pv[m].bkMark
  BY <1>1, EndedFields, RestoredFields
<1>9. pv[m].pc = "pulling" /\ Oldest(m).base \in {NoMark, pv[m].mark}
  BY DEF AsyncMergeFails
<1> QED BY <1>9, <1>1, <1>4, <1>5, <1>6, <1>7, <1>8 DEF OnTypeOK, Machine, CloudType, PastType,
   Unfrozen, Ends, Restores

\* A package is answered.
LEMMA async_ackStep ==
  ASSUME OnTypeOK, Packed, NEW m \in Peers, async_ack(m)
  PROVE  /\ OnTypeOK' /\ pv[m].pc = "ack"
         /\ Step(m, IF pv[m].todo \ {Oldest(m).id} = {} THEN "push" ELSE "pulling",
                        pv[m].has, pv[m].mark, pv[m].bk, pv[m].bkMark, pv[m].got,
                        pv[m].sess, pv[m].todo \ {Oldest(m).id}, pv[m].next)
         /\ Server(Session.id, Session.st, Session.step, Session.master, Session.up, Session.down,
                   cloud.pkgs \ {Oldest(m)})
         /\ UNCHANGED past /\ UNCHANGED utc
<1> DEFINE r == [pv[m] EXCEPT !.pc = IF pv[m].todo \ {Oldest(m).id} = {} THEN "push" ELSE "pulling",
                              !.todo = pv[m].todo \ {Oldest(m).id}]
<1>1. /\ pv[m] \in Machine /\ Session \in SessionType /\ (pv[m].frozen => pv[m].pc \in SessionPcs)
  BY OldestThere, SMTT(20) DEF OnTypeOK, Session, async_ack, Machine, SessionType, Package
<1>2. pv' = [pv EXCEPT ![m] = r]
  BY SMTT(20) DEF async_ack
<1>3. r \in Machine /\ (r.frozen => r.pc \in SessionPcs)
  BY <1>1, PlaceNames DEF Machine, SessionPcs, async_ack
<1>4. /\ Step(m, r.pc, r.has, r.mark, r.bk, r.bkMark, r.got, r.sess, r.todo, r.next)
      /\ pv' \in [Peers -> Machine] /\ Unfrozen'
  BY <1>2, <1>3, Moves
<1>5. Server(Session.id, Session.st, Session.step, Session.master, Session.up, Session.down,
                cloud.pkgs \ {Oldest(m)}) /\ cloud' \in CloudType
  <2> DEFINE k == cloud.pkgs \ {Oldest(m)}
  <2>1. cloud' = [cloud EXCEPT !.pkgs = k]
    BY DEF async_ack
  <2>2. k \in SUBSET Package
    BY <1>1 DEF OnTypeOK
  <2> QED BY <2>1, <2>2, PackagesMove
<1>6. UNCHANGED past /\ past' \in PastType
  BY DEF async_ack, OnTypeOK, PastType
<1>7. utc' \in 0..MaxUtc /\ UNCHANGED utc
  BY DEF async_ack, OnTypeOK
<1>9. pv[m].pc = "ack"
  BY DEF async_ack
<1> QED BY <1>9, <1>1, <1>4, <1>5, <1>6, <1>7 DEF OnTypeOK, Machine, CloudType, PastType,
   Unfrozen, Ends, Restores

\* A package is registered.
LEMMA async_pushStep ==
  ASSUME OnTypeOK, NEW m \in Peers, async_push(m)
  PROVE  /\ OnTypeOK' /\ pv[m].pc = "push"
         /\ Step(m, "upload", pv[m].has, pv[m].mark, pv[m].bk, pv[m].bkMark, pv[m].got,
                        pv[m].sess, pv[m].todo, utc + 1)
         /\ Server(Session.id, Session.st, Session.step, Session.master, Session.up, Session.down,
                   cloud.pkgs \cup {NewPackage(m)})
         /\ UNCHANGED past /\ utc' = utc + 1
<1> DEFINE r == [pv[m] EXCEPT !.pc = "upload", !.next = utc + 1]
<1>1. /\ pv[m] \in Machine /\ Session \in SessionType /\ (pv[m].frozen => pv[m].pc \in SessionPcs)
      /\ utc + 1 \in Marks /\ NewPackage(m) \in Package
  BY NextSecond DEF NewPackage, Package, Delta, OnTypeOK, Session, async_push, Machine, SessionType
<1>2. pv' = [pv EXCEPT ![m] = r]
  BY DEF async_push
<1>3. r \in Machine /\ (r.frozen => r.pc \in SessionPcs)
  BY <1>1, PlaceNames DEF Machine, SessionPcs, async_push
<1>4. /\ Step(m, r.pc, r.has, r.mark, r.bk, r.bkMark, r.got, r.sess, r.todo, r.next)
      /\ pv' \in [Peers -> Machine] /\ Unfrozen'
  BY <1>2, <1>3, Moves
<1>5. Server(Session.id, Session.st, Session.step, Session.master, Session.up, Session.down,
                cloud.pkgs \cup {NewPackage(m)}) /\ cloud' \in CloudType
  <2> DEFINE k == cloud.pkgs \cup {NewPackage(m)}
  <2>1. cloud' = [cloud EXCEPT !.pkgs = k]
    BY DEF async_push, NewPackage
  <2>2. k \in SUBSET Package
    BY <1>1 DEF OnTypeOK
  <2> QED BY <2>1, <2>2, PackagesMove
<1>6. UNCHANGED past /\ past' \in PastType
  BY DEF async_push, OnTypeOK, PastType
<1>7. utc' \in 0..MaxUtc /\ utc' = utc + 1
  BY NextSecond DEF async_push, OnTypeOK
<1>9. pv[m].pc = "push"
  BY DEF async_push
<1> QED BY <1>9, <1>1, <1>4, <1>5, <1>6, <1>7 DEF OnTypeOK, Machine, CloudType, PastType,
   Unfrozen, Ends, Restores

\* A package is uploaded.
LEMMA AsyncUploadStep ==
  ASSUME OnTypeOK, NEW m \in Peers, AsyncUpload(m)
  PROVE  /\ OnTypeOK' /\ pv[m].pc = "upload"
         /\ Step(m, "mark", pv[m].has, pv[m].mark, pv[m].bk, pv[m].bkMark, pv[m].got,
                        pv[m].sess, pv[m].todo, pv[m].next)
         /\ Server(Session.id, Session.st, Session.step, Session.master, Session.up, Session.down,
                   {Uploaded(p, pv[m].next) : p \in cloud.pkgs})
         /\ UNCHANGED past /\ UNCHANGED utc
<1> DEFINE r == [pv[m] EXCEPT !.pc = "mark"]
<1>1. /\ pv[m] \in Machine /\ Session \in SessionType /\ (pv[m].frozen => pv[m].pc \in SessionPcs)
  BY DEF OnTypeOK, Session, AsyncUpload, Machine, SessionType
<1>2. pv' = [pv EXCEPT ![m] = r]
  BY DEF AsyncUpload
<1>3. r \in Machine /\ (r.frozen => r.pc \in SessionPcs)
  BY <1>1, PlaceNames DEF Machine, SessionPcs, AsyncUpload
<1>4. /\ Step(m, r.pc, r.has, r.mark, r.bk, r.bkMark, r.got, r.sess, r.todo, r.next)
      /\ pv' \in [Peers -> Machine] /\ Unfrozen'
  BY <1>2, <1>3, Moves
<1>5. Server(Session.id, Session.st, Session.step, Session.master, Session.up, Session.down,
                {Uploaded(p, pv[m].next) : p \in cloud.pkgs}) /\ cloud' \in CloudType
  <2> DEFINE k == {Uploaded(p, pv[m].next) : p \in cloud.pkgs}
  <2>1. cloud' = [cloud EXCEPT !.pkgs = k]
    BY DEF AsyncUpload, Uploaded
  <2>2. k \in SUBSET Package
    BY <1>1, UploadedFields DEF OnTypeOK
  <2> QED BY <2>1, <2>2, PackagesMove
<1>6. UNCHANGED past /\ past' \in PastType
  BY DEF AsyncUpload, OnTypeOK, PastType
<1>7. utc' \in 0..MaxUtc /\ UNCHANGED utc
  BY DEF AsyncUpload, OnTypeOK
<1>9. pv[m].pc = "upload"
  BY DEF AsyncUpload
<1> QED BY <1>9, <1>1, <1>4, <1>5, <1>6, <1>7 DEF OnTypeOK, Machine, CloudType, PastType,
   Unfrozen, Ends, Restores

\* The marker of a package is stored.
LEMMA AsyncMarkStep ==
  ASSUME OnTypeOK, NEW m \in Peers, AsyncMark(m)
  PROVE  /\ OnTypeOK' /\ pv[m].pc = "mark"
         /\ Step(m, "idle", pv[m].has, pv[m].next, pv[m].bk, pv[m].bkMark, {}, 0, {},
                        pv[m].next)
         /\ UNCHANGED cloud
         /\ UNCHANGED past /\ UNCHANGED utc
<1> DEFINE r == Ended([pv[m] EXCEPT !.mark = pv[m].next])
<1>1. /\ pv[m] \in Machine /\ Session \in SessionType /\ (pv[m].frozen => pv[m].pc \in SessionPcs)
  BY DEF OnTypeOK, Session, AsyncMark, Machine, SessionType
<1>2. pv' = [pv EXCEPT ![m] = r]
  BY DEF AsyncMark
<1>3. r \in Machine /\ (r.frozen => r.pc \in SessionPcs)
  BY <1>1, PlaceNames, EndedFields DEF Machine, SessionPcs, AsyncMark
<1>4. /\ Step(m, r.pc, r.has, r.mark, r.bk, r.bkMark, r.got, r.sess, r.todo, r.next)
      /\ pv' \in [Peers -> Machine] /\ Unfrozen'
  BY <1>2, <1>3, Moves
<1>5. UNCHANGED cloud /\ cloud' \in CloudType
  BY DEF AsyncMark, OnTypeOK, CloudType
<1>6. UNCHANGED past /\ past' \in PastType
  BY DEF AsyncMark, OnTypeOK, PastType
<1>7. utc' \in 0..MaxUtc /\ UNCHANGED utc
  BY DEF AsyncMark, OnTypeOK
<1>8. /\ r.pc = "idle" /\ r.got = {} /\ r.sess = 0 /\ r.todo = {} /\ r.next = pv[m].next
      /\ r.bk = pv[m].bk /\ r.bkMark = pv[m].bkMark
      /\ r.has = pv[m].has /\ r.mark = pv[m].next
  <2>1. [pv[m] EXCEPT !.mark = pv[m].next] \in Machine
    BY <1>1 DEF Machine
  <2> QED BY <1>1, <2>1, EndedFields DEF Machine
<1>9. pv[m].pc = "mark"
  BY DEF AsyncMark
<1> QED BY <1>9, <1>1, <1>4, <1>5, <1>6, <1>7, <1>8 DEF OnTypeOK, Machine, CloudType, PastType,
   Unfrozen, Ends, Restores
\* A sync starts, by packages or as a session.
LEMMA TriggerStep ==
  ASSUME OnTypeOK, NEW m \in Peers, handle_online_trigger_sync(m)
  PROVE  /\ OnTypeOK' /\ pv[m].pc = "idle"
         /\ \E pc \in {"pull", "enter"} :
              Step(m, pc, pv[m].has, pv[m].mark, pv[m].bk, pv[m].bkMark, pv[m].got, pv[m].sess,
                   pv[m].todo, pv[m].next)
         /\ UNCHANGED cloud /\ History(past.done, past.all, past.late, past.made) /\ UNCHANGED utc
<1>1. PICK pc \in {"pull", "enter"} : pv' = [pv EXCEPT ![m].pc = pc]
  BY DEF handle_online_trigger_sync
<1> DEFINE r == [pv[m] EXCEPT !.pc = pc]
<1>2. /\ pv' = [pv EXCEPT ![m] = r] /\ pv[m] \in Machine
      /\ pv[m].pc = "idle" /\ (pv[m].frozen => pv[m].pc \in SessionPcs)
  BY <1>1 DEF OnTypeOK, handle_online_trigger_sync
<1>3. r \in Machine /\ (r.frozen => r.pc \in SessionPcs)
  BY <1>2, PlaceNames DEF Machine, SessionPcs
<1>4. /\ Step(m, r.pc, r.has, r.mark, r.bk, r.bkMark, r.got, r.sess, r.todo, r.next)
      /\ pv' \in [Peers -> Machine] /\ Unfrozen'
  BY <1>2, <1>3, Moves
<1>5. past' = [past EXCEPT !.starts = past.starts + 1] /\ past.starts + 1 \in Nat
  BY MoreTyped DEF handle_online_trigger_sync
<1>6. past' \in PastType /\ History(past.done, past.all, past.late, past.made)
  BY <1>5 DEF OnTypeOK, PastType, History
<1>7. UNCHANGED <<cloud, utc>>
  BY DEF handle_online_trigger_sync
<1>8. Step(m, pc, pv[m].has, pv[m].mark, pv[m].bk, pv[m].bkMark, pv[m].got, pv[m].sess, pv[m].todo,
           pv[m].next)
  BY <1>2, <1>4 DEF Machine
<1> QED BY <1>1, <1>2, <1>4, <1>6, <1>7, <1>8 DEF OnTypeOK, PastType, Unfrozen

\* What create_session answers: a new session, the other machine's, or none.
Creates(m) ==
  /\ Session.st \in {"none", "failed", "done"} /\ past.made < MaxSessions
  /\ Step(m, "wait_peer", pv[m].has, pv[m].mark, pv[m].bk, pv[m].bkMark, pv[m].got, past.made + 1,
          pv[m].todo, pv[m].next)
  /\ Server(past.made + 1, "awaiting", 0, m, {}, {}, cloud.pkgs)
  /\ History(past.done, {}, past.late, past.made + 1)

Joins(m) ==
  /\ Session.st = "awaiting" /\ Session.master # m
  /\ Step(m, "freeze", pv[m].has, pv[m].mark, pv[m].bk, pv[m].bkMark, pv[m].got, Session.id,
          pv[m].todo, pv[m].next)
  /\ Server(Session.id, "active", Session.step, Session.master, Session.up, Session.down, cloud.pkgs)
  /\ UNCHANGED past

Declined(m) == Ends(m) /\ UNCHANGED <<cloud, past>>

\* create_session: the machine makes a session, joins one, or is turned away.
LEMMA CreateStep ==
  ASSUME OnTypeOK, NEW m \in Peers, create_session(m)
  PROVE  /\ OnTypeOK' /\ pv[m].pc = "enter" /\ UNCHANGED utc
         /\ Creates(m) \/ Joins(m) \/ Declined(m)
<1>1. /\ pv[m] \in Machine /\ Session \in SessionType /\ pv[m].pc = "enter" /\ UNCHANGED utc
      /\ pv[m].frozen => pv[m].pc \in SessionPcs
      /\ past.made \in 0..MaxSessions
  BY DEF OnTypeOK, Session, create_session
<1>2. CASE /\ Session.st \in {"none", "failed", "done"} /\ past.made < MaxSessions
           /\ cloud' = [cloud EXCEPT !.sess = [id |-> past.made + 1, st |-> "awaiting", step |-> 0,
                                               master |-> m, up |-> {}, down |-> {}]]
           /\ past' = [past EXCEPT !.made = @ + 1, !.all = {}]
           /\ pv' = [pv EXCEPT ![m] = [@ EXCEPT !.pc = "wait_peer", !.sess = past.made + 1]]
  <2> DEFINE r == [pv[m] EXCEPT !.pc = "wait_peer", !.sess = past.made + 1]
             s == [id |-> past.made + 1, st |-> "awaiting", step |-> 0, master |-> m, up |-> {},
                   down |-> {}]
  <2>1. past.made + 1 \in 0..MaxSessions
    BY <1>1, <1>2, OnAssumption
  <2>2. r \in Machine /\ (r.frozen => r.pc \in SessionPcs)
    BY <1>1, <2>1, PlaceNames DEF Machine, SessionPcs
  <2>3. /\ Step(m, r.pc, r.has, r.mark, r.bk, r.bkMark, r.got, r.sess, r.todo, r.next)
        /\ pv' \in [Peers -> Machine] /\ Unfrozen'
    BY <1>2, <2>2, Moves
  <2>4. s \in SessionType
    BY <2>1, StageNames, PlaceNames DEF SessionType
  <2>5. Server(s.id, s.st, s.step, s.master, s.up, s.down, cloud.pkgs) /\ cloud' \in CloudType
    BY <1>2, <2>4, ServerMoves
  <2>6. past' = [past EXCEPT !.made = past.made + 1, !.all = {}]
    BY <1>2
  <2>7. past' \in PastType /\ History(past.done, {}, past.late, past.made + 1)
    BY <2>1, <2>6, PlaceNames DEF OnTypeOK, PastType, History
  <2>8. Creates(m)
    BY <1>1, <1>2, <2>3, <2>5, <2>7 DEF Creates, Machine
  <2> QED BY <1>1, <2>3, <2>5, <2>7, <2>8 DEF OnTypeOK, CloudType, PastType, Unfrozen
<1>3. CASE /\ Session.st = "awaiting" /\ Session.master # m
           /\ cloud' = [cloud EXCEPT !.sess.st = "active"]
           /\ pv' = [pv EXCEPT ![m] = [@ EXCEPT !.pc = "freeze", !.sess = Session.id]]
           /\ UNCHANGED past
  <2> DEFINE r == [pv[m] EXCEPT !.pc = "freeze", !.sess = Session.id]
             s == [Session EXCEPT !.st = "active"]
  <2>1. Session.id \in 0..MaxSessions
    BY <1>1 DEF SessionType
  <2>2. r \in Machine /\ (r.frozen => r.pc \in SessionPcs)
    BY <1>1, <2>1, PlaceNames DEF Machine, SessionPcs
  <2>3. /\ Step(m, r.pc, r.has, r.mark, r.bk, r.bkMark, r.got, r.sess, r.todo, r.next)
        /\ pv' \in [Peers -> Machine] /\ Unfrozen'
    BY <1>3, <2>2, Moves
  <2>4. cloud' = [cloud EXCEPT !.sess = s]
    BY <1>3 DEF Session
  <2>5. s \in SessionType
    BY <1>1, StageNames DEF SessionType
  <2>6. Server(s.id, s.st, s.step, s.master, s.up, s.down, cloud.pkgs) /\ cloud' \in CloudType
    BY <2>4, <2>5, ServerMoves
  <2>7. Joins(m)
    BY <1>1, <1>3, <2>3, <2>6 DEF Joins, Machine, SessionType
  <2> QED BY <1>1, <1>3, <2>3, <2>6, <2>7 DEF OnTypeOK, CloudType, Unfrozen
<1>4. CASE pv' = [pv EXCEPT ![m] = Ended(@)] /\ UNCHANGED <<cloud, past>>
  <2> DEFINE r == Ended(pv[m])
  <2>1. r \in Machine /\ (r.frozen => r.pc \in SessionPcs)
    BY <1>1, EndedFields
  <2>2. /\ Step(m, r.pc, r.has, r.mark, r.bk, r.bkMark, r.got, r.sess, r.todo, r.next)
        /\ pv' \in [Peers -> Machine] /\ Unfrozen'
    BY <1>4, <2>1, Moves
  <2>3. Declined(m)
    BY <1>1, <1>4, <2>2, EndedFields DEF Declined, Ends
  <2> QED BY <1>1, <1>4, <2>2, <2>3 DEF OnTypeOK, Unfrozen
<1> QED BY <1>2, <1>3, <1>4 DEF create_session

\* The server gives up.
LEMMA ExpiresStep ==
  ASSUME OnTypeOK, Expires
  PROVE  /\ OnTypeOK' /\ UNCHANGED <<pv, utc, past>>
         /\ Session.st \in {"awaiting", "active"}
         /\ Server(Session.id, "failed", Session.step, Session.master, Session.up, Session.down,
                   cloud.pkgs)
<1> DEFINE s == [Session EXCEPT !.st = "failed"]
<1>1. cloud' = [cloud EXCEPT !.sess = s] /\ Session \in SessionType
  BY DEF Session, OnTypeOK, Expires
<1>2. s \in SessionType
  BY <1>1, StageNames DEF SessionType
<1>3. Server(s.id, s.st, s.step, s.master, s.up, s.down, cloud.pkgs) /\ cloud' \in CloudType
  BY <1>1, <1>2, ServerMoves
<1> QED BY <1>1, <1>3 DEF SessionType, OnTypeOK, CloudType, Expires

\* The roles are kept.
LEMMA RolesKept ==
  ASSUME OnInv, [OnNext]_onVars
  PROVE  Roles'
<1>1. CASE UNCHANGED onVars
  BY <1>1 DEF OnInv, onVars, Roles, Numbers, MasterAt, SlaveAt, In, Master, Slave, Session
<1>2. CASE Expires
  BY <1>2, ExpiresStep DEF OnInv, Step, Server, History, Ends, Restores, Cancelled, Creates,
     Joins, Declined, Roles, Numbers, MasterAt, SlaveAt, In, Master, Slave, Live, Session,
     SessionPcs, OnTypeOK, DoneWith
<1>3. ASSUME NEW m \in Peers, EditRow(m)
      PROVE  Roles'
  BY <1>3, EditRowStep DEF OnInv, Step, Server, History, Ends, Restores, Cancelled, Creates,
     Joins, Declined, Roles, Numbers, MasterAt, SlaveAt, In, Master, Slave, Live, Session,
     SessionPcs, OnTypeOK, DoneWith
<1>4. ASSUME NEW m \in Peers, handle_online_trigger_sync(m)
      PROVE  Roles'
  BY <1>4, TriggerStep DEF OnInv, Step, Server, History, Ends, Restores, Cancelled, Creates,
     Joins, Declined, Roles, Numbers, MasterAt, SlaveAt, In, Master, Slave, Live, Session,
     SessionPcs, OnTypeOK, DoneWith
<1>5. ASSUME NEW m \in Peers, create_session(m)
      PROVE  Roles'
  <2>1. OnTypeOK /\ OnTypeOK' /\ Roles
    BY <1>5, CreateStep DEF OnInv
  <2> USE <1>5, <2>1, CreateStep, Counts, CountsNext, TwoPeers DEF Step, Server, History, Ends,
     Creates, Joins, Declined, Roles, In, Master, Slave, Live, SessionPcs, Session
  <2>2. ASSUME NEW n \in Peers
        PROVE  Numbers(n)'
    <3>1. CASE Creates(m)
      BY <2>2, <3>1 DEF Numbers
    <3>2. CASE Joins(m)
      BY <2>2, <3>2 DEF Numbers
    <3>3. CASE Declined(m)
      BY <2>2, <3>3 DEF Numbers
    <3> QED BY <3>1, <3>2, <3>3 DEF Creates, Joins, Declined
  <2>3. ASSUME NEW n \in Peers
        PROVE  MasterAt(n)'
    BY <2>3 DEF Numbers, MasterAt, SlaveAt
  <2>4. ASSUME NEW n \in Peers
        PROVE  SlaveAt(n)'
    BY <2>4 DEF Numbers, MasterAt, SlaveAt
  <2>5. /\ (Session.id = past.made)' /\ (Session.id > 0 => Session.master \in Peers)'
        /\ (Session.st = "awaiting" => Session.step = 0)' /\ (Session.st = "none" <=> Session.id = 0)'
        /\ (Session.id = 0 => Session.step = 0)'
    BY DEF Numbers, SlaveAt, MasterAt
  <2> QED BY <2>2, <2>3, <2>4, <2>5 DEF Roles
<1>6. ASSUME NEW m \in Peers, wait_for_peer(m)
      PROVE  Roles'
  BY <1>6, wait_for_peerStep DEF OnInv, Step, Server, History, Ends, Restores, Cancelled, Creates,
     Joins, Declined, Roles, Numbers, MasterAt, SlaveAt, In, Master, Slave, Live, Session,
     SessionPcs, OnTypeOK, DoneWith
<1>7. ASSUME NEW m \in Peers, Freeze5(m)
      PROVE  Roles'
  BY <1>7, Freeze5Step DEF OnInv, Step, Server, History, Ends, Restores, Cancelled, Creates,
     Joins, Declined, Roles, Numbers, MasterAt, SlaveAt, In, Master, Slave, Live, Session,
     SessionPcs, OnTypeOK, DoneWith
<1>8. ASSUME NEW m \in Peers, SlaveUploads(m)
      PROVE  Roles'
  <2>1. OnTypeOK /\ OnTypeOK' /\ Roles
    BY <1>8, SlaveUploadsStep DEF OnInv
  <2> USE <1>8, <2>1, SlaveUploadsStep, Counts, CountsNext, TwoPeers DEF Step, Server, History,
     Ends, Creates, Joins, Declined, Roles, In, Master, Slave, Live, SessionPcs, Session
  <2>2. ASSUME NEW n \in Peers
        PROVE  Numbers(n)'
    BY <2>2 DEF Numbers, MasterAt, SlaveAt
  <2>3. ASSUME NEW n \in Peers
        PROVE  MasterAt(n)'
    BY <2>3 DEF Numbers, MasterAt, SlaveAt
  <2>4. ASSUME NEW n \in Peers
        PROVE  SlaveAt(n)'
    BY <2>4 DEF Numbers, MasterAt, SlaveAt
  <2>5. /\ (Session.id = past.made)' /\ (Session.id > 0 => Session.master \in Peers)'
        /\ (Session.st = "awaiting" => Session.step = 0)' /\ (Session.st = "none" <=> Session.id = 0)'
        /\ (Session.id = 0 => Session.step = 0)'
    BY DEF Numbers, SlaveAt, MasterAt
  <2> QED BY <2>2, <2>3, <2>4, <2>5 DEF Roles
<1>9. ASSUME NEW m \in Peers, MasterDownloads(m)
      PROVE  Roles'
  <2>1. OnTypeOK /\ OnTypeOK' /\ Roles
    BY <1>9, MasterDownloadsStep DEF OnInv
  <2> USE <1>9, <2>1, MasterDownloadsStep, Counts, CountsNext, TwoPeers DEF Step, Server, History,
     Ends, Creates, Joins, Declined, Roles, In, Master, Slave, Live, SessionPcs, Session
  <2>2. ASSUME NEW n \in Peers
        PROVE  Numbers(n)'
    BY <2>2 DEF Numbers, MasterAt, SlaveAt
  <2>3. ASSUME NEW n \in Peers
        PROVE  MasterAt(n)'
    BY <2>3 DEF Numbers, MasterAt, SlaveAt
  <2>4. ASSUME NEW n \in Peers
        PROVE  SlaveAt(n)'
    BY <2>4 DEF Numbers, MasterAt, SlaveAt
  <2>5. /\ (Session.id = past.made)' /\ (Session.id > 0 => Session.master \in Peers)'
        /\ (Session.st = "awaiting" => Session.step = 0)' /\ (Session.st = "none" <=> Session.id = 0)'
        /\ (Session.id = 0 => Session.step = 0)'
    BY DEF Numbers, SlaveAt, MasterAt
  <2> QED BY <2>2, <2>3, <2>4, <2>5 DEF Roles
<1>10. ASSUME NEW m \in Peers, MasterMerges(m)
      PROVE  Roles'
  BY <1>10, MasterMergesStep DEF OnInv, Step, Server, History, Ends, Restores, Cancelled, Creates,
     Joins, Declined, Roles, Numbers, MasterAt, SlaveAt, In, Master, Slave, Live, Session,
     SessionPcs, OnTypeOK, DoneWith
<1>11. ASSUME NEW m \in Peers, MasterMarks(m)
      PROVE  Roles'
  BY <1>11, MasterMarksStep DEF OnInv, Step, Server, History, Ends, Restores, Cancelled, Creates,
     Joins, Declined, Roles, Numbers, MasterAt, SlaveAt, In, Master, Slave, Live, Session,
     SessionPcs, OnTypeOK, DoneWith
<1>12. ASSUME NEW m \in Peers, MasterUploads(m)
      PROVE  Roles'
  BY <1>12, MasterUploadsStep DEF OnInv, Step, Server, History, Ends, Restores, Cancelled,
     Creates, Joins, Declined, Roles, Numbers, MasterAt, SlaveAt, In, Master, Slave, Live,
     Session, SessionPcs, OnTypeOK, DoneWith
<1>13. ASSUME NEW m \in Peers, SlaveImports(m)
      PROVE  Roles'
  <2>1. /\ pv'[m].pc = "s13" /\ pv'[m].sess = pv[m].sess /\ UNCHANGED cloud
        /\ \A n \in Peers : n # m => pv'[n] = pv[n]
        /\ past'.done = past.done /\ past'.made = past.made
        /\ pv[m].pc = "s11" /\ Live(m) /\ Session.step >= 11 /\ OnTypeOK /\ Roles
    BY <1>13, SlaveImportsStep DEF OnInv, Step, History
  <2> USE <2>1, Counts DEF Roles, In, Master, Slave, Live, SessionPcs, Session
  <2>2. ASSUME NEW n \in Peers
        PROVE  (Numbers(n) /\ MasterAt(n) /\ SlaveAt(n))'
    <3>1. CASE n = m
      BY <3>1 DEF Numbers, MasterAt, SlaveAt
    <3>2. CASE n # m
      BY <3>2 DEF Numbers, MasterAt, SlaveAt
    <3> QED BY <3>1, <3>2
  <2> QED BY <2>2 DEF Roles
<1>14. ASSUME NEW m \in Peers, SlaveReports(m)
      PROVE  Roles'
  <2>1. OnTypeOK /\ OnTypeOK' /\ Roles
    BY <1>14, SlaveReportsStep DEF OnInv
  <2> USE <1>14, <2>1, SlaveReportsStep, Counts, CountsNext, TwoPeers, DoneField DEF Step, Server,
     History, Ends, Creates, Joins, Declined, Roles, In, Master, Slave, Live, SessionPcs, Session
  <2>2. ASSUME NEW n \in Peers
        PROVE  Numbers(n)'
    BY <2>2 DEF Numbers, MasterAt, SlaveAt
  <2>3. ASSUME NEW n \in Peers
        PROVE  MasterAt(n)'
    BY <2>3 DEF Numbers, MasterAt, SlaveAt
  <2>4. ASSUME NEW n \in Peers
        PROVE  SlaveAt(n)'
    <3>1. CASE n = m
      BY <2>4, <3>1, SMTT(20) DEF Numbers, MasterAt, SlaveAt
    <3>2. CASE n # m
      BY <2>4, <3>2, SMTT(20) DEF Numbers, MasterAt, SlaveAt
    <3> QED BY <3>1, <3>2
  <2>5. /\ (Session.id = past.made)' /\ (Session.id > 0 => Session.master \in Peers)'
        /\ (Session.st = "awaiting" => Session.step = 0)' /\ (Session.st = "none" <=> Session.id = 0)'
        /\ (Session.id = 0 => Session.step = 0)'
    BY DEF Numbers, SlaveAt, MasterAt
  <2> QED BY <2>2, <2>3, <2>4, <2>5 DEF Roles
<1>15. ASSUME NEW m \in Peers, MasterEnds(m)
      PROVE  Roles'
  <2>1. OnTypeOK /\ OnTypeOK' /\ Roles
    BY <1>15, MasterEndsStep DEF OnInv
  <2> USE <1>15, <2>1, MasterEndsStep, Counts, CountsNext, TwoPeers, DoneField DEF Step, Server,
     History, Ends, Creates, Joins, Declined, Roles, In, Master, Slave, Live, SessionPcs, Session
  <2>2. ASSUME NEW n \in Peers
        PROVE  Numbers(n)'
    BY <2>2 DEF Numbers, MasterAt, SlaveAt
  <2>3. ASSUME NEW n \in Peers
        PROVE  MasterAt(n)'
    BY <2>3 DEF Numbers, MasterAt, SlaveAt
  <2>4. ASSUME NEW n \in Peers
        PROVE  SlaveAt(n)'
    BY <2>4 DEF Numbers, MasterAt, SlaveAt
  <2>5. /\ (Session.id = past.made)' /\ (Session.id > 0 => Session.master \in Peers)'
        /\ (Session.st = "awaiting" => Session.step = 0)' /\ (Session.st = "none" <=> Session.id = 0)'
        /\ (Session.id = 0 => Session.step = 0)'
    BY DEF Numbers, SlaveAt, MasterAt
  <2> QED BY <2>2, <2>3, <2>4, <2>5 DEF Roles
<1>16. ASSUME NEW m \in Peers, MergeFails(m)
      PROVE  Roles'
  BY <1>16, MergeFailsStep DEF OnInv, Step, Server, History, Ends, Restores, Cancelled, Creates,
     Joins, Declined, Roles, Numbers, MasterAt, SlaveAt, In, Master, Slave, Live, Session,
     SessionPcs, OnTypeOK, DoneWith
<1>17. ASSUME NEW m \in Peers, SessionGone(m)
      PROVE  Roles'
  BY <1>17, SessionGoneStep DEF OnInv, Step, Server, History, Ends, Restores, Cancelled, Creates,
     Joins, Declined, Roles, Numbers, MasterAt, SlaveAt, In, Master, Slave, Live, Session,
     SessionPcs, OnTypeOK, DoneWith
<1>18. ASSUME NEW m \in Peers, NetworkFails(m)
      PROVE  Roles'
  BY <1>18, NetworkFailsStep DEF OnInv, Step, Server, History, Ends, Restores, Cancelled, Creates,
     Joins, Declined, Roles, Numbers, MasterAt, SlaveAt, In, Master, Slave, Live, Session,
     SessionPcs, OnTypeOK, DoneWith
<1>19. ASSUME NEW m \in Peers, async_pending(m)
      PROVE  Roles'
  BY <1>19, async_pendingStep DEF OnInv, Step, Server, History, Ends, Restores, Cancelled,
     Creates, Joins, Declined, Roles, Numbers, MasterAt, SlaveAt, In, Master, Slave, Live,
     Session, SessionPcs, OnTypeOK, DoneWith
<1>20. ASSUME NEW m \in Peers, async_reject(m)
      PROVE  Roles'
  BY <1>20, async_rejectStep, SMTT(20) DEF OnInv, Step, Server, History, Ends, Restores, Cancelled,
     Creates, Joins, Declined, Roles, Numbers, MasterAt, SlaveAt, In, Master, Slave, Live, Session,
     SessionPcs, OnTypeOK, DoneWith
<1>21. ASSUME NEW m \in Peers, DownloadFails(m)
      PROVE  Roles'
  BY <1>21, DownloadFailsStep DEF OnInv, Step, Server, History, Ends, Restores, Cancelled,
     Creates, Joins, Declined, Roles, Numbers, MasterAt, SlaveAt, In, Master, Slave, Live,
     Session, SessionPcs, OnTypeOK, DoneWith
<1>22. ASSUME NEW m \in Peers, AsyncMerge(m)
      PROVE  Roles'
  BY <1>22, AsyncMergeStep DEF OnInv, Step, Server, History, Ends, Restores, Cancelled, Creates,
     Joins, Declined, Roles, Numbers, MasterAt, SlaveAt, In, Master, Slave, Live, Session,
     SessionPcs, OnTypeOK, DoneWith
<1>23. ASSUME NEW m \in Peers, AsyncMergeFails(m)
      PROVE  Roles'
  BY <1>23, AsyncMergeFailsStep DEF OnInv, Step, Server, History, Ends, Restores, Cancelled,
     Creates, Joins, Declined, Roles, Numbers, MasterAt, SlaveAt, In, Master, Slave, Live,
     Session, SessionPcs, OnTypeOK, DoneWith
<1>24. ASSUME NEW m \in Peers, async_ack(m)
      PROVE  Roles'
  BY <1>24, async_ackStep DEF OnInv, Step, Server, History, Ends, Restores, Cancelled, Creates,
     Joins, Declined, Roles, Numbers, MasterAt, SlaveAt, In, Master, Slave, Live, Session,
     SessionPcs, OnTypeOK, DoneWith
<1>25. ASSUME NEW m \in Peers, async_push(m)
      PROVE  Roles'
  BY <1>25, async_pushStep DEF OnInv, Step, Server, History, Ends, Restores, Cancelled, Creates,
     Joins, Declined, Roles, Numbers, MasterAt, SlaveAt, In, Master, Slave, Live, Session,
     SessionPcs, OnTypeOK, DoneWith
<1>26. ASSUME NEW m \in Peers, AsyncUpload(m)
      PROVE  Roles'
  BY <1>26, AsyncUploadStep DEF OnInv, Step, Server, History, Ends, Restores, Cancelled, Creates,
     Joins, Declined, Roles, Numbers, MasterAt, SlaveAt, In, Master, Slave, Live, Session,
     SessionPcs, OnTypeOK, DoneWith
<1>27. ASSUME NEW m \in Peers, AsyncMark(m)
      PROVE  Roles'
  BY <1>27, AsyncMarkStep DEF OnInv, Step, Server, History, Ends, Restores, Cancelled, Creates,
     Joins, Declined, Roles, Numbers, MasterAt, SlaveAt, In, Master, Slave, Live, Session,
     SessionPcs, OnTypeOK, DoneWith
<1> QED BY <1>1, <1>2, <1>3, <1>4, <1>5, <1>6, <1>7, <1>8, <1>9, <1>10, <1>11, <1>12, <1>13,
   <1>14, <1>15, <1>16, <1>17, <1>18, <1>19, <1>20, <1>21, <1>22, <1>23, <1>24, <1>25, <1>26,
   <1>27 DEF OnNext
\* What a machine keeps whatever fails, it keeps.
LEMMA SureGrows ==
  ASSUME OnInv, [OnNext]_onVars
  PROVE  \A n \in Peers : Sure(n) \subseteq Sure(n)'
<1>1. CASE UNCHANGED onVars
  BY <1>1 DEF OnInv, onVars, Sure
<1>2. CASE Expires
  BY <1>2, ExpiresStep DEF OnInv, Step, Server, Ends, Restores, Creates, Joins, Declined, Sure,
     Told, Backed
<1>3. ASSUME NEW m \in Peers, EditRow(m)
      PROVE  \A n \in Peers : Sure(n) \subseteq Sure(n)'
  BY <1>3, EditRowStep DEF OnInv, Step, Server, Ends, Restores, Creates, Joins, Declined, Sure,
     Told, Backed
<1>4. ASSUME NEW m \in Peers, handle_online_trigger_sync(m)
      PROVE  \A n \in Peers : Sure(n) \subseteq Sure(n)'
  BY <1>4, TriggerStep DEF OnInv, Step, Server, Ends, Restores, Creates, Joins, Declined, Sure,
     Told, Backed
<1>5. ASSUME NEW m \in Peers, create_session(m)
      PROVE  \A n \in Peers : Sure(n) \subseteq Sure(n)'
  BY <1>5, CreateStep DEF OnInv, Step, Server, Ends, Restores, Creates, Joins, Declined, Sure,
     Told, Backed
<1>6. ASSUME NEW m \in Peers, wait_for_peer(m)
      PROVE  \A n \in Peers : Sure(n) \subseteq Sure(n)'
  BY <1>6, wait_for_peerStep DEF OnInv, Step, Server, Ends, Restores, Creates, Joins, Declined,
     Sure, Told, Backed
<1>7. ASSUME NEW m \in Peers, Freeze5(m)
      PROVE  \A n \in Peers : Sure(n) \subseteq Sure(n)'
  BY <1>7, Freeze5Step DEF OnInv, Step, Server, Ends, Restores, Creates, Joins, Declined, Sure,
     Told, Backed
<1>8. ASSUME NEW m \in Peers, SlaveUploads(m)
      PROVE  \A n \in Peers : Sure(n) \subseteq Sure(n)'
  <2>1. /\ pv[m].pc = "s6" /\ pv'[m].pc = "s11" /\ pv'[m].has = pv[m].has
        /\ \A n \in Peers : n # m => pv'[n] = pv[n]
    BY <1>8, SlaveUploadsStep DEF OnInv, Step
  <2> QED BY <2>1 DEF Sure
<1>9. ASSUME NEW m \in Peers, MasterDownloads(m)
      PROVE  \A n \in Peers : Sure(n) \subseteq Sure(n)'
  BY <1>9, MasterDownloadsStep DEF OnInv, Step, Server, Ends, Restores, Creates, Joins, Declined,
     Sure, Told, Backed
<1>10. ASSUME NEW m \in Peers, MasterMerges(m)
      PROVE  \A n \in Peers : Sure(n) \subseteq Sure(n)'
  <2>1. /\ pv[m].pc = "m9" /\ pv'[m].pc = "m10" /\ pv'[m].bk = pv[m].bk
        /\ \A n \in Peers : n # m => pv'[n] = pv[n]
    BY <1>10, MasterMergesStep DEF OnInv, Step
  <2> QED BY <2>1 DEF Sure
<1>11. ASSUME NEW m \in Peers, MasterMarks(m)
      PROVE  \A n \in Peers : Sure(n) \subseteq Sure(n)'
  BY <1>11, MasterMarksStep DEF OnInv, Step, Server, Ends, Restores, Creates, Joins, Declined,
     Sure, Told, Backed
<1>12. ASSUME NEW m \in Peers, MasterUploads(m)
      PROVE  \A n \in Peers : Sure(n) \subseteq Sure(n)'
  BY <1>12, MasterUploadsStep DEF OnInv, Step, Server, Ends, Restores, Creates, Joins, Declined,
     Sure, Told, Backed
<1>13. ASSUME NEW m \in Peers, SlaveImports(m)
      PROVE  \A n \in Peers : Sure(n) \subseteq Sure(n)'
  <2>1. /\ pv[m].pc = "s11" /\ pv'[m].pc = "s13" /\ pv[m].has \subseteq pv'[m].has
        /\ \A n \in Peers : n # m => pv'[n] = pv[n]
    BY <1>13, SlaveImportsStep DEF OnInv, Step
  <2> QED BY <2>1 DEF Sure
<1>14. ASSUME NEW m \in Peers, SlaveReports(m)
      PROVE  \A n \in Peers : Sure(n) \subseteq Sure(n)'
  BY <1>14, SlaveReportsStep DEF OnInv, Step, Server, Ends, Restores, Creates, Joins, Declined,
     Sure, Told, Backed
<1>15. ASSUME NEW m \in Peers, MasterEnds(m)
      PROVE  \A n \in Peers : Sure(n) \subseteq Sure(n)'
  BY <1>15, MasterEndsStep DEF OnInv, Step, Server, Ends, Restores, Creates, Joins, Declined,
     Sure, Told, Backed
<1>16. ASSUME NEW m \in Peers, MergeFails(m)
      PROVE  \A n \in Peers : Sure(n) \subseteq Sure(n)'
  BY <1>16, MergeFailsStep DEF OnInv, Step, Server, Ends, Restores, Creates, Joins, Declined,
     Sure, Told, Backed
<1>17. ASSUME NEW m \in Peers, SessionGone(m)
      PROVE  \A n \in Peers : Sure(n) \subseteq Sure(n)'
  BY <1>17, SessionGoneStep DEF OnInv, Step, Server, Ends, Restores, Creates, Joins, Declined,
     Sure, Told, Backed
<1>18. ASSUME NEW m \in Peers, NetworkFails(m)
      PROVE  \A n \in Peers : Sure(n) \subseteq Sure(n)'
  BY <1>18, NetworkFailsStep DEF OnInv, Step, Server, Ends, Restores, Creates, Joins, Declined,
     Sure, Told, Backed
<1>19. ASSUME NEW m \in Peers, async_pending(m)
      PROVE  \A n \in Peers : Sure(n) \subseteq Sure(n)'
  BY <1>19, async_pendingStep DEF OnInv, Step, Server, Ends, Restores, Creates, Joins, Declined,
     Sure, Told, Backed
<1>20. ASSUME NEW m \in Peers, async_reject(m)
      PROVE  \A n \in Peers : Sure(n) \subseteq Sure(n)'
  BY <1>20, async_rejectStep DEF OnInv, Step, Server, Ends, Restores, Creates, Joins, Declined,
     Sure, Told, Backed
<1>21. ASSUME NEW m \in Peers, DownloadFails(m)
      PROVE  \A n \in Peers : Sure(n) \subseteq Sure(n)'
  BY <1>21, DownloadFailsStep DEF OnInv, Step, Server, Ends, Restores, Creates, Joins, Declined,
     Sure, Told, Backed
<1>22. ASSUME NEW m \in Peers, AsyncMerge(m)
      PROVE  \A n \in Peers : Sure(n) \subseteq Sure(n)'
  BY <1>22, AsyncMergeStep DEF OnInv, Step, Server, Ends, Restores, Creates, Joins, Declined,
     Sure, Told, Backed
<1>23. ASSUME NEW m \in Peers, AsyncMergeFails(m)
      PROVE  \A n \in Peers : Sure(n) \subseteq Sure(n)'
  BY <1>23, AsyncMergeFailsStep DEF OnInv, Step, Server, Ends, Restores, Creates, Joins, Declined,
     Sure, Told, Backed
<1>24. ASSUME NEW m \in Peers, async_ack(m)
      PROVE  \A n \in Peers : Sure(n) \subseteq Sure(n)'
  BY <1>24, async_ackStep DEF OnInv, Step, Server, Ends, Restores, Creates, Joins, Declined, Sure,
     Told, Backed
<1>25. ASSUME NEW m \in Peers, async_push(m)
      PROVE  \A n \in Peers : Sure(n) \subseteq Sure(n)'
  BY <1>25, async_pushStep DEF OnInv, Step, Server, Ends, Restores, Creates, Joins, Declined,
     Sure, Told, Backed
<1>26. ASSUME NEW m \in Peers, AsyncUpload(m)
      PROVE  \A n \in Peers : Sure(n) \subseteq Sure(n)'
  BY <1>26, AsyncUploadStep DEF OnInv, Step, Server, Ends, Restores, Creates, Joins, Declined,
     Sure, Told, Backed
<1>27. ASSUME NEW m \in Peers, AsyncMark(m)
      PROVE  \A n \in Peers : Sure(n) \subseteq Sure(n)'
  BY <1>27, AsyncMarkStep DEF OnInv, Step, Server, Ends, Restores, Creates, Joins, Declined, Sure,
     Told, Backed
<1> QED BY <1>1, <1>2, <1>3, <1>4, <1>5, <1>6, <1>7, <1>8, <1>9, <1>10, <1>11, <1>12, <1>13,
   <1>14, <1>15, <1>16, <1>17, <1>18, <1>19, <1>20, <1>21, <1>22, <1>23, <1>24, <1>25, <1>26,
   <1>27 DEF OnNext
\* The edits stay where they are.
LEMMA CarriedKept ==
  ASSUME OnInv, [OnNext]_onVars
  PROVE  Carried'
<1>1. CASE UNCHANGED onVars
  BY <1>1 DEF OnInv, onVars, Carried, SlaveCarries, MasterCarries, In, Master, Slave, Session, Sure
<1>2. CASE Expires
  BY <1>2, ExpiresStep DEF OnInv, Step, Server, History, Ends, Restores, Cancelled, Creates,
     Joins, Declined, Carried, SlaveCarries, MasterCarries, Roles, Numbers, MasterAt, SlaveAt, In,
     Master, Slave, Live, Session, SessionPcs, Sure
<1>3. ASSUME NEW m \in Peers, EditRow(m)
      PROVE  Carried'
  <2>1. /\ Roles /\ Carried /\ \A n \in Peers : n # m => pv'[n] = pv[n]
        /\ \A n \in Peers : Sure(n) \subseteq Sure(n)'
        /\ pv'[m].pc = pv[m].pc /\ pv'[m].sess = pv[m].sess /\ UNCHANGED cloud
        /\ past'.all = past.all
        /\ pv'[m].has = pv[m].has \cup {utc + 1} /\ pv'[m].got = pv[m].got
        /\ pv'[m].mark = pv[m].mark /\ pv'[m].bk = pv[m].bk /\ OnTypeOK
        /\ pv[m].mark = NoMark \/ utc + 1 >= pv[m].mark
    BY <1>3, SureGrows, EditRowStep, EditIsNewer DEF OnInv, Step, Server, History, Ends
  <2> USE <2>1, Counts, TwoPeers DEF Carried, In, Master, Slave, Live, Session, SessionPcs
  <2>3. ASSUME NEW n \in Peers
        PROVE  SlaveCarries(n)'
    <3>1. CASE n = m
      BY <2>3, <3>1 DEF Roles, SlaveAt, Numbers, SlaveCarries, Sure
    <3>2. CASE n # m
      BY <2>3, <3>2, SMTT(20) DEF Roles, Numbers, SlaveAt, MasterAt, SlaveCarries, Sure
    <3> QED BY <3>1, <3>2, SMTT(20)
  <2>4. ASSUME NEW n \in Peers
        PROVE  MasterCarries(n)'
    <3>1. CASE n = m
      BY <2>4, <3>1, SMTT(20) DEF Roles, MasterAt, Numbers, MasterCarries, Sure
    <3>2. CASE n # m
      BY <2>4, <3>2 DEF Roles, MasterAt, SlaveAt, MasterCarries, Sure
    <3> QED BY <3>1, <3>2, SMTT(20)
  <2>5. /\ (Session.step < 6 => Session.up = {} /\ past.all = {})'
        /\ (Session.step >= 11 => past.all \subseteq Session.down /\ Session.up \subseteq Session.down)'
    BY DEF Roles, MasterAt, SlaveAt, MasterCarries, SlaveCarries
  <2> QED BY <2>3, <2>4, <2>5 DEF Carried
<1>4. ASSUME NEW m \in Peers, handle_online_trigger_sync(m)
      PROVE  Carried'
  BY <1>4, TriggerStep DEF OnInv, Step, Server, History, Ends, Restores, Cancelled, Creates,
     Joins, Declined, Carried, SlaveCarries, MasterCarries, Roles, Numbers, MasterAt, SlaveAt, In,
     Master, Slave, Live, Session, SessionPcs, Sure
<1>5. ASSUME NEW m \in Peers, create_session(m)
      PROVE  Carried'
  <2>1. CASE Creates(m)
    <3>1. /\ Roles /\ Carried /\ \A n \in Peers : n # m => pv'[n] = pv[n]
          /\ \A n \in Peers : Sure(n) \subseteq Sure(n)'
          /\ pv'[m].pc = "wait_peer" /\ pv'[m].sess = past.made + 1 /\ past'.all = {}
          /\ past'.made = past.made + 1
          /\ Session'.step = 0 /\ Session'.up = {} /\ Session'.master = m
          /\ Session'.id = past.made + 1
          /\ OnTypeOK
      BY <1>5, SureGrows, <2>1, CreateStep DEF OnInv, Creates, Step, Server, History, Ends
    <3> USE <3>1, Counts, TwoPeers DEF Carried, In, Master, Slave, Live, Session, SessionPcs
    <3>3. ASSUME NEW n \in Peers
          PROVE  SlaveCarries(n)'
      <4>1. CASE n = m
        BY <3>3, <4>1 DEF Roles, SlaveAt, Numbers, SlaveCarries, Sure
      <4>2. CASE n # m
        BY <3>3, <4>2 DEF Roles, Numbers, SlaveAt, MasterAt, SlaveCarries, Sure
      <4> QED BY <4>1, <4>2, SMTT(20)
    <3>4. ASSUME NEW n \in Peers
          PROVE  MasterCarries(n)'
      <4>1. CASE n = m
        BY <3>4, <4>1, SMTT(20) DEF Roles, MasterAt, Numbers, MasterCarries, Sure
      <4>2. CASE n # m
        BY <3>4, <4>2 DEF Roles, MasterAt, SlaveAt, MasterCarries, Sure
      <4> QED BY <4>1, <4>2, SMTT(20)
    <3>5. /\ (Session.step < 6 => Session.up = {} /\ past.all = {})'
          /\ (Session.step >= 11 => past.all \subseteq Session.down /\ Session.up \subseteq Session.down)'
      BY DEF Roles, MasterAt, SlaveAt, MasterCarries, SlaveCarries
    <3> QED BY <3>3, <3>4, <3>5 DEF Carried
  <2>2. CASE Joins(m)
    <3>1. /\ Roles /\ Carried /\ \A n \in Peers : n # m => pv'[n] = pv[n]
          /\ \A n \in Peers : Sure(n) \subseteq Sure(n)'
          /\ pv'[m].pc = "freeze" /\ pv'[m].sess = Session.id /\ UNCHANGED past
          /\ pv'[m].has = pv[m].has
          /\ pv[m].pc = "enter"
          /\ Session.master # m /\ Session'.step = Session.step /\ Session'.up = Session.up
          /\ Session'.down = Session.down
          /\ Session'.master = Session.master /\ Session'.id = Session.id /\ OnTypeOK
      BY <1>5, SureGrows, <2>2, CreateStep DEF OnInv, Joins, Step, Server, History, Ends
    <3> USE <3>1, Counts, TwoPeers DEF Carried, In, Master, Slave, Live, Session, SessionPcs
    <3>3. ASSUME NEW n \in Peers
          PROVE  SlaveCarries(n)'
      <4>1. CASE n = m
        BY <3>3, <4>1 DEF Roles, SlaveAt, Numbers, SlaveCarries, Sure
      <4>2. CASE n # m
        BY <3>3, <4>2 DEF Roles, Numbers, SlaveAt, MasterAt, SlaveCarries, Sure
      <4> QED BY <4>1, <4>2, SMTT(20)
    <3>4. ASSUME NEW n \in Peers
          PROVE  MasterCarries(n)'
      <4>1. CASE n = m
        BY <3>4, <4>1, SMTT(20) DEF Roles, MasterAt, Numbers, MasterCarries, Sure
      <4>2. CASE n # m
        BY <3>4, <4>2 DEF Roles, MasterAt, SlaveAt, MasterCarries, Sure
      <4> QED BY <4>1, <4>2, SMTT(20)
    <3>5. /\ (Session.step < 6 => Session.up = {} /\ past.all = {})'
          /\ (Session.step >= 11 => past.all \subseteq Session.down /\ Session.up \subseteq Session.down)'
      BY DEF Roles, MasterAt, SlaveAt, MasterCarries, SlaveCarries
    <3> QED BY <3>3, <3>4, <3>5 DEF Carried
  <2>3. CASE Declined(m)
    <3>1. /\ Roles /\ Carried /\ \A n \in Peers : n # m => pv'[n] = pv[n]
          /\ \A n \in Peers : Sure(n) \subseteq Sure(n)'
          /\ pv'[m].pc = "idle" /\ pv'[m].sess = 0 /\ UNCHANGED <<cloud, past>>
          /\ pv'[m].has = pv[m].has
          /\ OnTypeOK
      BY <1>5, SureGrows, <2>3, CreateStep DEF OnInv, Declined, Step, Server, History, Ends
    <3> USE <3>1, Counts, TwoPeers DEF Carried, In, Master, Slave, Live, Session, SessionPcs
    <3>3. ASSUME NEW n \in Peers
          PROVE  SlaveCarries(n)'
      <4>1. CASE n = m
        BY <3>3, <4>1 DEF Roles, SlaveAt, Numbers, SlaveCarries, Sure
      <4>2. CASE n # m
        BY <3>3, <4>2 DEF Roles, Numbers, SlaveAt, MasterAt, SlaveCarries, Sure
      <4> QED BY <4>1, <4>2, SMTT(20)
    <3>4. ASSUME NEW n \in Peers
          PROVE  MasterCarries(n)'
      <4>1. CASE n = m
        BY <3>4, <4>1, SMTT(20) DEF Roles, MasterAt, Numbers, MasterCarries, Sure
      <4>2. CASE n # m
        BY <3>4, <4>2 DEF Roles, MasterAt, SlaveAt, MasterCarries, Sure
      <4> QED BY <4>1, <4>2, SMTT(20)
    <3>5. /\ (Session.step < 6 => Session.up = {} /\ past.all = {})'
          /\ (Session.step >= 11 => past.all \subseteq Session.down /\ Session.up \subseteq Session.down)'
      BY DEF Roles, MasterAt, SlaveAt, MasterCarries, SlaveCarries
    <3> QED BY <3>3, <3>4, <3>5 DEF Carried
  <2> QED BY <1>5, <2>1, <2>2, <2>3, CreateStep DEF OnInv
<1>6. ASSUME NEW m \in Peers, wait_for_peer(m)
      PROVE  Carried'
  BY <1>6, wait_for_peerStep DEF OnInv, Step, Server, History, Ends, Restores, Cancelled, Creates,
     Joins, Declined, Carried, SlaveCarries, MasterCarries, Roles, Numbers, MasterAt, SlaveAt, In,
     Master, Slave, Live, Session, SessionPcs, Sure
<1>7. ASSUME NEW m \in Peers, Freeze5(m)
      PROVE  Carried'
  BY <1>7, Freeze5Step DEF OnInv, Step, Server, History, Ends, Restores, Cancelled, Creates,
     Joins, Declined, Carried, SlaveCarries, MasterCarries, Roles, Numbers, MasterAt, SlaveAt, In,
     Master, Slave, Live, Session, SessionPcs, Sure
<1>8. ASSUME NEW m \in Peers, SlaveUploads(m)
      PROVE  Carried'
  <2>1. OnTypeOK /\ OnTypeOK' /\ Roles /\ Carried /\ Told /\ Packed
    BY <1>8, SlaveUploadsStep DEF OnInv
  <2>2. \A n \in Peers : Sure(n) \subseteq Sure(n)'
    BY SureGrows
  <2> USE <1>8, <2>1, <2>2, SlaveUploadsStep, Counts, CountsNext, TwoPeers DEF Step, Server,
     History, Ends, Restores, Cancelled, Carried, In, Master, Slave, Live, Session, SessionPcs
  <2>3. ASSUME NEW n \in Peers
        PROVE  SlaveCarries(n)'
    <3>1. CASE n = m
      BY <2>3, <3>1 DEF Roles, SlaveAt, Numbers, SlaveCarries, Sure
    <3>2. CASE n # m
      BY <2>3, <3>2, SMTT(20) DEF Roles, Numbers, SlaveAt, MasterAt, SlaveCarries, Sure
    <3> QED BY <3>1, <3>2, SMTT(20)
  <2>4. ASSUME NEW n \in Peers
        PROVE  MasterCarries(n)'
    <3>1. CASE n = m
      BY <2>4, <3>1, SMTT(20) DEF Roles, MasterAt, Numbers, MasterCarries, Sure
    <3>2. CASE n # m
      BY <2>4, <3>2 DEF Roles, MasterAt, SlaveAt, MasterCarries, Sure
    <3> QED BY <3>1, <3>2, SMTT(20)
  <2>5. /\ (Session.step < 6 => Session.up = {} /\ past.all = {})'
        /\ (Session.step >= 11 => past.all \subseteq Session.down /\ Session.up \subseteq Session.down)'
    BY DEF Roles, MasterAt, SlaveAt, MasterCarries, SlaveCarries
  <2> QED BY <2>3, <2>4, <2>5 DEF Carried
<1>9. ASSUME NEW m \in Peers, MasterDownloads(m)
      PROVE  Carried'
  BY <1>9, MasterDownloadsStep DEF OnInv, Step, Server, History, Ends, Restores, Cancelled,
     Creates, Joins, Declined, Carried, SlaveCarries, MasterCarries, Roles, Numbers, MasterAt,
     SlaveAt, In, Master, Slave, Live, Session, SessionPcs, Sure
<1>10. ASSUME NEW m \in Peers, MasterMerges(m)
      PROVE  Carried'
  BY <1>10, MasterMergesStep DEF OnInv, Step, Server, History, Ends, Restores, Cancelled, Creates,
     Joins, Declined, Carried, SlaveCarries, MasterCarries, Roles, Numbers, MasterAt, SlaveAt, In,
     Master, Slave, Live, Session, SessionPcs, Sure
<1>11. ASSUME NEW m \in Peers, MasterMarks(m)
      PROVE  Carried'
  BY <1>11, MasterMarksStep, SecondIsNoMark DEF OnInv, Step, Server, History, Ends, Restores,
     Cancelled, Creates, Joins, Declined, Carried, SlaveCarries, MasterCarries, Roles, Numbers,
     MasterAt, SlaveAt, In, Master, Slave, Live, Session, SessionPcs, Sure
<1>12. ASSUME NEW m \in Peers, MasterUploads(m)
      PROVE  Carried'
  BY <1>12, MasterUploadsStep DEF OnInv, Step, Server, History, Ends, Restores, Cancelled,
     Creates, Joins, Declined, Carried, SlaveCarries, MasterCarries, Roles, Numbers, MasterAt,
     SlaveAt, In, Master, Slave, Live, Session, SessionPcs, Sure
<1>13. ASSUME NEW m \in Peers, SlaveImports(m)
      PROVE  Carried'
  <2>1. /\ Roles /\ Carried /\ \A n \in Peers : n # m => pv'[n] = pv[n]
        /\ \A n \in Peers : Sure(n) \subseteq Sure(n)'
        /\ pv'[m].pc = "s13" /\ pv'[m].sess = pv[m].sess /\ UNCHANGED cloud /\ past'.all = past.all
        /\ pv'[m].has = pv[m].has \cup Session.down
        /\ pv[m].pc = "s11" /\ Live(m) /\ Session.step >= 11 /\ OnTypeOK
    BY <1>13, SureGrows, SlaveImportsStep DEF OnInv, Step, Server, History, Ends
  <2> USE <2>1, Counts, TwoPeers DEF Carried, In, Master, Slave, Live, Session, SessionPcs
  <2>3. ASSUME NEW n \in Peers
        PROVE  SlaveCarries(n)'
    <3>1. CASE n = m
      BY <2>3, <3>1 DEF Roles, SlaveAt, Numbers, SlaveCarries, Sure
    <3>2. CASE n # m
      BY <2>3, <3>2, SMTT(20) DEF Roles, Numbers, SlaveAt, MasterAt, SlaveCarries, Sure
    <3> QED BY <3>1, <3>2, SMTT(20)
  <2>4. ASSUME NEW n \in Peers
        PROVE  MasterCarries(n)'
    <3>1. CASE n = m
      BY <2>4, <3>1, SMTT(20) DEF Roles, MasterAt, Numbers, MasterCarries, Sure
    <3>2. CASE n # m
      BY <2>4, <3>2 DEF Roles, MasterAt, SlaveAt, MasterCarries, Sure
    <3> QED BY <3>1, <3>2, SMTT(20)
  <2>5. /\ (Session.step < 6 => Session.up = {} /\ past.all = {})'
        /\ (Session.step >= 11 => past.all \subseteq Session.down /\ Session.up \subseteq Session.down)'
    BY DEF Roles, MasterAt, SlaveAt, MasterCarries, SlaveCarries
  <2> QED BY <2>3, <2>4, <2>5 DEF Carried
<1>14. ASSUME NEW m \in Peers, SlaveReports(m)
      PROVE  Carried'
  <2>1. OnTypeOK /\ OnTypeOK' /\ Roles /\ Carried /\ Told /\ Packed
    BY <1>14, SlaveReportsStep DEF OnInv
  <2>2. \A n \in Peers : Sure(n) \subseteq Sure(n)'
    BY SureGrows
  <2> USE <1>14, <2>1, <2>2, SlaveReportsStep, Counts, CountsNext, TwoPeers DEF Step, Server,
     History, Ends, Restores, Cancelled, Carried, In, Master, Slave, Live, Session, SessionPcs
  <2>3. ASSUME NEW n \in Peers
        PROVE  SlaveCarries(n)'
    <3>1. CASE n = m
      BY <2>3, <3>1 DEF Roles, SlaveAt, Numbers, SlaveCarries, Sure
    <3>2. CASE n # m
      BY <2>3, <3>2, SMTT(20) DEF Roles, Numbers, SlaveAt, MasterAt, SlaveCarries, Sure
    <3> QED BY <3>1, <3>2, SMTT(20)
  <2>4. ASSUME NEW n \in Peers
        PROVE  MasterCarries(n)'
    <3>1. CASE n = m
      BY <2>4, <3>1, SMTT(20) DEF Roles, MasterAt, Numbers, MasterCarries, Sure
    <3>2. CASE n # m
      BY <2>4, <3>2 DEF Roles, MasterAt, SlaveAt, MasterCarries, Sure
    <3> QED BY <3>1, <3>2, SMTT(20)
  <2>5. /\ (Session.step < 6 => Session.up = {} /\ past.all = {})'
        /\ (Session.step >= 11 => past.all \subseteq Session.down /\ Session.up \subseteq Session.down)'
    BY DEF Roles, MasterAt, SlaveAt, MasterCarries, SlaveCarries
  <2> QED BY <2>3, <2>4, <2>5 DEF Carried
<1>15. ASSUME NEW m \in Peers, MasterEnds(m)
      PROVE  Carried'
  BY <1>15, MasterEndsStep DEF OnInv, Step, Server, History, Ends, Restores, Cancelled, Creates,
     Joins, Declined, Carried, SlaveCarries, MasterCarries, Roles, Numbers, MasterAt, SlaveAt, In,
     Master, Slave, Live, Session, SessionPcs, Sure
<1>16. ASSUME NEW m \in Peers, MergeFails(m)
      PROVE  Carried'
  BY <1>16, MergeFailsStep DEF OnInv, Step, Server, History, Ends, Restores, Cancelled, Creates,
     Joins, Declined, Carried, SlaveCarries, MasterCarries, Roles, Numbers, MasterAt, SlaveAt, In,
     Master, Slave, Live, Session, SessionPcs, Sure
<1>17. ASSUME NEW m \in Peers, SessionGone(m)
      PROVE  Carried'
  <2>1. OnTypeOK /\ OnTypeOK' /\ Roles /\ Carried /\ Told /\ Packed
    BY <1>17, SessionGoneStep DEF OnInv
  <2>2. \A n \in Peers : Sure(n) \subseteq Sure(n)'
    BY SureGrows
  <2> USE <1>17, <2>1, <2>2, SessionGoneStep, Counts, CountsNext, TwoPeers DEF Step, Server,
     History, Ends, Restores, Cancelled, Carried, In, Master, Slave, Live, Session, SessionPcs
  <2>3. ASSUME NEW n \in Peers
        PROVE  SlaveCarries(n)'
    <3>1. CASE n = m
      BY <2>3, <3>1 DEF Roles, SlaveAt, Numbers, SlaveCarries, Sure
    <3>2. CASE n # m
      BY <2>3, <3>2, SMTT(20) DEF Roles, Numbers, SlaveAt, MasterAt, SlaveCarries, Sure
    <3> QED BY <3>1, <3>2, SMTT(20)
  <2>4. ASSUME NEW n \in Peers
        PROVE  MasterCarries(n)'
    <3>1. CASE n = m
      BY <2>4, <3>1, SMTT(20) DEF Roles, MasterAt, Numbers, MasterCarries, Sure
    <3>2. CASE n # m
      BY <2>4, <3>2 DEF Roles, MasterAt, SlaveAt, MasterCarries, Sure
    <3> QED BY <3>1, <3>2, SMTT(20)
  <2>5. /\ (Session.step < 6 => Session.up = {} /\ past.all = {})'
        /\ (Session.step >= 11 => past.all \subseteq Session.down /\ Session.up \subseteq Session.down)'
    BY DEF Roles, MasterAt, SlaveAt, MasterCarries, SlaveCarries
  <2> QED BY <2>3, <2>4, <2>5 DEF Carried
<1>18. ASSUME NEW m \in Peers, NetworkFails(m)
      PROVE  Carried'
  <2>1. OnTypeOK /\ OnTypeOK' /\ Roles /\ Carried /\ Told /\ Packed
    BY <1>18, NetworkFailsStep DEF OnInv
  <2>2. \A n \in Peers : Sure(n) \subseteq Sure(n)'
    BY SureGrows
  <2> USE <1>18, <2>1, <2>2, NetworkFailsStep, Counts, CountsNext, TwoPeers DEF Step, Server,
     History, Ends, Restores, Cancelled, Carried, In, Master, Slave, Live, Session, SessionPcs
  <2>3. ASSUME NEW n \in Peers
        PROVE  SlaveCarries(n)'
    <3>1. CASE n = m
      BY <2>3, <3>1 DEF Roles, SlaveAt, Numbers, SlaveCarries, Sure
    <3>2. CASE n # m
      BY <2>3, <3>2, SMTT(20) DEF Roles, Numbers, SlaveAt, MasterAt, SlaveCarries, Sure
    <3> QED BY <3>1, <3>2, SMTT(20)
  <2>4. ASSUME NEW n \in Peers
        PROVE  MasterCarries(n)'
    <3>1. CASE n = m
      BY <2>4, <3>1, SMTT(20) DEF Roles, MasterAt, Numbers, MasterCarries, Sure
    <3>2. CASE n # m
      BY <2>4, <3>2 DEF Roles, MasterAt, SlaveAt, MasterCarries, Sure
    <3> QED BY <3>1, <3>2, SMTT(20)
  <2>5. /\ (Session.step < 6 => Session.up = {} /\ past.all = {})'
        /\ (Session.step >= 11 => past.all \subseteq Session.down /\ Session.up \subseteq Session.down)'
    BY DEF Roles, MasterAt, SlaveAt, MasterCarries, SlaveCarries
  <2> QED BY <2>3, <2>4, <2>5 DEF Carried
<1>19. ASSUME NEW m \in Peers, async_pending(m)
      PROVE  Carried'
  BY <1>19, async_pendingStep DEF OnInv, Step, Server, History, Ends, Restores, Cancelled,
     Creates, Joins, Declined, Carried, SlaveCarries, MasterCarries, Roles, Numbers, MasterAt,
     SlaveAt, In, Master, Slave, Live, Session, SessionPcs, Sure
<1>20. ASSUME NEW m \in Peers, async_reject(m)
      PROVE  Carried'
  <2>1. OnTypeOK /\ OnTypeOK' /\ Roles /\ Carried /\ Told /\ Packed
    BY <1>20, async_rejectStep DEF OnInv
  <2>2. \A n \in Peers : Sure(n) \subseteq Sure(n)'
    BY SureGrows
  <2> USE <1>20, <2>1, <2>2, async_rejectStep, Counts, CountsNext, TwoPeers DEF Step, Server,
     History, Ends, Restores, Cancelled, Carried, In, Master, Slave, Live, Session, SessionPcs
  <2>3. ASSUME NEW n \in Peers
        PROVE  SlaveCarries(n)'
    <3>1. CASE n = m
      BY <2>3, <3>1 DEF Roles, SlaveAt, Numbers, SlaveCarries, Sure
    <3>2. CASE n # m
      BY <2>3, <3>2, SMTT(20) DEF Roles, Numbers, SlaveAt, MasterAt, SlaveCarries, Sure
    <3> QED BY <3>1, <3>2, SMTT(20)
  <2>4. ASSUME NEW n \in Peers
        PROVE  MasterCarries(n)'
    <3>1. CASE n = m
      BY <2>4, <3>1, SMTT(20) DEF Roles, MasterAt, Numbers, MasterCarries, Sure
    <3>2. CASE n # m
      BY <2>4, <3>2 DEF Roles, MasterAt, SlaveAt, MasterCarries, Sure
    <3> QED BY <3>1, <3>2, SMTT(20)
  <2>5. /\ (Session.step < 6 => Session.up = {} /\ past.all = {})'
        /\ (Session.step >= 11 => past.all \subseteq Session.down /\ Session.up \subseteq Session.down)'
    BY DEF Roles, MasterAt, SlaveAt, MasterCarries, SlaveCarries
  <2> QED BY <2>3, <2>4, <2>5 DEF Carried
<1>21. ASSUME NEW m \in Peers, DownloadFails(m)
      PROVE  Carried'
  <2>1. OnTypeOK /\ OnTypeOK' /\ Roles /\ Carried /\ Told /\ Packed
    BY <1>21, DownloadFailsStep DEF OnInv
  <2>2. \A n \in Peers : Sure(n) \subseteq Sure(n)'
    BY SureGrows
  <2> USE <1>21, <2>1, <2>2, DownloadFailsStep, Counts, CountsNext, TwoPeers DEF Step, Server,
     History, Ends, Restores, Cancelled, Carried, In, Master, Slave, Live, Session, SessionPcs
  <2>3. ASSUME NEW n \in Peers
        PROVE  SlaveCarries(n)'
    <3>1. CASE n = m
      BY <2>3, <3>1 DEF Roles, SlaveAt, Numbers, SlaveCarries, Sure
    <3>2. CASE n # m
      BY <2>3, <3>2, SMTT(20) DEF Roles, Numbers, SlaveAt, MasterAt, SlaveCarries, Sure
    <3> QED BY <3>1, <3>2, SMTT(20)
  <2>4. ASSUME NEW n \in Peers
        PROVE  MasterCarries(n)'
    <3>1. CASE n = m
      BY <2>4, <3>1, SMTT(20) DEF Roles, MasterAt, Numbers, MasterCarries, Sure
    <3>2. CASE n # m
      BY <2>4, <3>2 DEF Roles, MasterAt, SlaveAt, MasterCarries, Sure
    <3> QED BY <3>1, <3>2, SMTT(20)
  <2>5. /\ (Session.step < 6 => Session.up = {} /\ past.all = {})'
        /\ (Session.step >= 11 => past.all \subseteq Session.down /\ Session.up \subseteq Session.down)'
    BY DEF Roles, MasterAt, SlaveAt, MasterCarries, SlaveCarries
  <2> QED BY <2>3, <2>4, <2>5 DEF Carried
<1>22. ASSUME NEW m \in Peers, AsyncMerge(m)
      PROVE  Carried'
  BY <1>22, AsyncMergeStep DEF OnInv, Step, Server, History, Ends, Restores, Cancelled, Creates,
     Joins, Declined, Carried, SlaveCarries, MasterCarries, Roles, Numbers, MasterAt, SlaveAt, In,
     Master, Slave, Live, Session, SessionPcs, Sure
<1>23. ASSUME NEW m \in Peers, AsyncMergeFails(m)
      PROVE  Carried'
  BY <1>23, AsyncMergeFailsStep DEF OnInv, Step, Server, History, Ends, Restores, Cancelled,
     Creates, Joins, Declined, Carried, SlaveCarries, MasterCarries, Roles, Numbers, MasterAt,
     SlaveAt, In, Master, Slave, Live, Session, SessionPcs, Sure
<1>24. ASSUME NEW m \in Peers, async_ack(m)
      PROVE  Carried'
  <2>1. OnTypeOK /\ OnTypeOK' /\ Roles /\ Carried /\ Told /\ Packed
    BY <1>24, async_ackStep DEF OnInv
  <2>2. \A n \in Peers : Sure(n) \subseteq Sure(n)'
    BY SureGrows
  <2> USE <1>24, <2>1, <2>2, async_ackStep, Counts, CountsNext, TwoPeers DEF Step, Server,
     History, Ends, Restores, Cancelled, Carried, In, Master, Slave, Live, Session, SessionPcs
  <2>3. ASSUME NEW n \in Peers
        PROVE  SlaveCarries(n)'
    <3>1. CASE n = m
      BY <2>3, <3>1 DEF Roles, SlaveAt, Numbers, SlaveCarries, Sure
    <3>2. CASE n # m
      BY <2>3, <3>2, SMTT(20) DEF Roles, Numbers, SlaveAt, MasterAt, SlaveCarries, Sure
    <3> QED BY <3>1, <3>2, SMTT(20)
  <2>4. ASSUME NEW n \in Peers
        PROVE  MasterCarries(n)'
    <3>1. CASE n = m
      BY <2>4, <3>1, SMTT(20) DEF Roles, MasterAt, Numbers, MasterCarries, Sure
    <3>2. CASE n # m
      BY <2>4, <3>2 DEF Roles, MasterAt, SlaveAt, MasterCarries, Sure
    <3> QED BY <3>1, <3>2, SMTT(20)
  <2>5. /\ (Session.step < 6 => Session.up = {} /\ past.all = {})'
        /\ (Session.step >= 11 => past.all \subseteq Session.down /\ Session.up \subseteq Session.down)'
    BY DEF Roles, MasterAt, SlaveAt, MasterCarries, SlaveCarries
  <2> QED BY <2>3, <2>4, <2>5 DEF Carried
<1>25. ASSUME NEW m \in Peers, async_push(m)
      PROVE  Carried'
  BY <1>25, async_pushStep DEF OnInv, Step, Server, History, Ends, Restores, Cancelled, Creates,
     Joins, Declined, Carried, SlaveCarries, MasterCarries, Roles, Numbers, MasterAt, SlaveAt, In,
     Master, Slave, Live, Session, SessionPcs, Sure
<1>26. ASSUME NEW m \in Peers, AsyncUpload(m)
      PROVE  Carried'
  BY <1>26, AsyncUploadStep DEF OnInv, Step, Server, History, Ends, Restores, Cancelled, Creates,
     Joins, Declined, Carried, SlaveCarries, MasterCarries, Roles, Numbers, MasterAt, SlaveAt, In,
     Master, Slave, Live, Session, SessionPcs, Sure
<1>27. ASSUME NEW m \in Peers, AsyncMark(m)
      PROVE  Carried'
  BY <1>27, AsyncMarkStep DEF OnInv, Step, Server, History, Ends, Restores, Cancelled, Creates,
     Joins, Declined, Carried, SlaveCarries, MasterCarries, Roles, Numbers, MasterAt, SlaveAt, In,
     Master, Slave, Live, Session, SessionPcs, Sure
<1> QED BY <1>1, <1>2, <1>3, <1>4, <1>5, <1>6, <1>7, <1>8, <1>9, <1>10, <1>11, <1>12, <1>13,
   <1>14, <1>15, <1>16, <1>17, <1>18, <1>19, <1>20, <1>21, <1>22, <1>23, <1>24, <1>25, <1>26,
   <1>27 DEF OnNext
\* The packages, when they and what waits for them stay as they are.
LEMMA PackagesStay ==
  ASSUME OnInv, cloud'.pkgs = cloud.pkgs, utc' \in {utc, utc + 1},
         \A n \in Peers : Sure(n) \subseteq Sure(n)',
         \A n \in Peers : pv'[n].todo \in {pv[n].todo, {}},
         \A n \in Peers : pv'[n].pc \in {"pulling", "ack"}
           => pv[n].pc \in {"pulling", "ack"} /\ pv'[n].todo = pv[n].todo
  PROVE  Packed'
BY Seconds DEF OnInv, Packed, PackagesHold, Awaited, Pending

\* The packages.
LEMMA PackedKept ==
  ASSUME OnInv, [OnNext]_onVars
  PROVE  Packed'
<1>1. CASE UNCHANGED onVars
  BY <1>1 DEF OnInv, onVars, Packed, PackagesHold, Awaited, Pending, Sure
<1>2. CASE Expires
  <2>1. UNCHANGED <<pv, utc>> /\ cloud'.pkgs = cloud.pkgs
    BY <1>2, ExpiresStep DEF OnInv, Server
  <2> QED BY <2>1, SureGrows, PackagesStay
<1>3. ASSUME NEW m \in Peers, EditRow(m)
      PROVE  Packed'
  <2>1. /\ cloud'.pkgs = cloud.pkgs /\ utc' \in {utc, utc + 1}
        /\ \A n \in Peers : pv'[n].todo \in {pv[n].todo, {}}
        /\ \A n \in Peers : pv'[n].pc \in {"pulling", "ack"}
             => pv[n].pc \in {"pulling", "ack"} /\ pv'[n].todo = pv[n].todo
    BY <1>3, EditRowStep DEF OnInv, Step, Server
  <2> QED BY <2>1, SureGrows, PackagesStay
<1>4. ASSUME NEW m \in Peers, handle_online_trigger_sync(m)
      PROVE  Packed'
  <2>1. /\ cloud'.pkgs = cloud.pkgs /\ utc' \in {utc, utc + 1}
        /\ \A n \in Peers : pv'[n].todo \in {pv[n].todo, {}}
        /\ \A n \in Peers : pv'[n].pc \in {"pulling", "ack"}
             => pv[n].pc \in {"pulling", "ack"} /\ pv'[n].todo = pv[n].todo
    BY <1>4, TriggerStep DEF OnInv, Step, Server
  <2> QED BY <2>1, SureGrows, PackagesStay
<1>5. ASSUME NEW m \in Peers, create_session(m)
      PROVE  Packed'
  <2>1. /\ cloud'.pkgs = cloud.pkgs /\ utc' \in {utc, utc + 1}
        /\ \A n \in Peers : pv'[n].todo \in {pv[n].todo, {}}
        /\ \A n \in Peers : pv'[n].pc \in {"pulling", "ack"}
             => pv[n].pc \in {"pulling", "ack"} /\ pv'[n].todo = pv[n].todo
    BY <1>5, CreateStep DEF OnInv, Step, Server, Creates, Joins, Declined, Ends
  <2> QED BY <2>1, SureGrows, PackagesStay
<1>6. ASSUME NEW m \in Peers, wait_for_peer(m)
      PROVE  Packed'
  <2>1. /\ cloud'.pkgs = cloud.pkgs /\ utc' \in {utc, utc + 1}
        /\ \A n \in Peers : pv'[n].todo \in {pv[n].todo, {}}
        /\ \A n \in Peers : pv'[n].pc \in {"pulling", "ack"}
             => pv[n].pc \in {"pulling", "ack"} /\ pv'[n].todo = pv[n].todo
    BY <1>6, wait_for_peerStep DEF OnInv, Step, Server
  <2> QED BY <2>1, SureGrows, PackagesStay
<1>7. ASSUME NEW m \in Peers, Freeze5(m)
      PROVE  Packed'
  <2>1. /\ cloud'.pkgs = cloud.pkgs /\ utc' \in {utc, utc + 1}
        /\ \A n \in Peers : pv'[n].todo \in {pv[n].todo, {}}
        /\ \A n \in Peers : pv'[n].pc \in {"pulling", "ack"}
             => pv[n].pc \in {"pulling", "ack"} /\ pv'[n].todo = pv[n].todo
    BY <1>7, Freeze5Step DEF OnInv, Step, Server
  <2> QED BY <2>1, SureGrows, PackagesStay
<1>8. ASSUME NEW m \in Peers, SlaveUploads(m)
      PROVE  Packed'
  <2>1. /\ cloud'.pkgs = cloud.pkgs /\ utc' \in {utc, utc + 1}
        /\ \A n \in Peers : pv'[n].todo \in {pv[n].todo, {}}
        /\ \A n \in Peers : pv'[n].pc \in {"pulling", "ack"}
             => pv[n].pc \in {"pulling", "ack"} /\ pv'[n].todo = pv[n].todo
    BY <1>8, SlaveUploadsStep DEF OnInv, Step, Server
  <2> QED BY <2>1, SureGrows, PackagesStay
<1>9. ASSUME NEW m \in Peers, MasterDownloads(m)
      PROVE  Packed'
  <2>1. /\ cloud'.pkgs = cloud.pkgs /\ utc' \in {utc, utc + 1}
        /\ \A n \in Peers : pv'[n].todo \in {pv[n].todo, {}}
        /\ \A n \in Peers : pv'[n].pc \in {"pulling", "ack"}
             => pv[n].pc \in {"pulling", "ack"} /\ pv'[n].todo = pv[n].todo
    BY <1>9, MasterDownloadsStep DEF OnInv, Step, Server
  <2> QED BY <2>1, SureGrows, PackagesStay
<1>10. ASSUME NEW m \in Peers, MasterMerges(m)
      PROVE  Packed'
  <2>1. /\ cloud'.pkgs = cloud.pkgs /\ utc' \in {utc, utc + 1}
        /\ \A n \in Peers : pv'[n].todo \in {pv[n].todo, {}}
        /\ \A n \in Peers : pv'[n].pc \in {"pulling", "ack"}
             => pv[n].pc \in {"pulling", "ack"} /\ pv'[n].todo = pv[n].todo
    BY <1>10, MasterMergesStep DEF OnInv, Step, Server
  <2> QED BY <2>1, SureGrows, PackagesStay
<1>11. ASSUME NEW m \in Peers, MasterMarks(m)
      PROVE  Packed'
  <2>1. /\ cloud'.pkgs = cloud.pkgs /\ utc' \in {utc, utc + 1}
        /\ \A n \in Peers : pv'[n].todo \in {pv[n].todo, {}}
        /\ \A n \in Peers : pv'[n].pc \in {"pulling", "ack"}
             => pv[n].pc \in {"pulling", "ack"} /\ pv'[n].todo = pv[n].todo
    BY <1>11, MasterMarksStep DEF OnInv, Step, Server
  <2> QED BY <2>1, SureGrows, PackagesStay
<1>12. ASSUME NEW m \in Peers, MasterUploads(m)
      PROVE  Packed'
  <2>1. /\ cloud'.pkgs = cloud.pkgs /\ utc' \in {utc, utc + 1}
        /\ \A n \in Peers : pv'[n].todo \in {pv[n].todo, {}}
        /\ \A n \in Peers : pv'[n].pc \in {"pulling", "ack"}
             => pv[n].pc \in {"pulling", "ack"} /\ pv'[n].todo = pv[n].todo
    BY <1>12, MasterUploadsStep DEF OnInv, Step, Server
  <2> QED BY <2>1, SureGrows, PackagesStay
<1>13. ASSUME NEW m \in Peers, SlaveImports(m)
      PROVE  Packed'
  <2>1. /\ cloud'.pkgs = cloud.pkgs /\ utc' \in {utc, utc + 1}
        /\ \A n \in Peers : pv'[n].todo \in {pv[n].todo, {}}
        /\ \A n \in Peers : pv'[n].pc \in {"pulling", "ack"}
             => pv[n].pc \in {"pulling", "ack"} /\ pv'[n].todo = pv[n].todo
    BY <1>13, SlaveImportsStep DEF OnInv, Step, Server
  <2> QED BY <2>1, SureGrows, PackagesStay
<1>14. ASSUME NEW m \in Peers, SlaveReports(m)
      PROVE  Packed'
  <2>1. /\ cloud'.pkgs = cloud.pkgs /\ utc' \in {utc, utc + 1}
        /\ \A n \in Peers : pv'[n].todo \in {pv[n].todo, {}}
        /\ \A n \in Peers : pv'[n].pc \in {"pulling", "ack"}
             => pv[n].pc \in {"pulling", "ack"} /\ pv'[n].todo = pv[n].todo
    BY <1>14, SlaveReportsStep DEF OnInv, Step, Server, Ends
  <2> QED BY <2>1, SureGrows, PackagesStay
<1>15. ASSUME NEW m \in Peers, MasterEnds(m)
      PROVE  Packed'
  <2>1. /\ cloud'.pkgs = cloud.pkgs /\ utc' \in {utc, utc + 1}
        /\ \A n \in Peers : pv'[n].todo \in {pv[n].todo, {}}
        /\ \A n \in Peers : pv'[n].pc \in {"pulling", "ack"}
             => pv[n].pc \in {"pulling", "ack"} /\ pv'[n].todo = pv[n].todo
    BY <1>15, MasterEndsStep DEF OnInv, Step, Server, Ends
  <2> QED BY <2>1, SureGrows, PackagesStay
<1>16. ASSUME NEW m \in Peers, MergeFails(m)
      PROVE  Packed'
  <2>1. /\ cloud'.pkgs = cloud.pkgs /\ utc' \in {utc, utc + 1}
        /\ \A n \in Peers : pv'[n].todo \in {pv[n].todo, {}}
        /\ \A n \in Peers : pv'[n].pc \in {"pulling", "ack"}
             => pv[n].pc \in {"pulling", "ack"} /\ pv'[n].todo = pv[n].todo
    BY <1>16, MergeFailsStep DEF OnInv, Step, Server, Ends, Restores, Cancelled
  <2> QED BY <2>1, SureGrows, PackagesStay
<1>17. ASSUME NEW m \in Peers, SessionGone(m)
      PROVE  Packed'
  <2>1. /\ cloud'.pkgs = cloud.pkgs /\ utc' \in {utc, utc + 1}
        /\ \A n \in Peers : pv'[n].todo \in {pv[n].todo, {}}
        /\ \A n \in Peers : pv'[n].pc \in {"pulling", "ack"}
             => pv[n].pc \in {"pulling", "ack"} /\ pv'[n].todo = pv[n].todo
    BY <1>17, SessionGoneStep DEF OnInv, Step, Server, Ends
  <2> QED BY <2>1, SureGrows, PackagesStay
<1>18. ASSUME NEW m \in Peers, NetworkFails(m)
      PROVE  Packed'
  <2>1. /\ cloud'.pkgs = cloud.pkgs /\ utc' \in {utc, utc + 1}
        /\ \A n \in Peers : pv'[n].todo \in {pv[n].todo, {}}
        /\ \A n \in Peers : pv'[n].pc \in {"pulling", "ack"}
             => pv[n].pc \in {"pulling", "ack"} /\ pv'[n].todo = pv[n].todo
    BY <1>18, NetworkFailsStep DEF OnInv, Step, Server, Ends, Cancelled
  <2> QED BY <2>1, SureGrows, PackagesStay
<1>19. ASSUME NEW m \in Peers, async_pending(m)
      PROVE  Packed'
  BY <1>19, async_pendingStep, SureGrows, Seconds, SMTT(20) DEF OnInv, Step, Packed, PackagesHold, Awaited,
     Pending
<1>20. ASSUME NEW m \in Peers, async_reject(m)
      PROVE  Packed'
  <2> DEFINE p == Oldest(m)
  <2>1. /\ p \in cloud.pkgs /\ p.from # m /\ p.from \in Peers /\ p \in Pending(m)
    BY <1>20, async_rejectStep, OldestThere DEF OnInv
  <2>2. /\ cloud'.pkgs = cloud.pkgs \ {p} /\ UNCHANGED utc
        /\ \A n \in Peers : n # m => pv'[n] = pv[n]
        /\ pv'[m].todo = {} /\ pv'[m].pc = "enter"
    BY <1>20, async_rejectStep DEF OnInv, Step, Server, Restores
  <2>3. PackagesHold'
    BY <2>2, SureGrows, Seconds DEF OnInv, Packed, PackagesHold
  <2>4. ASSUME NEW n \in Peers
        PROVE  Awaited(n)'
    <3>1. CASE n = m
      BY <3>1, <2>1, <2>2 DEF OnInv, Packed, PackagesHold, Awaited, Pending
    <3>2. CASE n # m
      <4>1. p.from = n
        BY <2>1, <3>2, TwoPeers
      <4>2. pv'[n] = pv[n]
        BY <2>2, <3>2
      <4> QED BY <4>1, <4>2, <2>2 DEF OnInv, Packed, Awaited, Pending
    <3> QED BY <3>1, <3>2
  <2> QED BY <2>3, <2>4 DEF Packed
<1>21. ASSUME NEW m \in Peers, DownloadFails(m)
      PROVE  Packed'
  <2>1. /\ cloud'.pkgs = cloud.pkgs /\ utc' \in {utc, utc + 1}
        /\ \A n \in Peers : pv'[n].todo \in {pv[n].todo, {}}
        /\ \A n \in Peers : pv'[n].pc \in {"pulling", "ack"}
             => pv[n].pc \in {"pulling", "ack"} /\ pv'[n].todo = pv[n].todo
    BY <1>21, DownloadFailsStep DEF OnInv, Step, Server, Ends
  <2> QED BY <2>1, SureGrows, PackagesStay
<1>22. ASSUME NEW m \in Peers, AsyncMerge(m)
      PROVE  Packed'
  <2>1. /\ cloud'.pkgs = cloud.pkgs /\ utc' \in {utc, utc + 1}
        /\ \A n \in Peers : pv'[n].todo \in {pv[n].todo, {}}
        /\ \A n \in Peers : pv'[n].pc \in {"pulling", "ack"}
             => pv[n].pc \in {"pulling", "ack"} /\ pv'[n].todo = pv[n].todo
    BY <1>22, AsyncMergeStep DEF OnInv, Step, Server
  <2> QED BY <2>1, SureGrows, PackagesStay
<1>23. ASSUME NEW m \in Peers, AsyncMergeFails(m)
      PROVE  Packed'
  <2> DEFINE p == Oldest(m)
  <2>1. /\ p \in cloud.pkgs /\ p.from # m /\ p.from \in Peers /\ p \in Pending(m)
    BY <1>23, AsyncMergeFailsStep, OldestThere DEF OnInv
  <2>2. /\ cloud'.pkgs = cloud.pkgs \ {p} /\ UNCHANGED utc
        /\ \A n \in Peers : n # m => pv'[n] = pv[n]
        /\ pv'[m].todo = {} /\ pv'[m].pc = "idle"
    BY <1>23, AsyncMergeFailsStep DEF OnInv, Step, Server, Restores
  <2>3. PackagesHold'
    BY <2>2, SureGrows, Seconds DEF OnInv, Packed, PackagesHold
  <2>4. ASSUME NEW n \in Peers
        PROVE  Awaited(n)'
    <3>1. CASE n = m
      BY <3>1, <2>1, <2>2 DEF OnInv, Packed, PackagesHold, Awaited, Pending
    <3>2. CASE n # m
      <4>1. p.from = n
        BY <2>1, <3>2, TwoPeers
      <4>2. pv'[n] = pv[n]
        BY <2>2, <3>2
      <4> QED BY <4>1, <4>2, <2>2 DEF OnInv, Packed, Awaited, Pending
    <3> QED BY <3>1, <3>2
  <2> QED BY <2>3, <2>4 DEF Packed
<1>24. ASSUME NEW m \in Peers, async_ack(m)
      PROVE  Packed'
  <2> DEFINE p == Oldest(m)
  <2>1. /\ p \in cloud.pkgs /\ p.from # m /\ p.from \in Peers /\ p \in Pending(m)
    BY <1>24, async_ackStep, OldestThere DEF OnInv
  <2>2. /\ cloud'.pkgs = cloud.pkgs \ {p} /\ UNCHANGED utc
        /\ \A n \in Peers : n # m => pv'[n] = pv[n]
        /\ pv'[m].todo = pv[m].todo \ {p.id}
        /\ (pv'[m].pc \in {"pulling", "ack"} => pv[m].todo \ {p.id} # {})
    BY <1>24, async_ackStep DEF OnInv, Step, Server, Restores
  <2>3. PackagesHold'
    BY <2>2, SureGrows, Seconds DEF OnInv, Packed, PackagesHold
  <2>4. ASSUME NEW n \in Peers
        PROVE  Awaited(n)'
    <3>1. CASE n = m
      BY <3>1, <2>1, <2>2 DEF OnInv, Packed, PackagesHold, Awaited, Pending
    <3>2. CASE n # m
      <4>1. p.from = n
        BY <2>1, <3>2, TwoPeers
      <4>2. pv'[n] = pv[n]
        BY <2>2, <3>2
      <4> QED BY <4>1, <4>2, <2>2 DEF OnInv, Packed, Awaited, Pending
    <3> QED BY <3>1, <3>2
  <2> QED BY <2>3, <2>4 DEF Packed
<1>25. ASSUME NEW m \in Peers, async_push(m)
      PROVE  Packed'
  <2> DEFINE p == NewPackage(m)
  <2>1. /\ p.id = utc + 1 /\ p.from = m /\ p.edits = Delta(m) /\ p.base = pv[m].mark
        /\ p.base = NoMark => p.edits = pv[m].has
        /\ p.edits \subseteq Sure(m) /\ Sure(m) = pv[m].has
    BY <1>25, async_pushStep DEF OnInv, NewPackage, Delta, Sure
  <2>2. /\ cloud'.pkgs = cloud.pkgs \cup {p} /\ utc' = utc + 1
        /\ \A n \in Peers : pv'[n].todo = pv[n].todo
        /\ \A n \in Peers : pv'[n].pc \in {"pulling", "ack"} => pv[n].pc \in {"pulling", "ack"}
    BY <1>25, async_pushStep DEF OnInv, Step, Server
  <2>3. PackagesHold'
    <3>1. ASSUME NEW q \in cloud'.pkgs
          PROVE  q.id <= utc' /\ q.edits \subseteq Sure(q.from)'
      BY <3>1, <2>1, <2>2, SureGrows, Seconds DEF OnInv, Packed, PackagesHold
    <3>2. ASSUME NEW q \in cloud'.pkgs, NEW s \in cloud'.pkgs
          PROVE  /\ q.id = s.id => q = s
                 /\ q.from = s.from /\ q.id < s.id /\ s.base = NoMark => q.edits \subseteq s.edits
      <4>1. \A t \in cloud.pkgs : t.id <= utc /\ t.id \in Nat /\ t.edits \subseteq Sure(t.from)
        BY Seconds DEF OnInv, Packed, PackagesHold
      <4>2. CASE s = p
        BY <4>1, <4>2, <2>1, <2>2, <3>2, Seconds DEF OnInv
      <4>3. CASE s # p /\ q = p
        BY <4>1, <4>3, <2>1, <2>2, <3>2, Seconds DEF OnInv
      <4>4. CASE s # p /\ q # p
        BY <4>4, <2>2, <3>2 DEF OnInv, Packed, PackagesHold
      <4> QED BY <4>2, <4>3, <4>4
    <3> QED BY <3>1, <3>2 DEF PackagesHold
  <2> QED BY <2>2, <2>3 DEF OnInv, Packed, Awaited, Pending
<1>26. ASSUME NEW m \in Peers, AsyncUpload(m)
      PROVE  Packed'
  <2>1. /\ cloud'.pkgs = {Uploaded(p, pv[m].next) : p \in cloud.pkgs} /\ UNCHANGED utc
        /\ \A n \in Peers : pv'[n].todo = pv[n].todo
        /\ \A n \in Peers : pv'[n].pc \in {"pulling", "ack"} => pv[n].pc \in {"pulling", "ack"}
    BY <1>26, AsyncUploadStep DEF OnInv, Step, Server
  <2>2. \A q \in cloud'.pkgs : \E p \in cloud.pkgs :
           /\ q = Uploaded(p, pv[m].next)
           /\ q.id = p.id /\ q.from = p.from /\ q.base = p.base /\ q.edits = p.edits
    BY <2>1, Seconds, UploadedFields DEF OnInv
  <2>3. PackagesHold'
    <3>1. ASSUME NEW q \in cloud'.pkgs
          PROVE  q.id <= utc' /\ q.edits \subseteq Sure(q.from)'
      BY <3>1, <2>1, <2>2, SureGrows, Seconds DEF OnInv, Packed, PackagesHold
    <3>2. ASSUME NEW q \in cloud'.pkgs, NEW s \in cloud'.pkgs
          PROVE  /\ q.id = s.id => q = s
                 /\ q.from = s.from /\ q.id < s.id /\ s.base = NoMark => q.edits \subseteq s.edits
      BY <3>2, <2>2 DEF OnInv, Packed, PackagesHold
    <3> QED BY <3>1, <3>2 DEF PackagesHold
  <2>4. ASSUME NEW n \in Peers
        PROVE  Awaited(n)'
    <3>1. ASSUME NEW i \in pv[n].todo
          PROVE  \E q \in Pending(n)' : q.id = i
      <4>1. PICK p \in cloud.pkgs : p.from # n /\ p.id = i
        BY DEF OnInv, Packed, Awaited, Pending
      <4>2. Uploaded(p, pv[m].next) \in cloud'.pkgs
        BY <2>1, <4>1
      <4> QED BY <4>1, <4>2, Seconds, UploadedFields DEF OnInv, Pending
    <3> QED BY <2>1, <3>1 DEF OnInv, Packed, Awaited
  <2> QED BY <2>3, <2>4 DEF Packed
<1>27. ASSUME NEW m \in Peers, AsyncMark(m)
      PROVE  Packed'
  <2>1. /\ cloud'.pkgs = cloud.pkgs /\ utc' \in {utc, utc + 1}
        /\ \A n \in Peers : pv'[n].todo \in {pv[n].todo, {}}
        /\ \A n \in Peers : pv'[n].pc \in {"pulling", "ack"}
             => pv[n].pc \in {"pulling", "ack"} /\ pv'[n].todo = pv[n].todo
    BY <1>27, AsyncMarkStep DEF OnInv, Step, Server
  <2> QED BY <2>1, SureGrows, PackagesStay
<1> QED BY <1>1, <1>2, <1>3, <1>4, <1>5, <1>6, <1>7, <1>8, <1>9, <1>10, <1>11, <1>12, <1>13,
   <1>14, <1>15, <1>16, <1>17, <1>18, <1>19, <1>20, <1>21, <1>22, <1>23, <1>24, <1>25, <1>26,
   <1>27 DEF OnNext
\* What is carried about is known to a machine, and made before now.
LEMMA EditsDated ==
  ASSUME OnInv, NEW m \in Peers
  PROVE  /\ Sure(m) \subseteq pv[m].has
         /\ \A x \in pv[m].has \cup pv[m].bk : x <= utc
         /\ Slave(m) => \A x \in Session.up : x <= utc
         /\ Master(m) /\ Session.step >= 11 => \A x \in Session.down : x <= utc
         /\ \A p \in cloud.pkgs : p.from = m => \A x \in p.edits : x <= utc
<1>1. Sure(m) \subseteq pv[m].has /\ \A x \in pv[m].has \cup pv[m].bk : x <= utc
  BY DEF OnInv, Told, Backed, Dated, Sure
<1>2. Slave(m) => Session.up \subseteq Sure(m)
  BY DEF OnInv, Carried, SlaveCarries
<1>3. Master(m) /\ Session.step >= 11 => Session.down \subseteq Sure(m)
  BY DEF OnInv, Carried, MasterCarries
<1>4. \A p \in cloud.pkgs : p.from = m => p.edits \subseteq Sure(m)
  BY DEF OnInv, Packed, PackagesHold
<1> QED BY <1>1, <1>2, <1>3, <1>4

\* The oldest package is the one with the smallest second, after a step too.
LEMMA OldestIs ==
  ASSUME OnTypeOK', Packed', NEW m \in Peers, NEW p \in Pending(m)',
         \A q \in Pending(m)' : p.id <= q.id
  PROVE  Oldest(m)' = p
<1>1. \A q \in Pending(m)' : q \in cloud'.pkgs /\ q.id \in Nat
  BY OnAssumption DEF Pending, OnTypeOK, Package, Edits
<1>2. ASSUME NEW q \in Pending(m)', \A s \in Pending(m)' : q.id <= s.id
      PROVE  q = p
  <2>1. q.id <= p.id /\ p.id <= q.id
    BY <1>2
  <2>2. q.id = p.id
    BY <1>1, <2>1
  <2> QED BY <1>1, <2>2 DEF Packed, PackagesHold
<1> QED BY <1>2 DEF Oldest

\* What a marker has overtaken stays overtaken.
LEMMA LateField ==
  ASSUME OnTypeOK, NEW m \in Peers, NEW x
  PROVE  /\ \A n \in Peers : past.late[n] \subseteq LateWith(m, x)[n]
         /\ LateWith(m, x)[m] = past.late[m] \cup x
BY DEF OnTypeOK, LateWith

\* What a marker has overtaken, it has overtaken for good.
LEMMA LateGrows ==
  ASSUME OnInv, [OnNext]_onVars
  PROVE  \A n \in Peers : past.late[n] \subseteq past'.late[n]
<1>1. CASE UNCHANGED onVars
  BY <1>1 DEF onVars
<1>2. CASE Expires
  BY <1>2, ExpiresStep DEF OnInv
<1>3. ASSUME NEW m \in Peers, EditRow(m)
      PROVE  \A n \in Peers : past.late[n] \subseteq past'.late[n]
  BY <1>3, LateField, OldestThere, EditRowStep DEF OnInv, History, Joins, Declined, Creates
<1>4. ASSUME NEW m \in Peers, handle_online_trigger_sync(m)
      PROVE  \A n \in Peers : past.late[n] \subseteq past'.late[n]
  BY <1>4, LateField, OldestThere, TriggerStep DEF OnInv, History, Joins, Declined, Creates
<1>5. ASSUME NEW m \in Peers, create_session(m)
      PROVE  \A n \in Peers : past.late[n] \subseteq past'.late[n]
  BY <1>5, LateField, OldestThere, CreateStep DEF OnInv, History, Joins, Declined, Creates
<1>6. ASSUME NEW m \in Peers, wait_for_peer(m)
      PROVE  \A n \in Peers : past.late[n] \subseteq past'.late[n]
  BY <1>6, LateField, OldestThere, wait_for_peerStep DEF OnInv, History, Joins, Declined, Creates
<1>7. ASSUME NEW m \in Peers, Freeze5(m)
      PROVE  \A n \in Peers : past.late[n] \subseteq past'.late[n]
  BY <1>7, LateField, OldestThere, Freeze5Step DEF OnInv, History, Joins, Declined, Creates
<1>8. ASSUME NEW m \in Peers, SlaveUploads(m)
      PROVE  \A n \in Peers : past.late[n] \subseteq past'.late[n]
  BY <1>8, LateField, OldestThere, SlaveUploadsStep DEF OnInv, History, Joins, Declined, Creates
<1>9. ASSUME NEW m \in Peers, MasterDownloads(m)
      PROVE  \A n \in Peers : past.late[n] \subseteq past'.late[n]
  BY <1>9, LateField, OldestThere, MasterDownloadsStep DEF OnInv, History, Joins, Declined, Creates
<1>10. ASSUME NEW m \in Peers, MasterMerges(m)
      PROVE  \A n \in Peers : past.late[n] \subseteq past'.late[n]
  BY <1>10, LateField, OldestThere, MasterMergesStep DEF OnInv, History, Joins, Declined, Creates
<1>11. ASSUME NEW m \in Peers, MasterMarks(m)
      PROVE  \A n \in Peers : past.late[n] \subseteq past'.late[n]
  BY <1>11, LateField, OldestThere, MasterMarksStep DEF OnInv, History, Joins, Declined, Creates
<1>12. ASSUME NEW m \in Peers, MasterUploads(m)
      PROVE  \A n \in Peers : past.late[n] \subseteq past'.late[n]
  BY <1>12, LateField, OldestThere, MasterUploadsStep DEF OnInv, History, Joins, Declined, Creates
<1>13. ASSUME NEW m \in Peers, SlaveImports(m)
      PROVE  \A n \in Peers : past.late[n] \subseteq past'.late[n]
  <2>1. past'.late = LateWith(m, pv[m].has \ pv[m].got) /\ m \in Peers /\ OnTypeOK
    BY <1>13, OldestThere, SlaveImportsStep DEF OnInv, History
  <2> QED BY <2>1, LateField
<1>14. ASSUME NEW m \in Peers, SlaveReports(m)
      PROVE  \A n \in Peers : past.late[n] \subseteq past'.late[n]
  BY <1>14, LateField, OldestThere, SlaveReportsStep DEF OnInv, History, Joins, Declined, Creates
<1>15. ASSUME NEW m \in Peers, MasterEnds(m)
      PROVE  \A n \in Peers : past.late[n] \subseteq past'.late[n]
  BY <1>15, LateField, OldestThere, MasterEndsStep DEF OnInv, History, Joins, Declined, Creates
<1>16. ASSUME NEW m \in Peers, MergeFails(m)
      PROVE  \A n \in Peers : past.late[n] \subseteq past'.late[n]
  BY <1>16, LateField, OldestThere, MergeFailsStep DEF OnInv, History, Joins, Declined, Creates
<1>17. ASSUME NEW m \in Peers, SessionGone(m)
      PROVE  \A n \in Peers : past.late[n] \subseteq past'.late[n]
  BY <1>17, LateField, OldestThere, SessionGoneStep DEF OnInv, History, Joins, Declined, Creates
<1>18. ASSUME NEW m \in Peers, NetworkFails(m)
      PROVE  \A n \in Peers : past.late[n] \subseteq past'.late[n]
  BY <1>18, LateField, OldestThere, NetworkFailsStep DEF OnInv, History, Joins, Declined, Creates
<1>19. ASSUME NEW m \in Peers, async_pending(m)
      PROVE  \A n \in Peers : past.late[n] \subseteq past'.late[n]
  BY <1>19, LateField, OldestThere, async_pendingStep DEF OnInv, History, Joins, Declined, Creates
<1>20. ASSUME NEW m \in Peers, async_reject(m)
      PROVE  \A n \in Peers : past.late[n] \subseteq past'.late[n]
  <2>1. past'.late = LateWith(Oldest(m).from, Oldest(m).edits) /\ Oldest(m).from \in Peers
        /\ OnTypeOK
    BY <1>20, OldestThere, async_rejectStep DEF OnInv, History
  <2> QED BY <2>1, LateField
<1>21. ASSUME NEW m \in Peers, DownloadFails(m)
      PROVE  \A n \in Peers : past.late[n] \subseteq past'.late[n]
  BY <1>21, LateField, OldestThere, DownloadFailsStep DEF OnInv, History, Joins, Declined, Creates
<1>22. ASSUME NEW m \in Peers, AsyncMerge(m)
      PROVE  \A n \in Peers : past.late[n] \subseteq past'.late[n]
  <2>1. past'.late = LateWith(m, pv[m].has) /\ m \in Peers /\ OnTypeOK
    BY <1>22, OldestThere, AsyncMergeStep DEF OnInv, History
  <2> QED BY <2>1, LateField
<1>23. ASSUME NEW m \in Peers, AsyncMergeFails(m)
      PROVE  \A n \in Peers : past.late[n] \subseteq past'.late[n]
  <2>1. past'.late = LateWith(Oldest(m).from, Oldest(m).edits) /\ Oldest(m).from \in Peers
        /\ OnTypeOK
    BY <1>23, OldestThere, AsyncMergeFailsStep DEF OnInv, History
  <2> QED BY <2>1, LateField
<1>24. ASSUME NEW m \in Peers, async_ack(m)
      PROVE  \A n \in Peers : past.late[n] \subseteq past'.late[n]
  BY <1>24, LateField, OldestThere, async_ackStep DEF OnInv, History, Joins, Declined, Creates
<1>25. ASSUME NEW m \in Peers, async_push(m)
      PROVE  \A n \in Peers : past.late[n] \subseteq past'.late[n]
  BY <1>25, LateField, OldestThere, async_pushStep DEF OnInv, History, Joins, Declined, Creates
<1>26. ASSUME NEW m \in Peers, AsyncUpload(m)
      PROVE  \A n \in Peers : past.late[n] \subseteq past'.late[n]
  BY <1>26, LateField, OldestThere, AsyncUploadStep DEF OnInv, History, Joins, Declined, Creates
<1>27. ASSUME NEW m \in Peers, AsyncMark(m)
      PROVE  \A n \in Peers : past.late[n] \subseteq past'.late[n]
  BY <1>27, LateField, OldestThere, AsyncMarkStep DEF OnInv, History, Joins, Declined, Creates
<1> QED BY <1>1, <1>2, <1>3, <1>4, <1>5, <1>6, <1>7, <1>8, <1>9, <1>10, <1>11, <1>12, <1>13,
   <1>14, <1>15, <1>16, <1>17, <1>18, <1>19, <1>20, <1>21, <1>22, <1>23, <1>24, <1>25, <1>26,
   <1>27 DEF OnNext

\* The markers that appear in a step are the second of it, on one machine.
NewMarks(w) ==
  \A n \in Peers : \A k \in Marks :
    Holds(n, k)' => Holds(n, k) \/ (n = w /\ utc' = utc + 1 /\ k = utc + 1)

\* A marker that appears is the second of the step.
LEMMA MarksGrow ==
  ASSUME OnInv, [OnNext]_onVars
  PROVE  \E w \in Peers : NewMarks(w)
<1>1. CASE UNCHANGED onVars
  <2>1. \A w \in Peers : NewMarks(w)
    BY <1>1 DEF onVars, NewMarks, Holds
  <2> QED BY <2>1, OnAssumption
<1>2. CASE Expires
  <2>1. UNCHANGED <<pv, utc>> /\ cloud'.pkgs = cloud.pkgs
    BY <1>2, ExpiresStep DEF OnInv, Server
  <2>2. \A w \in Peers : NewMarks(w)
    BY <2>1 DEF NewMarks, Holds
  <2> QED BY <2>2, OnAssumption
<1>3. ASSUME NEW m \in Peers, EditRow(m)
      PROVE  \E w \in Peers : NewMarks(w)
  <2>1. NewMarks(m)
    BY <1>3, OldestThere, EditRowStep DEF OnInv, NewMarks, Holds, Step, Server
  <2> QED BY <2>1
<1>4. ASSUME NEW m \in Peers, handle_online_trigger_sync(m)
      PROVE  \E w \in Peers : NewMarks(w)
  <2>1. NewMarks(m)
    BY <1>4, OldestThere, TriggerStep DEF OnInv, NewMarks, Holds, Step, Server
  <2> QED BY <2>1
<1>5. ASSUME NEW m \in Peers, create_session(m)
      PROVE  \E w \in Peers : NewMarks(w)
  <2>1. NewMarks(m)
    BY <1>5, OldestThere, CreateStep DEF OnInv, NewMarks, Holds, Step, Server, Creates, Joins,
       Declined, Ends
  <2> QED BY <2>1
<1>6. ASSUME NEW m \in Peers, wait_for_peer(m)
      PROVE  \E w \in Peers : NewMarks(w)
  <2>1. NewMarks(m)
    BY <1>6, OldestThere, wait_for_peerStep DEF OnInv, NewMarks, Holds, Step, Server
  <2> QED BY <2>1
<1>7. ASSUME NEW m \in Peers, Freeze5(m)
      PROVE  \E w \in Peers : NewMarks(w)
  <2>1. NewMarks(m)
    BY <1>7, OldestThere, Freeze5Step DEF OnInv, NewMarks, Holds, Step, Server
  <2> QED BY <2>1
<1>8. ASSUME NEW m \in Peers, SlaveUploads(m)
      PROVE  \E w \in Peers : NewMarks(w)
  <2>1. /\ pv'[m].mark = pv[m].mark /\ pv'[m].bkMark = pv[m].bkMark
        /\ pv'[m].pc = "s11" /\ cloud'.pkgs = cloud.pkgs
        /\ \A n \in Peers : n # m => pv'[n] = pv[n]
    BY <1>8, SlaveUploadsStep DEF OnInv, Step, Server
  <2>2. NewMarks(m)
    BY <2>1 DEF NewMarks, Holds
  <2> QED BY <2>2
<1>9. ASSUME NEW m \in Peers, MasterDownloads(m)
      PROVE  \E w \in Peers : NewMarks(w)
  <2>1. NewMarks(m)
    BY <1>9, OldestThere, MasterDownloadsStep DEF OnInv, NewMarks, Holds, Step, Server
  <2> QED BY <2>1
<1>10. ASSUME NEW m \in Peers, MasterMerges(m)
      PROVE  \E w \in Peers : NewMarks(w)
  <2>1. /\ pv'[m].mark = pv[m].mark /\ pv'[m].bkMark = pv[m].bkMark
        /\ pv'[m].pc = "m10" /\ cloud'.pkgs = cloud.pkgs
        /\ \A n \in Peers : n # m => pv'[n] = pv[n]
    BY <1>10, MasterMergesStep DEF OnInv, Step, Server
  <2>2. NewMarks(m)
    BY <2>1 DEF NewMarks, Holds
  <2> QED BY <2>2
<1>11. ASSUME NEW m \in Peers, MasterMarks(m)
      PROVE  \E w \in Peers : NewMarks(w)
  <2>1. NewMarks(m)
    BY <1>11, OldestThere, MasterMarksStep DEF OnInv, NewMarks, Holds, Step, Server
  <2> QED BY <2>1
<1>12. ASSUME NEW m \in Peers, MasterUploads(m)
      PROVE  \E w \in Peers : NewMarks(w)
  <2>1. NewMarks(m)
    BY <1>12, OldestThere, MasterUploadsStep DEF OnInv, NewMarks, Holds, Step, Server
  <2> QED BY <2>1
<1>13. ASSUME NEW m \in Peers, SlaveImports(m)
      PROVE  \E w \in Peers : NewMarks(w)
  <2>1. /\ pv'[m].mark = utc + 1 /\ pv'[m].bkMark = pv[m].mark /\ utc' = utc + 1
        /\ pv'[m].pc = "s13" /\ cloud'.pkgs = cloud.pkgs
        /\ \A n \in Peers : n # m => pv'[n] = pv[n]
    BY <1>13, SlaveImportsStep DEF OnInv, Step, Server
  <2>2. NewMarks(m)
    BY <2>1 DEF NewMarks, Holds
  <2> QED BY <2>2
<1>14. ASSUME NEW m \in Peers, SlaveReports(m)
      PROVE  \E w \in Peers : NewMarks(w)
  <2>1. NewMarks(m)
    BY <1>14, OldestThere, SlaveReportsStep DEF OnInv, NewMarks, Holds, Step, Server, Ends
  <2> QED BY <2>1
<1>15. ASSUME NEW m \in Peers, MasterEnds(m)
      PROVE  \E w \in Peers : NewMarks(w)
  <2>1. NewMarks(m)
    BY <1>15, OldestThere, MasterEndsStep DEF OnInv, NewMarks, Holds, Step, Server, Ends
  <2> QED BY <2>1
<1>16. ASSUME NEW m \in Peers, MergeFails(m)
      PROVE  \E w \in Peers : NewMarks(w)
  <2>1. NewMarks(m)
    BY <1>16, OldestThere, MergeFailsStep DEF OnInv, NewMarks, Holds, Step, Server, Ends,
       Restores, Cancelled
  <2> QED BY <2>1
<1>17. ASSUME NEW m \in Peers, SessionGone(m)
      PROVE  \E w \in Peers : NewMarks(w)
  <2>1. NewMarks(m)
    BY <1>17, OldestThere, SessionGoneStep DEF OnInv, NewMarks, Holds, Step, Server, Ends
  <2> QED BY <2>1
<1>18. ASSUME NEW m \in Peers, NetworkFails(m)
      PROVE  \E w \in Peers : NewMarks(w)
  <2>1. NewMarks(m)
    BY <1>18, OldestThere, NetworkFailsStep DEF OnInv, NewMarks, Holds, Step, Server, Ends,
       Cancelled
  <2> QED BY <2>1
<1>19. ASSUME NEW m \in Peers, async_pending(m)
      PROVE  \E w \in Peers : NewMarks(w)
  <2>1. NewMarks(m)
    BY <1>19, OldestThere, async_pendingStep DEF OnInv, NewMarks, Holds, Step, Server
  <2> QED BY <2>1
<1>20. ASSUME NEW m \in Peers, async_reject(m)
      PROVE  \E w \in Peers : NewMarks(w)
  <2>1. NewMarks(m)
    BY <1>20, OldestThere, async_rejectStep DEF OnInv, NewMarks, Holds, Step, Server
  <2> QED BY <2>1
<1>21. ASSUME NEW m \in Peers, DownloadFails(m)
      PROVE  \E w \in Peers : NewMarks(w)
  <2>1. NewMarks(m)
    BY <1>21, OldestThere, DownloadFailsStep DEF OnInv, NewMarks, Holds, Step, Server, Ends
  <2> QED BY <2>1
<1>22. ASSUME NEW m \in Peers, AsyncMerge(m)
      PROVE  \E w \in Peers : NewMarks(w)
  <2>1. NewMarks(m)
    BY <1>22, OldestThere, AsyncMergeStep DEF OnInv, NewMarks, Holds, Step, Server
  <2> QED BY <2>1
<1>23. ASSUME NEW m \in Peers, AsyncMergeFails(m)
      PROVE  \E w \in Peers : NewMarks(w)
  <2>1. NewMarks(m)
    BY <1>23, OldestThere, AsyncMergeFailsStep DEF OnInv, NewMarks, Holds, Step, Server, Restores
  <2> QED BY <2>1
<1>24. ASSUME NEW m \in Peers, async_ack(m)
      PROVE  \E w \in Peers : NewMarks(w)
  <2>1. NewMarks(m)
    BY <1>24, OldestThere, async_ackStep DEF OnInv, NewMarks, Holds, Step, Server
  <2> QED BY <2>1
<1>25. ASSUME NEW m \in Peers, async_push(m)
      PROVE  \E w \in Peers : NewMarks(w)
  <2>1. /\ cloud'.pkgs = cloud.pkgs \cup {NewPackage(m)} /\ utc' = utc + 1
        /\ NewPackage(m).base = pv[m].mark /\ NewPackage(m).from = m
        /\ pv'[m].mark = pv[m].mark /\ pv'[m].bkMark = pv[m].bkMark /\ pv'[m].next = utc + 1
        /\ \A n \in Peers : n # m => pv'[n] = pv[n]
    BY <1>25, async_pushStep DEF OnInv, Step, Server, NewPackage
  <2>2. NewMarks(m)
    BY <2>1 DEF NewMarks, Holds
  <2> QED BY <2>2
<1>26. ASSUME NEW m \in Peers, AsyncUpload(m)
      PROVE  \E w \in Peers : NewMarks(w)
  <2>1. \A q \in cloud'.pkgs : \E p \in cloud.pkgs : q.from = p.from /\ q.base = p.base
    BY <1>26, AsyncUploadStep, Seconds, UploadedFields DEF OnInv, Server
  <2>2. /\ pv[m].pc = "upload" /\ pv'[m].mark = pv[m].mark /\ pv'[m].bkMark = pv[m].bkMark
        /\ pv'[m].next = pv[m].next
        /\ \A n \in Peers : n # m => pv'[n] = pv[n]
    BY <1>26, AsyncUploadStep DEF OnInv, Step
  <2>3. NewMarks(m)
    BY <2>1, <2>2 DEF NewMarks, Holds
  <2> QED BY <2>3
<1>27. ASSUME NEW m \in Peers, AsyncMark(m)
      PROVE  \E w \in Peers : NewMarks(w)
  <2>1. NewMarks(m)
    BY <1>27, OldestThere, AsyncMarkStep DEF OnInv, NewMarks, Holds, Step, Server
  <2> QED BY <2>1
<1> QED BY <1>1, <1>2, <1>3, <1>4, <1>5, <1>6, <1>7, <1>8, <1>9, <1>10, <1>11, <1>12, <1>13,
   <1>14, <1>15, <1>16, <1>17, <1>18, <1>19, <1>20, <1>21, <1>22, <1>23, <1>24, <1>25, <1>26,
   <1>27 DEF OnNext

\* The clock moves by a second or not at all.
LEMMA SecondsGrow ==
  ASSUME OnInv, [OnNext]_onVars
  PROVE  utc' \in {utc, utc + 1}
<1>1. CASE UNCHANGED onVars
  BY <1>1 DEF onVars
<1>2. CASE Expires
  BY <1>2, ExpiresStep DEF OnInv
<1>3. ASSUME NEW m \in Peers, EditRow(m)
      PROVE  utc' \in {utc, utc + 1}
  BY <1>3, EditRowStep DEF OnInv
<1>4. ASSUME NEW m \in Peers, handle_online_trigger_sync(m)
      PROVE  utc' \in {utc, utc + 1}
  BY <1>4, TriggerStep DEF OnInv
<1>5. ASSUME NEW m \in Peers, create_session(m)
      PROVE  utc' \in {utc, utc + 1}
  BY <1>5, CreateStep DEF OnInv
<1>6. ASSUME NEW m \in Peers, wait_for_peer(m)
      PROVE  utc' \in {utc, utc + 1}
  BY <1>6, wait_for_peerStep DEF OnInv
<1>7. ASSUME NEW m \in Peers, Freeze5(m)
      PROVE  utc' \in {utc, utc + 1}
  BY <1>7, Freeze5Step DEF OnInv
<1>8. ASSUME NEW m \in Peers, SlaveUploads(m)
      PROVE  utc' \in {utc, utc + 1}
  BY <1>8, SlaveUploadsStep DEF OnInv
<1>9. ASSUME NEW m \in Peers, MasterDownloads(m)
      PROVE  utc' \in {utc, utc + 1}
  BY <1>9, MasterDownloadsStep DEF OnInv
<1>10. ASSUME NEW m \in Peers, MasterMerges(m)
      PROVE  utc' \in {utc, utc + 1}
  BY <1>10, MasterMergesStep DEF OnInv
<1>11. ASSUME NEW m \in Peers, MasterMarks(m)
      PROVE  utc' \in {utc, utc + 1}
  BY <1>11, MasterMarksStep DEF OnInv
<1>12. ASSUME NEW m \in Peers, MasterUploads(m)
      PROVE  utc' \in {utc, utc + 1}
  BY <1>12, MasterUploadsStep DEF OnInv
<1>13. ASSUME NEW m \in Peers, SlaveImports(m)
      PROVE  utc' \in {utc, utc + 1}
  BY <1>13, SlaveImportsStep DEF OnInv
<1>14. ASSUME NEW m \in Peers, SlaveReports(m)
      PROVE  utc' \in {utc, utc + 1}
  BY <1>14, SlaveReportsStep DEF OnInv
<1>15. ASSUME NEW m \in Peers, MasterEnds(m)
      PROVE  utc' \in {utc, utc + 1}
  BY <1>15, MasterEndsStep DEF OnInv
<1>16. ASSUME NEW m \in Peers, MergeFails(m)
      PROVE  utc' \in {utc, utc + 1}
  BY <1>16, MergeFailsStep DEF OnInv
<1>17. ASSUME NEW m \in Peers, SessionGone(m)
      PROVE  utc' \in {utc, utc + 1}
  BY <1>17, SessionGoneStep DEF OnInv
<1>18. ASSUME NEW m \in Peers, NetworkFails(m)
      PROVE  utc' \in {utc, utc + 1}
  BY <1>18, NetworkFailsStep DEF OnInv
<1>19. ASSUME NEW m \in Peers, async_pending(m)
      PROVE  utc' \in {utc, utc + 1}
  BY <1>19, OldestThere, async_pendingStep DEF OnInv
<1>20. ASSUME NEW m \in Peers, async_reject(m)
      PROVE  utc' \in {utc, utc + 1}
  BY <1>20, OldestThere, async_rejectStep DEF OnInv
<1>21. ASSUME NEW m \in Peers, DownloadFails(m)
      PROVE  utc' \in {utc, utc + 1}
  BY <1>21, DownloadFailsStep DEF OnInv
<1>22. ASSUME NEW m \in Peers, AsyncMerge(m)
      PROVE  utc' \in {utc, utc + 1}
  BY <1>22, OldestThere, AsyncMergeStep DEF OnInv
<1>23. ASSUME NEW m \in Peers, AsyncMergeFails(m)
      PROVE  utc' \in {utc, utc + 1}
  BY <1>23, OldestThere, AsyncMergeFailsStep DEF OnInv
<1>24. ASSUME NEW m \in Peers, async_ack(m)
      PROVE  utc' \in {utc, utc + 1}
  BY <1>24, OldestThere, async_ackStep DEF OnInv
<1>25. ASSUME NEW m \in Peers, async_push(m)
      PROVE  utc' \in {utc, utc + 1}
  BY <1>25, OldestThere, async_pushStep DEF OnInv
<1>26. ASSUME NEW m \in Peers, AsyncUpload(m)
      PROVE  utc' \in {utc, utc + 1}
  BY <1>26, OldestThere, AsyncUploadStep DEF OnInv
<1>27. ASSUME NEW m \in Peers, AsyncMark(m)
      PROVE  utc' \in {utc, utc + 1}
  BY <1>27, OldestThere, AsyncMarkStep DEF OnInv
<1> QED BY <1>1, <1>2, <1>3, <1>4, <1>5, <1>6, <1>7, <1>8, <1>9, <1>10, <1>11, <1>12, <1>13,
   <1>14, <1>15, <1>16, <1>17, <1>18, <1>19, <1>20, <1>21, <1>22, <1>23, <1>24, <1>25, <1>26,
   <1>27 DEF OnNext

\* The markers stay older than now, and those of the machines apart.
LEMMA MarksKept ==
  ASSUME OnInv, [OnNext]_onVars
  PROVE  /\ \A n \in Peers : \A k \in Marks : Holds(n, k)' => k = NoMark \/ k <= utc'
         /\ \A m, n \in Peers : \A k \in Marks :
               m # n /\ Holds(m, k)' /\ Holds(n, k)' => k \in {0, NoMark}
<1>1. PICK w \in Peers : NewMarks(w)
  BY MarksGrow
<1>2. utc' \in {utc, utc + 1} /\ utc \in Nat /\ utc + 1 # NoMark
  BY SecondsGrow, Seconds, SecondIsNoMark DEF OnInv
<1>3. \A k \in Marks : k = NoMark \/ k \in Nat
  BY DEF Marks
<1>4. ASSUME NEW n \in Peers, NEW k \in Marks
      PROVE  Holds(n, k) => k = NoMark \/ k <= utc
  BY DEF OnInv, Told, Dated
<1>5. ASSUME NEW n \in Peers, NEW k \in Marks, Holds(n, k)'
      PROVE  k = NoMark \/ k <= utc'
  BY <1>1, <1>2, <1>3, <1>4, <1>5 DEF NewMarks
<1>6. ASSUME NEW m \in Peers, NEW n \in Peers, NEW k \in Marks, m # n, Holds(m, k)', Holds(n, k)'
      PROVE  k \in {0, NoMark}
  <2>1. ASSUME Holds(m, k), Holds(n, k)
        PROVE  k \in {0, NoMark}
    BY <1>6, <2>1 DEF OnInv, Told
  <2>2. ASSUME k = utc + 1, Holds(m, k) \/ Holds(n, k)
        PROVE  FALSE
    <3>1. k <= utc
      BY <2>2, <1>2, <1>4
    <3> QED BY <2>2, <3>1, <1>2
  <2>3. Holds(m, k) \/ Holds(n, k)
    BY <1>1, <1>6 DEF NewMarks
  <2>4. \/ Holds(m, k) /\ Holds(n, k)
        \/ k = utc + 1
    BY <1>1, <1>6 DEF NewMarks
  <2> QED BY <2>1, <2>2, <2>3, <2>4
<1> QED BY <1>5, <1>6

\* Edits are numbers.
LEMMA SecondsKnown ==
  ASSUME OnTypeOK
  PROVE  /\ utc \in Nat /\ utc <= utc + 1
         /\ \A m \in Peers :
              \A x \in pv[m].has \cup pv[m].bk \cup Session.up \cup Session.down : x \in Nat
         /\ \A p \in cloud.pkgs : \A x \in p.edits : x \in Nat
BY OnAssumption DEF OnTypeOK, Machine, Edits, Session, SessionType, Package

\* A step after which the machines have no more than edits of before.
LEMMA EditsWithin ==
  ASSUME OnInv, [OnNext]_onVars, NEW e, \A x \in e : x <= utc,
         \A n \in Peers : pv'[n].has \cup pv'[n].bk \subseteq pv[n].has \cup pv[n].bk \cup e,
         OnTypeOK'
  PROVE  \A n \in Peers : \A x \in pv'[n].has \cup pv'[n].bk : x <= utc'
<1> SUFFICES ASSUME NEW n \in Peers, NEW x \in pv'[n].has \cup pv'[n].bk
             PROVE  x <= utc'
  OBVIOUS
<1>1. x \in Nat
  BY OnAssumption DEF OnTypeOK, Machine, Edits
<1>2. x <= utc
  BY EditsDated
<1> QED BY <1>1, <1>2, SecondsGrow, Seconds DEF OnInv

\* No edit is made or moved by the step.
LEMMA EditsSame ==
  ASSUME OnInv, [OnNext]_onVars, \A n \in Peers : pv'[n].has = pv[n].has /\ pv'[n].bk = pv[n].bk
  PROVE  \A n \in Peers : \A x \in pv'[n].has \cup pv'[n].bk : x <= utc'
<1>1. \A n \in Peers : \A x \in pv[n].has \cup pv[n].bk : x <= utc /\ x \in Nat
  BY EditsDated, SecondsKnown DEF OnInv
<1>2. utc \in Nat /\ utc' \in {utc, utc + 1}
  BY SecondsGrow, Seconds DEF OnInv
<1> QED BY <1>1, <1>2

\* No edit is of a later second.
LEMMA EditsKept ==
  ASSUME OnInv, [OnNext]_onVars
  PROVE  \A n \in Peers : \A x \in pv'[n].has \cup pv'[n].bk : x <= utc'
<1>1. CASE UNCHANGED onVars
  BY <1>1, EditsDated DEF onVars
<1>2. CASE Expires
  BY <1>2, ExpiresStep, EditsDated DEF OnInv
<1>3. ASSUME NEW m \in Peers, EditRow(m)
      PROVE  \A n \in Peers : \A x \in pv'[n].has \cup pv'[n].bk : x <= utc'
  BY <1>3, EditsDated, Seconds, SecondsKnown, EditRowStep DEF OnInv, Step
<1>4. ASSUME NEW m \in Peers, handle_online_trigger_sync(m)
      PROVE  \A n \in Peers : \A x \in pv'[n].has \cup pv'[n].bk : x <= utc'
  BY <1>4, EditsDated, Seconds, SecondsKnown, TriggerStep DEF OnInv, Step
<1>5. ASSUME NEW m \in Peers, create_session(m)
      PROVE  \A n \in Peers : \A x \in pv'[n].has \cup pv'[n].bk : x <= utc'
  BY <1>5, EditsDated, Seconds, SecondsKnown, CreateStep DEF OnInv, Step, Creates, Joins,
     Declined, Ends
<1>6. ASSUME NEW m \in Peers, wait_for_peer(m)
      PROVE  \A n \in Peers : \A x \in pv'[n].has \cup pv'[n].bk : x <= utc'
  BY <1>6, EditsDated, Seconds, SecondsKnown, wait_for_peerStep DEF OnInv, Step
<1>7. ASSUME NEW m \in Peers, Freeze5(m)
      PROVE  \A n \in Peers : \A x \in pv'[n].has \cup pv'[n].bk : x <= utc'
  BY <1>7, EditsDated, Seconds, SecondsKnown, Freeze5Step DEF OnInv, Step
<1>8. ASSUME NEW m \in Peers, SlaveUploads(m)
      PROVE  \A n \in Peers : \A x \in pv'[n].has \cup pv'[n].bk : x <= utc'
  <2>1. \A n \in Peers : pv'[n].has = pv[n].has /\ pv'[n].bk = pv[n].bk
    BY <1>8, SlaveUploadsStep DEF OnInv, Step
  <2> QED BY <2>1, EditsSame
<1>9. ASSUME NEW m \in Peers, MasterDownloads(m)
      PROVE  \A n \in Peers : \A x \in pv'[n].has \cup pv'[n].bk : x <= utc'
  BY <1>9, EditsDated, MasterDownloadsStep DEF OnInv, Step
<1>10. ASSUME NEW m \in Peers, MasterMerges(m)
      PROVE  \A n \in Peers : \A x \in pv'[n].has \cup pv'[n].bk : x <= utc'
  <2>1. pv[m].got \subseteq Session.up /\ \A x \in Session.up : x <= utc
    BY <1>10, MasterMergesStep, EditsDated, TwoPeers, Counts
       DEF OnInv, Roles, Numbers, SlaveAt, MasterAt, Carried, SlaveCarries, MasterCarries, In,
           Master, Slave, Live, SessionPcs
  <2>2. \A n \in Peers : pv'[n].has \cup pv'[n].bk \subseteq pv[n].has \cup pv[n].bk \cup pv[m].got
    <3>1. /\ pv'[m].has = pv[m].has \cup pv[m].got /\ pv'[m].bk = pv[m].bk
          /\ \A n \in Peers : n # m => pv'[n] = pv[n]
      BY <1>10, MasterMergesStep DEF OnInv, Step
    <3> QED BY <3>1
  <2>4. OnTypeOK'
    BY <1>10, OldestThere, MasterMergesStep DEF OnInv
  <2>3. \A x \in pv[m].got : x <= utc
    BY <2>1
  <2> QED BY <2>2, <2>3, <2>4, EditsWithin
<1>11. ASSUME NEW m \in Peers, MasterMarks(m)
      PROVE  \A n \in Peers : \A x \in pv'[n].has \cup pv'[n].bk : x <= utc'
  BY <1>11, EditsDated, Seconds, SecondsKnown, MasterMarksStep DEF OnInv, Step
<1>12. ASSUME NEW m \in Peers, MasterUploads(m)
      PROVE  \A n \in Peers : \A x \in pv'[n].has \cup pv'[n].bk : x <= utc'
  BY <1>12, EditsDated, Seconds, SecondsKnown, MasterUploadsStep DEF OnInv, Step
<1>13. ASSUME NEW m \in Peers, SlaveImports(m)
      PROVE  \A n \in Peers : \A x \in pv'[n].has \cup pv'[n].bk : x <= utc'
  <2>1. \A x \in Session.down : x <= utc
    BY <1>13, SlaveImportsStep, EditsDated, TwoPeers, Counts
       DEF OnInv, Roles, Numbers, SlaveAt, MasterAt, Carried, SlaveCarries, MasterCarries, In,
           Master, Slave, Live, SessionPcs
  <2>2. \A n \in Peers : pv'[n].has \cup pv'[n].bk \subseteq pv[n].has \cup pv[n].bk \cup Session.down
    <3>1. /\ pv'[m].has = pv[m].has \cup Session.down /\ pv'[m].bk = pv[m].has
          /\ \A n \in Peers : n # m => pv'[n] = pv[n]
      BY <1>13, SlaveImportsStep DEF OnInv, Step
    <3> QED BY <3>1
  <2>4. OnTypeOK'
    BY <1>13, OldestThere, SlaveImportsStep DEF OnInv
  <2> QED BY <2>1, <2>2, <2>4, EditsWithin
<1>14. ASSUME NEW m \in Peers, SlaveReports(m)
      PROVE  \A n \in Peers : \A x \in pv'[n].has \cup pv'[n].bk : x <= utc'
  BY <1>14, EditsDated, Seconds, SecondsKnown, SlaveReportsStep DEF OnInv, Step, Ends
<1>15. ASSUME NEW m \in Peers, MasterEnds(m)
      PROVE  \A n \in Peers : \A x \in pv'[n].has \cup pv'[n].bk : x <= utc'
  BY <1>15, EditsDated, Seconds, SecondsKnown, MasterEndsStep DEF OnInv, Step, Ends
<1>16. ASSUME NEW m \in Peers, MergeFails(m)
      PROVE  \A n \in Peers : \A x \in pv'[n].has \cup pv'[n].bk : x <= utc'
  BY <1>16, EditsDated, Seconds, SecondsKnown, MergeFailsStep DEF OnInv, Step, Ends, Restores
<1>17. ASSUME NEW m \in Peers, SessionGone(m)
      PROVE  \A n \in Peers : \A x \in pv'[n].has \cup pv'[n].bk : x <= utc'
  BY <1>17, EditsDated, Seconds, SecondsKnown, SessionGoneStep DEF OnInv, Step, Ends
<1>18. ASSUME NEW m \in Peers, NetworkFails(m)
      PROVE  \A n \in Peers : \A x \in pv'[n].has \cup pv'[n].bk : x <= utc'
  BY <1>18, EditsDated, Seconds, SecondsKnown, NetworkFailsStep DEF OnInv, Step, Ends
<1>19. ASSUME NEW m \in Peers, async_pending(m)
      PROVE  \A n \in Peers : \A x \in pv'[n].has \cup pv'[n].bk : x <= utc'
  BY <1>19, EditsDated, Seconds, SecondsKnown, async_pendingStep DEF OnInv, Step
<1>20. ASSUME NEW m \in Peers, async_reject(m)
      PROVE  \A n \in Peers : \A x \in pv'[n].has \cup pv'[n].bk : x <= utc'
  <2>1. \A n \in Peers : pv'[n].has = pv[n].has /\ pv'[n].bk = pv[n].bk
    BY <1>20, async_rejectStep DEF OnInv, Step
  <2> QED BY <2>1, EditsSame
<1>21. ASSUME NEW m \in Peers, DownloadFails(m)
      PROVE  \A n \in Peers : \A x \in pv'[n].has \cup pv'[n].bk : x <= utc'
  BY <1>21, EditsDated, Seconds, SecondsKnown, DownloadFailsStep DEF OnInv, Step, Ends
<1>22. ASSUME NEW m \in Peers, AsyncMerge(m)
      PROVE  \A n \in Peers : \A x \in pv'[n].has \cup pv'[n].bk : x <= utc'
  <2>1. \A x \in Oldest(m).edits : x <= utc
    BY <1>22, AsyncMergeStep, OldestThere, EditsDated DEF OnInv
  <2>2. \A n \in Peers : pv'[n].has \cup pv'[n].bk \subseteq pv[n].has \cup pv[n].bk \cup Oldest(m).edits
    BY <1>22, OldestThere, AsyncMergeStep DEF OnInv, Step
  <2>4. OnTypeOK'
    BY <1>22, OldestThere, AsyncMergeStep DEF OnInv
  <2> QED BY <2>1, <2>2, <2>4, EditsWithin
<1>23. ASSUME NEW m \in Peers, AsyncMergeFails(m)
      PROVE  \A n \in Peers : \A x \in pv'[n].has \cup pv'[n].bk : x <= utc'
  <2>1. /\ pv'[m].has = pv[m].bk /\ pv'[m].bk = pv[m].bk /\ utc' = utc
        /\ \A n \in Peers : n # m => pv'[n] = pv[n]
    BY <1>23, AsyncMergeFailsStep DEF OnInv, Step, Restores
  <2> QED BY <2>1, EditsDated
<1>24. ASSUME NEW m \in Peers, async_ack(m)
      PROVE  \A n \in Peers : \A x \in pv'[n].has \cup pv'[n].bk : x <= utc'
  <2>1. \A n \in Peers : pv'[n].has = pv[n].has /\ pv'[n].bk = pv[n].bk
    BY <1>24, async_ackStep DEF OnInv, Step
  <2> QED BY <2>1, EditsSame
<1>25. ASSUME NEW m \in Peers, async_push(m)
      PROVE  \A n \in Peers : \A x \in pv'[n].has \cup pv'[n].bk : x <= utc'
  <2>1. \A n \in Peers : pv'[n].has = pv[n].has /\ pv'[n].bk = pv[n].bk
    BY <1>25, async_pushStep DEF OnInv, Step
  <2> QED BY <2>1, EditsSame
<1>26. ASSUME NEW m \in Peers, AsyncUpload(m)
      PROVE  \A n \in Peers : \A x \in pv'[n].has \cup pv'[n].bk : x <= utc'
  <2>1. \A n \in Peers : pv'[n].has = pv[n].has /\ pv'[n].bk = pv[n].bk
    BY <1>26, AsyncUploadStep DEF OnInv, Step
  <2> QED BY <2>1, EditsSame
<1>27. ASSUME NEW m \in Peers, AsyncMark(m)
      PROVE  \A n \in Peers : \A x \in pv'[n].has \cup pv'[n].bk : x <= utc'
  BY <1>27, EditsDated, Seconds, SecondsKnown, AsyncMarkStep DEF OnInv, Step
<1> QED BY <1>1, <1>2, <1>3, <1>4, <1>5, <1>6, <1>7, <1>8, <1>9, <1>10, <1>11, <1>12, <1>13,
   <1>14, <1>15, <1>16, <1>17, <1>18, <1>19, <1>20, <1>21, <1>22, <1>23, <1>24, <1>25, <1>26,
   <1>27 DEF OnNext

\* Packages that stay have the oldest that they had.
LEMMA OldestSame ==
  ASSUME cloud'.pkgs = cloud.pkgs
  PROVE  \A n \in Peers : Oldest(n)' = Oldest(n)
BY DEF Oldest, Pending

\* The package that a machine has merged is the oldest until it answers it.
LEMMA OldestStays ==
  ASSUME OnInv, [OnNext]_onVars
  PROVE  \A n \in Peers : pv[n].pc = "ack" /\ pv'[n].pc = "ack" =>
            Oldest(n)'.up /\ Oldest(n)'.edits = Oldest(n).edits
<1>1. CASE UNCHANGED onVars
  <2>1. cloud'.pkgs = cloud.pkgs
    BY <1>1 DEF onVars
  <2> QED BY <1>1, <2>1, OldestSame DEF onVars, OnInv, Told, Backed
<1>2. CASE Expires
  <2>1. cloud'.pkgs = cloud.pkgs
    BY <1>2, ExpiresStep DEF OnInv, Server
  <2> QED BY <2>1, OldestSame DEF OnInv, Told, Backed
<1>3. ASSUME NEW m \in Peers, EditRow(m)
      PROVE  \A n \in Peers : pv[n].pc = "ack" /\ pv'[n].pc = "ack" =>
            Oldest(n)'.up /\ Oldest(n)'.edits = Oldest(n).edits
  <2>1. cloud'.pkgs = cloud.pkgs
    BY <1>3, OldestThere, EditRowStep DEF OnInv, Server
  <2> QED BY <2>1, OldestSame DEF OnInv, Told, Backed
<1>4. ASSUME NEW m \in Peers, handle_online_trigger_sync(m)
      PROVE  \A n \in Peers : pv[n].pc = "ack" /\ pv'[n].pc = "ack" =>
            Oldest(n)'.up /\ Oldest(n)'.edits = Oldest(n).edits
  <2>1. cloud'.pkgs = cloud.pkgs
    BY <1>4, OldestThere, TriggerStep DEF OnInv, Server
  <2> QED BY <2>1, OldestSame DEF OnInv, Told, Backed
<1>5. ASSUME NEW m \in Peers, create_session(m)
      PROVE  \A n \in Peers : pv[n].pc = "ack" /\ pv'[n].pc = "ack" =>
            Oldest(n)'.up /\ Oldest(n)'.edits = Oldest(n).edits
  <2>1. cloud'.pkgs = cloud.pkgs
    BY <1>5, OldestThere, CreateStep DEF OnInv, Server, Creates, Joins, Declined
  <2> QED BY <2>1, OldestSame DEF OnInv, Told, Backed
<1>6. ASSUME NEW m \in Peers, wait_for_peer(m)
      PROVE  \A n \in Peers : pv[n].pc = "ack" /\ pv'[n].pc = "ack" =>
            Oldest(n)'.up /\ Oldest(n)'.edits = Oldest(n).edits
  <2>1. cloud'.pkgs = cloud.pkgs
    BY <1>6, OldestThere, wait_for_peerStep DEF OnInv, Server
  <2> QED BY <2>1, OldestSame DEF OnInv, Told, Backed
<1>7. ASSUME NEW m \in Peers, Freeze5(m)
      PROVE  \A n \in Peers : pv[n].pc = "ack" /\ pv'[n].pc = "ack" =>
            Oldest(n)'.up /\ Oldest(n)'.edits = Oldest(n).edits
  <2>1. cloud'.pkgs = cloud.pkgs
    BY <1>7, OldestThere, Freeze5Step DEF OnInv, Server
  <2> QED BY <2>1, OldestSame DEF OnInv, Told, Backed
<1>8. ASSUME NEW m \in Peers, SlaveUploads(m)
      PROVE  \A n \in Peers : pv[n].pc = "ack" /\ pv'[n].pc = "ack" =>
            Oldest(n)'.up /\ Oldest(n)'.edits = Oldest(n).edits
  <2>1. cloud'.pkgs = cloud.pkgs
    BY <1>8, OldestThere, SlaveUploadsStep DEF OnInv, Server
  <2> QED BY <2>1, OldestSame DEF OnInv, Told, Backed
<1>9. ASSUME NEW m \in Peers, MasterDownloads(m)
      PROVE  \A n \in Peers : pv[n].pc = "ack" /\ pv'[n].pc = "ack" =>
            Oldest(n)'.up /\ Oldest(n)'.edits = Oldest(n).edits
  <2>1. cloud'.pkgs = cloud.pkgs
    BY <1>9, OldestThere, MasterDownloadsStep DEF OnInv, Server
  <2> QED BY <2>1, OldestSame DEF OnInv, Told, Backed
<1>10. ASSUME NEW m \in Peers, MasterMerges(m)
      PROVE  \A n \in Peers : pv[n].pc = "ack" /\ pv'[n].pc = "ack" =>
            Oldest(n)'.up /\ Oldest(n)'.edits = Oldest(n).edits
  <2>1. cloud'.pkgs = cloud.pkgs
    BY <1>10, OldestThere, MasterMergesStep DEF OnInv, Server
  <2> QED BY <2>1, OldestSame DEF OnInv, Told, Backed
<1>11. ASSUME NEW m \in Peers, MasterMarks(m)
      PROVE  \A n \in Peers : pv[n].pc = "ack" /\ pv'[n].pc = "ack" =>
            Oldest(n)'.up /\ Oldest(n)'.edits = Oldest(n).edits
  <2>1. cloud'.pkgs = cloud.pkgs
    BY <1>11, OldestThere, MasterMarksStep DEF OnInv, Server
  <2> QED BY <2>1, OldestSame DEF OnInv, Told, Backed
<1>12. ASSUME NEW m \in Peers, MasterUploads(m)
      PROVE  \A n \in Peers : pv[n].pc = "ack" /\ pv'[n].pc = "ack" =>
            Oldest(n)'.up /\ Oldest(n)'.edits = Oldest(n).edits
  <2>1. cloud'.pkgs = cloud.pkgs
    BY <1>12, OldestThere, MasterUploadsStep DEF OnInv, Server
  <2> QED BY <2>1, OldestSame DEF OnInv, Told, Backed
<1>13. ASSUME NEW m \in Peers, SlaveImports(m)
      PROVE  \A n \in Peers : pv[n].pc = "ack" /\ pv'[n].pc = "ack" =>
            Oldest(n)'.up /\ Oldest(n)'.edits = Oldest(n).edits
  <2>1. cloud'.pkgs = cloud.pkgs
    BY <1>13, OldestThere, SlaveImportsStep DEF OnInv, Server
  <2> QED BY <2>1, OldestSame DEF OnInv, Told, Backed
<1>14. ASSUME NEW m \in Peers, SlaveReports(m)
      PROVE  \A n \in Peers : pv[n].pc = "ack" /\ pv'[n].pc = "ack" =>
            Oldest(n)'.up /\ Oldest(n)'.edits = Oldest(n).edits
  <2>1. cloud'.pkgs = cloud.pkgs
    BY <1>14, OldestThere, SlaveReportsStep DEF OnInv, Server
  <2> QED BY <2>1, OldestSame DEF OnInv, Told, Backed
<1>15. ASSUME NEW m \in Peers, MasterEnds(m)
      PROVE  \A n \in Peers : pv[n].pc = "ack" /\ pv'[n].pc = "ack" =>
            Oldest(n)'.up /\ Oldest(n)'.edits = Oldest(n).edits
  <2>1. cloud'.pkgs = cloud.pkgs
    BY <1>15, OldestThere, MasterEndsStep DEF OnInv, Server
  <2> QED BY <2>1, OldestSame DEF OnInv, Told, Backed
<1>16. ASSUME NEW m \in Peers, MergeFails(m)
      PROVE  \A n \in Peers : pv[n].pc = "ack" /\ pv'[n].pc = "ack" =>
            Oldest(n)'.up /\ Oldest(n)'.edits = Oldest(n).edits
  <2>1. cloud'.pkgs = cloud.pkgs
    BY <1>16, OldestThere, MergeFailsStep DEF OnInv, Server, Cancelled
  <2> QED BY <2>1, OldestSame DEF OnInv, Told, Backed
<1>17. ASSUME NEW m \in Peers, SessionGone(m)
      PROVE  \A n \in Peers : pv[n].pc = "ack" /\ pv'[n].pc = "ack" =>
            Oldest(n)'.up /\ Oldest(n)'.edits = Oldest(n).edits
  <2>1. cloud'.pkgs = cloud.pkgs
    BY <1>17, OldestThere, SessionGoneStep DEF OnInv, Server
  <2> QED BY <2>1, OldestSame DEF OnInv, Told, Backed
<1>18. ASSUME NEW m \in Peers, NetworkFails(m)
      PROVE  \A n \in Peers : pv[n].pc = "ack" /\ pv'[n].pc = "ack" =>
            Oldest(n)'.up /\ Oldest(n)'.edits = Oldest(n).edits
  <2>1. cloud'.pkgs = cloud.pkgs
    BY <1>18, OldestThere, NetworkFailsStep DEF OnInv, Server, Cancelled
  <2> QED BY <2>1, OldestSame DEF OnInv, Told, Backed
<1>19. ASSUME NEW m \in Peers, async_pending(m)
      PROVE  \A n \in Peers : pv[n].pc = "ack" /\ pv'[n].pc = "ack" =>
            Oldest(n)'.up /\ Oldest(n)'.edits = Oldest(n).edits
  <2>1. cloud'.pkgs = cloud.pkgs
    BY <1>19, OldestThere, async_pendingStep DEF OnInv, Server
  <2> QED BY <2>1, OldestSame DEF OnInv, Told, Backed
<1>20. ASSUME NEW m \in Peers, async_reject(m)
      PROVE  \A n \in Peers : pv[n].pc = "ack" /\ pv'[n].pc = "ack" =>
            Oldest(n)'.up /\ Oldest(n)'.edits = Oldest(n).edits
  <2>1. /\ cloud'.pkgs = cloud.pkgs \ {Oldest(m)} /\ Oldest(m).from \in Peers /\ Oldest(m).from # m
        /\ pv'[m].pc # "ack"
    BY <1>20, OldestThere, async_rejectStep DEF OnInv, Server, Step, Restores
  <2>2. ASSUME NEW n \in Peers, n # m
        PROVE  Oldest(n)' = Oldest(n)
    <3>1. Oldest(m).from = n
      BY <2>1, <2>2, TwoPeers
    <3>2. Pending(n)' = Pending(n)
      BY <2>1, <3>1 DEF Pending
    <3> QED BY <3>2 DEF Oldest
  <2> QED BY <2>1, <2>2 DEF OnInv, Told, Backed
<1>21. ASSUME NEW m \in Peers, DownloadFails(m)
      PROVE  \A n \in Peers : pv[n].pc = "ack" /\ pv'[n].pc = "ack" =>
            Oldest(n)'.up /\ Oldest(n)'.edits = Oldest(n).edits
  <2>1. cloud'.pkgs = cloud.pkgs
    BY <1>21, OldestThere, DownloadFailsStep DEF OnInv, Server
  <2> QED BY <2>1, OldestSame DEF OnInv, Told, Backed
<1>22. ASSUME NEW m \in Peers, AsyncMerge(m)
      PROVE  \A n \in Peers : pv[n].pc = "ack" /\ pv'[n].pc = "ack" =>
            Oldest(n)'.up /\ Oldest(n)'.edits = Oldest(n).edits
  <2>1. cloud'.pkgs = cloud.pkgs
    BY <1>22, OldestThere, AsyncMergeStep DEF OnInv, Server
  <2> QED BY <2>1, OldestSame DEF OnInv, Told, Backed
<1>23. ASSUME NEW m \in Peers, AsyncMergeFails(m)
      PROVE  \A n \in Peers : pv[n].pc = "ack" /\ pv'[n].pc = "ack" =>
            Oldest(n)'.up /\ Oldest(n)'.edits = Oldest(n).edits
  <2>1. /\ cloud'.pkgs = cloud.pkgs \ {Oldest(m)} /\ Oldest(m).from \in Peers /\ Oldest(m).from # m
        /\ pv'[m].pc # "ack"
    BY <1>23, OldestThere, AsyncMergeFailsStep DEF OnInv, Server, Step, Restores
  <2>2. ASSUME NEW n \in Peers, n # m
        PROVE  Oldest(n)' = Oldest(n)
    <3>1. Oldest(m).from = n
      BY <2>1, <2>2, TwoPeers
    <3>2. Pending(n)' = Pending(n)
      BY <2>1, <3>1 DEF Pending
    <3> QED BY <3>2 DEF Oldest
  <2> QED BY <2>1, <2>2 DEF OnInv, Told, Backed
<1>24. ASSUME NEW m \in Peers, async_ack(m)
      PROVE  \A n \in Peers : pv[n].pc = "ack" /\ pv'[n].pc = "ack" =>
            Oldest(n)'.up /\ Oldest(n)'.edits = Oldest(n).edits
  <2>1. /\ cloud'.pkgs = cloud.pkgs \ {Oldest(m)} /\ Oldest(m).from \in Peers /\ Oldest(m).from # m
        /\ pv'[m].pc # "ack"
    BY <1>24, OldestThere, async_ackStep DEF OnInv, Server, Step, Restores
  <2>2. ASSUME NEW n \in Peers, n # m
        PROVE  Oldest(n)' = Oldest(n)
    <3>1. Oldest(m).from = n
      BY <2>1, <2>2, TwoPeers
    <3>2. Pending(n)' = Pending(n)
      BY <2>1, <3>1 DEF Pending
    <3> QED BY <3>2 DEF Oldest
  <2> QED BY <2>1, <2>2 DEF OnInv, Told, Backed
<1>25. ASSUME NEW m \in Peers, async_push(m)
      PROVE  \A n \in Peers : pv[n].pc = "ack" /\ pv'[n].pc = "ack" =>
            Oldest(n)'.up /\ Oldest(n)'.edits = Oldest(n).edits
  <2>1. /\ cloud'.pkgs = cloud.pkgs \cup {NewPackage(m)} /\ NewPackage(m).id = utc + 1
        /\ pv[m].pc # "ack" /\ OnTypeOK'
    BY <1>25, async_pushStep DEF OnInv, Server, NewPackage
  <2>2. ASSUME NEW n \in Peers, pv[n].pc = "ack"
        PROVE  Oldest(n)' = Oldest(n)
    <3>1. Oldest(n) \in Pending(n) /\ \A q \in Pending(n) : Oldest(n).id <= q.id
      BY <2>2, OldestThere DEF OnInv
    <3>2. Oldest(n).id <= utc /\ Oldest(n).id \in Nat /\ utc \in Nat
      BY <3>1, Seconds DEF Pending, OnInv, Packed, PackagesHold
    <3>3. Oldest(n) \in Pending(n)' /\ \A q \in Pending(n)' : Oldest(n).id <= q.id
      BY <2>1, <3>1, <3>2 DEF Pending
    <3> QED BY <2>1, <3>3, OldestIs, PackedKept
  <2> QED BY <2>2 DEF OnInv, Told, Backed
<1>26. ASSUME NEW m \in Peers, AsyncUpload(m)
      PROVE  \A n \in Peers : pv[n].pc = "ack" /\ pv'[n].pc = "ack" =>
            Oldest(n)'.up /\ Oldest(n)'.edits = Oldest(n).edits
  <2> DEFINE U(p) == Uploaded(p, pv[m].next)
  <2>1. cloud'.pkgs = {U(p) : p \in cloud.pkgs} /\ OnTypeOK'
    BY <1>26, AsyncUploadStep DEF OnInv, Server
  <2>2. \A p \in cloud.pkgs : U(p).id = p.id /\ U(p).from = p.from
                              /\ U(p).edits = p.edits /\ (p.up => U(p).up)
    BY Seconds, UploadedFields DEF OnInv
  <2> HIDE DEF U
  <2>3. ASSUME NEW n \in Peers, pv[n].pc = "ack"
        PROVE  Oldest(n)' = U(Oldest(n)) /\ Oldest(n) \in cloud.pkgs
    <3>1. Oldest(n) \in Pending(n) /\ \A q \in Pending(n) : Oldest(n).id <= q.id
      BY <2>3, OldestThere DEF OnInv
    <3>2. Pending(n)' = {U(p) : p \in Pending(n)}
      BY <2>1, <2>2 DEF Pending
    <3>3. U(Oldest(n)) \in Pending(n)' /\ \A q \in Pending(n)' : U(Oldest(n)).id <= q.id
      BY <2>2, <3>1, <3>2 DEF Pending
    <3> QED BY <2>1, <3>1, <3>3, OldestIs, PackedKept DEF Pending
  <2> QED BY <2>2, <2>3 DEF OnInv, Told, Backed
<1>27. ASSUME NEW m \in Peers, AsyncMark(m)
      PROVE  \A n \in Peers : pv[n].pc = "ack" /\ pv'[n].pc = "ack" =>
            Oldest(n)'.up /\ Oldest(n)'.edits = Oldest(n).edits
  <2>1. cloud'.pkgs = cloud.pkgs
    BY <1>27, OldestThere, AsyncMarkStep DEF OnInv, Server
  <2> QED BY <2>1, OldestSame DEF OnInv, Told, Backed
<1> QED BY <1>1, <1>2, <1>3, <1>4, <1>5, <1>6, <1>7, <1>8, <1>9, <1>10, <1>11, <1>12, <1>13,
   <1>14, <1>15, <1>16, <1>17, <1>18, <1>19, <1>20, <1>21, <1>22, <1>23, <1>24, <1>25, <1>26,
   <1>27 DEF OnNext

\* A backup that the step has nothing to do with.
LEMMA BackedStays ==
  ASSUME OnInv, [OnNext]_onVars, NEW n \in Peers,
         pv'[n].pc \in {"m9", "m10", "pulling", "ack"} =>
           /\ pv'[n].pc = pv[n].pc /\ pv'[n].bk = pv[n].bk /\ pv'[n].bkMark = pv[n].bkMark
           /\ pv'[n].mark = pv[n].mark /\ pv'[n].has = pv[n].has,
         pv'[n].pc \in {"upload", "mark"} =>
           pv'[n].next # NoMark \/ (pv[n].pc \in {"upload", "mark"} /\ pv'[n].next = pv[n].next)
  PROVE  Backed(n)'
BY LateGrows, OldestStays DEF OnInv, Told, Backed

\* A backup that may be put back stays good.
LEMMA BackedKept ==
  ASSUME OnInv, [OnNext]_onVars
  PROVE  \A n \in Peers : Backed(n)'
<1>1. CASE UNCHANGED onVars
  BY <1>1, OldestStays DEF onVars, OnInv, Told, Backed
<1>2. CASE Expires
  BY <1>2, OldestStays, ExpiresStep DEF OnInv, Told, Backed
<1>3. ASSUME NEW m \in Peers, EditRow(m)
      PROVE  \A n \in Peers : Backed(n)'
  BY <1>3, LateGrows, OldestStays, OldestThere, EditRowStep DEF OnInv, Told, Backed, Step
<1>4. ASSUME NEW m \in Peers, handle_online_trigger_sync(m)
      PROVE  \A n \in Peers : Backed(n)'
  BY <1>4, LateGrows, OldestStays, OldestThere, TriggerStep DEF OnInv, Told, Backed, Step
<1>5. ASSUME NEW m \in Peers, create_session(m)
      PROVE  \A n \in Peers : Backed(n)'
  BY <1>5, LateGrows, OldestStays, OldestThere, CreateStep DEF OnInv, Told, Backed, Step, Creates,
     Joins, Declined, Ends
<1>6. ASSUME NEW m \in Peers, wait_for_peer(m)
      PROVE  \A n \in Peers : Backed(n)'
  BY <1>6, LateGrows, OldestStays, OldestThere, wait_for_peerStep DEF OnInv, Told, Backed, Step
<1>7. ASSUME NEW m \in Peers, Freeze5(m)
      PROVE  \A n \in Peers : Backed(n)'
  BY <1>7, LateGrows, OldestStays, OldestThere, Freeze5Step DEF OnInv, Told, Backed, Step
<1>8. ASSUME NEW m \in Peers, SlaveUploads(m)
      PROVE  \A n \in Peers : Backed(n)'
  <2>1. \A n \in Peers : pv'[n].pc \in {"m9", "m10", "pulling", "ack"} =>
          /\ pv'[n].pc = pv[n].pc /\ pv'[n].bk = pv[n].bk /\ pv'[n].bkMark = pv[n].bkMark
          /\ pv'[n].mark = pv[n].mark /\ pv'[n].has = pv[n].has
    BY <1>8, OldestThere, SlaveUploadsStep DEF OnInv, Step
  <2>2. \A n \in Peers : pv'[n].pc \in {"upload", "mark"} =>
          pv'[n].next # NoMark \/ (pv[n].pc \in {"upload", "mark"} /\ pv'[n].next = pv[n].next)
    BY <1>8, OldestThere, SecondIsNoMark, SlaveUploadsStep DEF OnInv, Step
  <2> QED BY <2>1, <2>2, BackedStays
<1>9. ASSUME NEW m \in Peers, MasterDownloads(m)
      PROVE  \A n \in Peers : Backed(n)'
  BY <1>9, LateGrows, OldestStays, OldestThere, MasterDownloadsStep DEF OnInv, Told, Backed, Step
<1>10. ASSUME NEW m \in Peers, MasterMerges(m)
      PROVE  \A n \in Peers : Backed(n)'
  <2>1. /\ pv'[m].pc = "m10" /\ pv[m].pc = "m9" /\ pv[m].has \subseteq pv'[m].has
        /\ pv'[m].bk = pv[m].bk /\ pv'[m].bkMark = pv[m].bkMark
        /\ pv'[m].mark = pv[m].mark /\ pv'[m].pc \notin {"m9"}
        /\ pv'[m].pc = "m10" => pv[m].pc = "m9"
        /\ pv'[m].pc \notin {"upload", "mark"}
        /\ \A n \in Peers : n # m => pv'[n] = pv[n]
    BY <1>10, OldestThere, MasterMergesStep DEF OnInv, Step
  <2>2. Backed(m)'
    BY <2>1, LateGrows DEF OnInv, Told, Backed
  <2>3. ASSUME NEW n \in Peers, n # m
        PROVE  Backed(n)'
    BY <2>1, <2>3, BackedStays DEF OnInv, Told, Backed
  <2> QED BY <2>2, <2>3
<1>11. ASSUME NEW m \in Peers, MasterMarks(m)
      PROVE  \A n \in Peers : Backed(n)'
  BY <1>11, LateGrows, OldestStays, OldestThere, MasterMarksStep DEF OnInv, Told, Backed, Step
<1>12. ASSUME NEW m \in Peers, MasterUploads(m)
      PROVE  \A n \in Peers : Backed(n)'
  BY <1>12, LateGrows, OldestStays, OldestThere, MasterUploadsStep DEF OnInv, Told, Backed, Step
<1>13. ASSUME NEW m \in Peers, SlaveImports(m)
      PROVE  \A n \in Peers : Backed(n)'
  <2>1. \A n \in Peers : pv'[n].pc \in {"m9", "m10", "pulling", "ack"} =>
          /\ pv'[n].pc = pv[n].pc /\ pv'[n].bk = pv[n].bk /\ pv'[n].bkMark = pv[n].bkMark
          /\ pv'[n].mark = pv[n].mark /\ pv'[n].has = pv[n].has
    BY <1>13, OldestThere, SlaveImportsStep DEF OnInv, Step
  <2>2. \A n \in Peers : pv'[n].pc \in {"upload", "mark"} =>
          pv'[n].next # NoMark \/ (pv[n].pc \in {"upload", "mark"} /\ pv'[n].next = pv[n].next)
    BY <1>13, OldestThere, SecondIsNoMark, SlaveImportsStep DEF OnInv, Step
  <2> QED BY <2>1, <2>2, BackedStays
<1>14. ASSUME NEW m \in Peers, SlaveReports(m)
      PROVE  \A n \in Peers : Backed(n)'
  BY <1>14, LateGrows, OldestStays, OldestThere, SlaveReportsStep DEF OnInv, Told, Backed, Step,
     Ends
<1>15. ASSUME NEW m \in Peers, MasterEnds(m)
      PROVE  \A n \in Peers : Backed(n)'
  BY <1>15, LateGrows, OldestStays, OldestThere, MasterEndsStep DEF OnInv, Told, Backed, Step, Ends
<1>16. ASSUME NEW m \in Peers, MergeFails(m)
      PROVE  \A n \in Peers : Backed(n)'
  BY <1>16, LateGrows, OldestStays, OldestThere, MergeFailsStep DEF OnInv, Told, Backed, Step,
     Ends, Restores
<1>17. ASSUME NEW m \in Peers, SessionGone(m)
      PROVE  \A n \in Peers : Backed(n)'
  BY <1>17, LateGrows, OldestStays, OldestThere, SessionGoneStep DEF OnInv, Told, Backed, Step, Ends
<1>18. ASSUME NEW m \in Peers, NetworkFails(m)
      PROVE  \A n \in Peers : Backed(n)'
  BY <1>18, LateGrows, OldestStays, OldestThere, NetworkFailsStep DEF OnInv, Told, Backed, Step,
     Ends
<1>19. ASSUME NEW m \in Peers, async_pending(m)
      PROVE  \A n \in Peers : Backed(n)'
  BY <1>19, LateGrows, OldestStays, OldestThere, async_pendingStep DEF OnInv, Told, Backed, Step
<1>20. ASSUME NEW m \in Peers, async_reject(m)
      PROVE  \A n \in Peers : Backed(n)'
  <2>1. \A n \in Peers : pv'[n].pc \in {"m9", "m10", "pulling", "ack"} =>
          /\ pv'[n].pc = pv[n].pc /\ pv'[n].bk = pv[n].bk /\ pv'[n].bkMark = pv[n].bkMark
          /\ pv'[n].mark = pv[n].mark /\ pv'[n].has = pv[n].has
    BY <1>20, OldestThere, async_rejectStep DEF OnInv, Step
  <2>2. \A n \in Peers : pv'[n].pc \in {"upload", "mark"} =>
          pv'[n].next # NoMark \/ (pv[n].pc \in {"upload", "mark"} /\ pv'[n].next = pv[n].next)
    BY <1>20, OldestThere, SecondIsNoMark, async_rejectStep DEF OnInv, Step
  <2> QED BY <2>1, <2>2, BackedStays
<1>21. ASSUME NEW m \in Peers, DownloadFails(m)
      PROVE  \A n \in Peers : Backed(n)'
  BY <1>21, LateGrows, OldestStays, OldestThere, DownloadFailsStep DEF OnInv, Told, Backed, Step,
     Ends
<1>22. ASSUME NEW m \in Peers, AsyncMerge(m)
      PROVE  \A n \in Peers : Backed(n)'
  <2>1. /\ pv'[m].bk = pv[m].bk /\ pv'[m].has = pv[m].has \cup Oldest(m).edits
        /\ pv'[m].mark = utc + 1
        /\ pv'[m].pc = "ack" /\ cloud'.pkgs = cloud.pkgs /\ past'.late = LateWith(m, pv[m].has)
        /\ Oldest(m).up /\ pv[m].pc = "pulling" /\ OnTypeOK
        /\ \A n \in Peers : n # m => pv'[n] = pv[n]
    BY <1>22, OldestThere, AsyncMergeStep DEF OnInv, Step, History
  <2>2. Oldest(m)' = Oldest(m) /\ past'.late[m] = past.late[m] \cup pv[m].has
    BY <2>1, OldestSame, LateField
  <2>3. utc + 1 \notin {0, NoMark}
    BY <2>1, Seconds, SecondIsNoMark
  <2>4. Backed(m)'
    BY <2>1, <2>2, <2>3 DEF OnInv, Told, Backed
  <2>5. ASSUME NEW n \in Peers, n # m
        PROVE  Backed(n)'
    BY <2>1, <2>5, LateGrows, OldestStays DEF OnInv, Told, Backed
  <2> QED BY <2>4, <2>5
<1>23. ASSUME NEW m \in Peers, AsyncMergeFails(m)
      PROVE  \A n \in Peers : Backed(n)'
  <2>1. \A n \in Peers : pv'[n].pc \in {"m9", "m10", "pulling", "ack"} =>
          /\ pv'[n].pc = pv[n].pc /\ pv'[n].bk = pv[n].bk /\ pv'[n].bkMark = pv[n].bkMark
          /\ pv'[n].mark = pv[n].mark /\ pv'[n].has = pv[n].has
    BY <1>23, OldestThere, AsyncMergeFailsStep DEF OnInv, Step, Restores
  <2>2. \A n \in Peers : pv'[n].pc \in {"upload", "mark"} =>
          pv'[n].next # NoMark \/ (pv[n].pc \in {"upload", "mark"} /\ pv'[n].next = pv[n].next)
    BY <1>23, OldestThere, SecondIsNoMark, AsyncMergeFailsStep DEF OnInv, Step, Restores
  <2> QED BY <2>1, <2>2, BackedStays
<1>24. ASSUME NEW m \in Peers, async_ack(m)
      PROVE  \A n \in Peers : Backed(n)'
  <2>1. /\ pv'[m].pc # "ack" /\ pv[m].pc = "ack" /\ pv[m].has = pv'[m].has
        /\ pv'[m].bk = pv[m].bk /\ pv'[m].bkMark = pv[m].bkMark
        /\ pv'[m].mark = pv[m].mark /\ pv'[m].pc \notin {"m9"}
        /\ pv'[m].pc = "m10" => pv[m].pc = "m9"
        /\ pv'[m].pc \notin {"upload", "mark"}
        /\ \A n \in Peers : n # m => pv'[n] = pv[n]
    BY <1>24, OldestThere, async_ackStep DEF OnInv, Step
  <2>2. Backed(m)'
    BY <2>1, LateGrows DEF OnInv, Told, Backed
  <2>3. ASSUME NEW n \in Peers, n # m
        PROVE  Backed(n)'
    BY <2>1, <2>3, BackedStays DEF OnInv, Told, Backed
  <2> QED BY <2>2, <2>3
<1>25. ASSUME NEW m \in Peers, async_push(m)
      PROVE  \A n \in Peers : Backed(n)'
  <2>1. \A n \in Peers : pv'[n].pc \in {"m9", "m10", "pulling", "ack"} =>
          /\ pv'[n].pc = pv[n].pc /\ pv'[n].bk = pv[n].bk /\ pv'[n].bkMark = pv[n].bkMark
          /\ pv'[n].mark = pv[n].mark /\ pv'[n].has = pv[n].has
    BY <1>25, OldestThere, async_pushStep DEF OnInv, Step
  <2>2. \A n \in Peers : pv'[n].pc \in {"upload", "mark"} =>
          pv'[n].next # NoMark \/ (pv[n].pc \in {"upload", "mark"} /\ pv'[n].next = pv[n].next)
    BY <1>25, OldestThere, SecondIsNoMark, async_pushStep DEF OnInv, Step
  <2> QED BY <2>1, <2>2, BackedStays
<1>26. ASSUME NEW m \in Peers, AsyncUpload(m)
      PROVE  \A n \in Peers : Backed(n)'
  <2>1. \A n \in Peers : pv'[n].pc \in {"m9", "m10", "pulling", "ack"} =>
          /\ pv'[n].pc = pv[n].pc /\ pv'[n].bk = pv[n].bk /\ pv'[n].bkMark = pv[n].bkMark
          /\ pv'[n].mark = pv[n].mark /\ pv'[n].has = pv[n].has
    BY <1>26, OldestThere, AsyncUploadStep DEF OnInv, Step
  <2>2. \A n \in Peers : pv'[n].pc \in {"upload", "mark"} =>
          pv'[n].next # NoMark \/ (pv[n].pc \in {"upload", "mark"} /\ pv'[n].next = pv[n].next)
    BY <1>26, OldestThere, SecondIsNoMark, AsyncUploadStep DEF OnInv, Step
  <2> QED BY <2>1, <2>2, BackedStays
<1>27. ASSUME NEW m \in Peers, AsyncMark(m)
      PROVE  \A n \in Peers : Backed(n)'
  BY <1>27, LateGrows, OldestStays, OldestThere, AsyncMarkStep DEF OnInv, Told, Backed, Step
<1> QED BY <1>1, <1>2, <1>3, <1>4, <1>5, <1>6, <1>7, <1>8, <1>9, <1>10, <1>11, <1>12, <1>13,
   <1>14, <1>15, <1>16, <1>17, <1>18, <1>19, <1>20, <1>21, <1>22, <1>23, <1>24, <1>25, <1>26,
   <1>27 DEF OnNext

\* Markers and backups stay as they should.
LEMMA ToldKept ==
  ASSUME OnInv, [OnNext]_onVars
  PROVE  Told'
BY MarksKept, EditsKept, BackedKept DEF Told, Dated

\* A package with an edit that the other machine may yet lose is of this machine.
LEMMA PackageFrom ==
  ASSUME OnInv, NEW m \in Peers, NEW o \in Peers, m # o, NEW x, x \notin Sure(o),
         NEW p \in cloud.pkgs, x \in p.edits
  PROVE  p.from = m
<1>1. p.from \in Peers /\ p.edits \subseteq Sure(p.from)
  BY Seconds DEF OnInv, Packed, PackagesHold
<1> QED BY <1>1, TwoPeers

\* A package leaves only when its edits have been overtaken, or with the other machine.
LEMMA PackageGoes ==
  ASSUME OnInv, [OnNext]_onVars, NEW m \in Peers, NEW o \in Peers, m # o, NEW x,
         x \notin Sure(o), x \notin Sure(o)',
         NEW p \in cloud.pkgs, x \in p.edits
  PROVE  Safe(m, o, x)' \/ \E q \in cloud'.pkgs : x \in q.edits /\ q.id = p.id /\ (p.up => q.up)
<1>1. CASE UNCHANGED onVars
  BY <1>1 DEF onVars
<1>2. CASE Expires
  <2>1. cloud'.pkgs = cloud.pkgs
    BY <1>2, ExpiresStep DEF OnInv, Server
  <2> QED BY <2>1
<1>3. ASSUME NEW w \in Peers, EditRow(w)
      PROVE  Safe(m, o, x)' \/ \E q \in cloud'.pkgs : x \in q.edits /\ q.id = p.id /\ (p.up => q.up)
  <2>1. cloud'.pkgs = cloud.pkgs
    BY <1>3, OldestThere, EditRowStep DEF OnInv, Server
  <2> QED BY <2>1
<1>4. ASSUME NEW w \in Peers, handle_online_trigger_sync(w)
      PROVE  Safe(m, o, x)' \/ \E q \in cloud'.pkgs : x \in q.edits /\ q.id = p.id /\ (p.up => q.up)
  <2>1. cloud'.pkgs = cloud.pkgs
    BY <1>4, OldestThere, TriggerStep DEF OnInv, Server
  <2> QED BY <2>1
<1>5. ASSUME NEW w \in Peers, create_session(w)
      PROVE  Safe(m, o, x)' \/ \E q \in cloud'.pkgs : x \in q.edits /\ q.id = p.id /\ (p.up => q.up)
  <2>1. cloud'.pkgs = cloud.pkgs
    BY <1>5, OldestThere, CreateStep DEF OnInv, Server, Creates, Joins, Declined
  <2> QED BY <2>1
<1>6. ASSUME NEW w \in Peers, wait_for_peer(w)
      PROVE  Safe(m, o, x)' \/ \E q \in cloud'.pkgs : x \in q.edits /\ q.id = p.id /\ (p.up => q.up)
  <2>1. cloud'.pkgs = cloud.pkgs
    BY <1>6, OldestThere, wait_for_peerStep DEF OnInv, Server
  <2> QED BY <2>1
<1>7. ASSUME NEW w \in Peers, Freeze5(w)
      PROVE  Safe(m, o, x)' \/ \E q \in cloud'.pkgs : x \in q.edits /\ q.id = p.id /\ (p.up => q.up)
  <2>1. cloud'.pkgs = cloud.pkgs
    BY <1>7, OldestThere, Freeze5Step DEF OnInv, Server
  <2> QED BY <2>1
<1>8. ASSUME NEW w \in Peers, SlaveUploads(w)
      PROVE  Safe(m, o, x)' \/ \E q \in cloud'.pkgs : x \in q.edits /\ q.id = p.id /\ (p.up => q.up)
  <2>1. cloud'.pkgs = cloud.pkgs
    BY <1>8, OldestThere, SlaveUploadsStep DEF OnInv, Server
  <2> QED BY <2>1
<1>9. ASSUME NEW w \in Peers, MasterDownloads(w)
      PROVE  Safe(m, o, x)' \/ \E q \in cloud'.pkgs : x \in q.edits /\ q.id = p.id /\ (p.up => q.up)
  <2>1. cloud'.pkgs = cloud.pkgs
    BY <1>9, OldestThere, MasterDownloadsStep DEF OnInv, Server
  <2> QED BY <2>1
<1>10. ASSUME NEW w \in Peers, MasterMerges(w)
      PROVE  Safe(m, o, x)' \/ \E q \in cloud'.pkgs : x \in q.edits /\ q.id = p.id /\ (p.up => q.up)
  <2>1. cloud'.pkgs = cloud.pkgs
    BY <1>10, OldestThere, MasterMergesStep DEF OnInv, Server
  <2> QED BY <2>1
<1>11. ASSUME NEW w \in Peers, MasterMarks(w)
      PROVE  Safe(m, o, x)' \/ \E q \in cloud'.pkgs : x \in q.edits /\ q.id = p.id /\ (p.up => q.up)
  <2>1. cloud'.pkgs = cloud.pkgs
    BY <1>11, OldestThere, MasterMarksStep DEF OnInv, Server
  <2> QED BY <2>1
<1>12. ASSUME NEW w \in Peers, MasterUploads(w)
      PROVE  Safe(m, o, x)' \/ \E q \in cloud'.pkgs : x \in q.edits /\ q.id = p.id /\ (p.up => q.up)
  <2>1. cloud'.pkgs = cloud.pkgs
    BY <1>12, OldestThere, MasterUploadsStep DEF OnInv, Server
  <2> QED BY <2>1
<1>13. ASSUME NEW w \in Peers, SlaveImports(w)
      PROVE  Safe(m, o, x)' \/ \E q \in cloud'.pkgs : x \in q.edits /\ q.id = p.id /\ (p.up => q.up)
  <2>1. cloud'.pkgs = cloud.pkgs
    BY <1>13, OldestThere, SlaveImportsStep DEF OnInv, Server
  <2> QED BY <2>1
<1>14. ASSUME NEW w \in Peers, SlaveReports(w)
      PROVE  Safe(m, o, x)' \/ \E q \in cloud'.pkgs : x \in q.edits /\ q.id = p.id /\ (p.up => q.up)
  <2>1. cloud'.pkgs = cloud.pkgs
    BY <1>14, OldestThere, SlaveReportsStep DEF OnInv, Server
  <2> QED BY <2>1
<1>15. ASSUME NEW w \in Peers, MasterEnds(w)
      PROVE  Safe(m, o, x)' \/ \E q \in cloud'.pkgs : x \in q.edits /\ q.id = p.id /\ (p.up => q.up)
  <2>1. cloud'.pkgs = cloud.pkgs
    BY <1>15, OldestThere, MasterEndsStep DEF OnInv, Server
  <2> QED BY <2>1
<1>16. ASSUME NEW w \in Peers, MergeFails(w)
      PROVE  Safe(m, o, x)' \/ \E q \in cloud'.pkgs : x \in q.edits /\ q.id = p.id /\ (p.up => q.up)
  <2>1. cloud'.pkgs = cloud.pkgs
    BY <1>16, OldestThere, MergeFailsStep DEF OnInv, Server, Cancelled
  <2> QED BY <2>1
<1>17. ASSUME NEW w \in Peers, SessionGone(w)
      PROVE  Safe(m, o, x)' \/ \E q \in cloud'.pkgs : x \in q.edits /\ q.id = p.id /\ (p.up => q.up)
  <2>1. cloud'.pkgs = cloud.pkgs
    BY <1>17, OldestThere, SessionGoneStep DEF OnInv, Server
  <2> QED BY <2>1
<1>18. ASSUME NEW w \in Peers, NetworkFails(w)
      PROVE  Safe(m, o, x)' \/ \E q \in cloud'.pkgs : x \in q.edits /\ q.id = p.id /\ (p.up => q.up)
  <2>1. cloud'.pkgs = cloud.pkgs
    BY <1>18, OldestThere, NetworkFailsStep DEF OnInv, Server, Cancelled
  <2> QED BY <2>1
<1>19. ASSUME NEW w \in Peers, async_pending(w)
      PROVE  Safe(m, o, x)' \/ \E q \in cloud'.pkgs : x \in q.edits /\ q.id = p.id /\ (p.up => q.up)
  <2>1. cloud'.pkgs = cloud.pkgs
    BY <1>19, OldestThere, async_pendingStep DEF OnInv, Server
  <2> QED BY <2>1
<1>20. ASSUME NEW w \in Peers, async_reject(w)
      PROVE  Safe(m, o, x)' \/ \E q \in cloud'.pkgs : x \in q.edits /\ q.id = p.id /\ (p.up => q.up)
  <2>1. /\ cloud'.pkgs = cloud.pkgs \ {Oldest(w)} /\ OnTypeOK /\ Oldest(w).from \in Peers
        /\ past'.late = LateWith(Oldest(w).from, Oldest(w).edits)
    BY <1>20, OldestThere, async_rejectStep DEF OnInv, Server, History
  <2>2. CASE p = Oldest(w)
    <3>1. Oldest(w).from = m
      BY <2>2, PackageFrom
    <3>2. x \in past'.late[m]
      BY <2>1, <2>2, <3>1, LateField
    <3> QED BY <3>2 DEF Safe
  <2> QED BY <2>1, <2>2
<1>21. ASSUME NEW w \in Peers, DownloadFails(w)
      PROVE  Safe(m, o, x)' \/ \E q \in cloud'.pkgs : x \in q.edits /\ q.id = p.id /\ (p.up => q.up)
  <2>1. cloud'.pkgs = cloud.pkgs
    BY <1>21, OldestThere, DownloadFailsStep DEF OnInv, Server
  <2> QED BY <2>1
<1>22. ASSUME NEW w \in Peers, AsyncMerge(w)
      PROVE  Safe(m, o, x)' \/ \E q \in cloud'.pkgs : x \in q.edits /\ q.id = p.id /\ (p.up => q.up)
  <2>1. cloud'.pkgs = cloud.pkgs
    BY <1>22, OldestThere, AsyncMergeStep DEF OnInv, Server
  <2> QED BY <2>1
<1>23. ASSUME NEW w \in Peers, AsyncMergeFails(w)
      PROVE  Safe(m, o, x)' \/ \E q \in cloud'.pkgs : x \in q.edits /\ q.id = p.id /\ (p.up => q.up)
  <2>1. /\ cloud'.pkgs = cloud.pkgs \ {Oldest(w)} /\ OnTypeOK /\ Oldest(w).from \in Peers
        /\ past'.late = LateWith(Oldest(w).from, Oldest(w).edits)
    BY <1>23, OldestThere, AsyncMergeFailsStep DEF OnInv, Server, History
  <2>2. CASE p = Oldest(w)
    <3>1. Oldest(w).from = m
      BY <2>2, PackageFrom
    <3>2. x \in past'.late[m]
      BY <2>1, <2>2, <3>1, LateField
    <3> QED BY <3>2 DEF Safe
  <2> QED BY <2>1, <2>2
<1>24. ASSUME NEW w \in Peers, async_ack(w)
      PROVE  Safe(m, o, x)' \/ \E q \in cloud'.pkgs : x \in q.edits /\ q.id = p.id /\ (p.up => q.up)
  <2>1. /\ cloud'.pkgs = cloud.pkgs \ {Oldest(w)} /\ Oldest(w).from # w
        /\ pv[w].pc = "ack" /\ pv'[w].pc \in {"push", "pulling"} /\ pv'[w].has = pv[w].has
        /\ pv'[w].mark = pv[w].mark
    BY <1>24, OldestThere, async_ackStep DEF OnInv, Server, Step
  <2>2. CASE p = Oldest(w)
    <3>1. Oldest(w).from = m /\ w = o
      BY <2>1, <2>2, PackageFrom, TwoPeers
    <3>2. x \in pv'[o].has /\ pv'[o].mark \notin {0, NoMark}
      BY <2>1, <2>2, <3>1 DEF OnInv, Told, Backed
    <3>3. pv'[o].pc = "pulling"
      BY <2>1, <3>1, <3>2 DEF Sure
    <3>4. ASSUME NEW q \in Pending(o)', q.base = NoMark
          PROVE  x \in q.edits
      <4>1. q \in Pending(o) /\ q # p /\ q \in cloud.pkgs /\ q.from # o /\ q.from \in Peers
        BY <2>1, <2>2, <3>4, Seconds DEF Pending, OnInv
      <4>2. q.from = p.from
        BY <2>2, <3>1, <4>1, TwoPeers
      <4>3. p.id <= q.id /\ p.id # q.id /\ p.id \in Nat /\ q.id \in Nat
        BY <1>24, <2>1, <2>2, <3>1, <4>1, OldestThere, Seconds DEF OnInv, Packed, PackagesHold
      <4> QED BY <3>4, <4>1, <4>2, <4>3 DEF OnInv, Packed, PackagesHold
    <3> QED BY <3>2, <3>3, <3>4 DEF Safe, Doomed
  <2> QED BY <2>1, <2>2
<1>25. ASSUME NEW w \in Peers, async_push(w)
      PROVE  Safe(m, o, x)' \/ \E q \in cloud'.pkgs : x \in q.edits /\ q.id = p.id /\ (p.up => q.up)
  <2>1. cloud'.pkgs = cloud.pkgs \cup {NewPackage(w)}
    BY <1>25, async_pushStep DEF OnInv, Server
  <2> QED BY <2>1
<1>26. ASSUME NEW w \in Peers, AsyncUpload(w)
      PROVE  Safe(m, o, x)' \/ \E q \in cloud'.pkgs : x \in q.edits /\ q.id = p.id /\ (p.up => q.up)
  <2>1. cloud'.pkgs = {Uploaded(q, pv[w].next) : q \in cloud.pkgs}
    BY <1>26, AsyncUploadStep DEF OnInv, Server
  <2>2. Uploaded(p, pv[w].next) \in cloud'.pkgs
    BY <2>1
  <2> QED BY <2>2, Seconds, UploadedFields DEF OnInv
<1>27. ASSUME NEW w \in Peers, AsyncMark(w)
      PROVE  Safe(m, o, x)' \/ \E q \in cloud'.pkgs : x \in q.edits /\ q.id = p.id /\ (p.up => q.up)
  <2>1. cloud'.pkgs = cloud.pkgs
    BY <1>27, OldestThere, AsyncMarkStep DEF OnInv, Server
  <2> QED BY <2>1
<1> QED BY <1>1, <1>2, <1>3, <1>4, <1>5, <1>6, <1>7, <1>8, <1>9, <1>10, <1>11, <1>12, <1>13,
   <1>14, <1>15, <1>16, <1>17, <1>18, <1>19, <1>20, <1>21, <1>22, <1>23, <1>24, <1>25, <1>26,
   <1>27 DEF OnNext

\* The package that the other machine is at has the edit that it will lose: a package made
\* on its own latest marker is not there.
LEMMA DoomedOldest ==
  ASSUME OnInv, NEW o \in Peers, NEW x, Doomed(o, x), Oldest(o).base \in {NoMark, pv[o].mark}
  PROVE  x \in Oldest(o).edits
<1>1. /\ Oldest(o) \in Pending(o) /\ Oldest(o) \in cloud.pkgs /\ Oldest(o).from \in Peers
      /\ Oldest(o).from # o /\ Oldest(o).base \in Marks
  BY OldestThere DEF OnInv, Doomed, Package
<1>2. pv[o].mark \notin {0, NoMark} /\ \A p \in Pending(o) : p.base = NoMark => x \in p.edits
  BY DEF Doomed
<1>3. Holds(Oldest(o).from, Oldest(o).base) /\ Holds(o, pv[o].mark)
  BY <1>1 DEF Holds
<1>4. Oldest(o).base = NoMark
  BY <1>1, <1>2, <1>3 DEF OnInv, Told
<1> QED BY <1>1, <1>2, <1>4

\* It stays so while the other machine and its packages do.
LEMMA DoomedStays ==
  ASSUME NEW m \in Peers, NEW o \in Peers, NEW x, Doomed(o, x),
         cloud'.pkgs = cloud.pkgs, pv'[o] = pv[o]
  PROVE  Safe(m, o, x)'
BY DEF Doomed, Safe, Pending

\* An edit that the other machine will lose is overtaken when it does.
LEMMA DoomedGoes ==
  ASSUME OnInv, [OnNext]_onVars, NEW m \in Peers, NEW o \in Peers, m # o, NEW x,
         x \notin Sure(o), x \notin Sure(o)',
         x \in pv'[m].has, Doomed(o, x)
  PROVE  Safe(m, o, x)'
<1>1. CASE UNCHANGED onVars
  <2>1. cloud'.pkgs = cloud.pkgs /\ pv'[o] = pv[o]
    BY <1>1 DEF onVars
  <2> QED BY <2>1, DoomedStays
<1>2. CASE Expires
  <2>1. cloud'.pkgs = cloud.pkgs /\ pv'[o] = pv[o]
    BY <1>2, ExpiresStep DEF OnInv, Server
  <2> QED BY <2>1, DoomedStays
<1>3. ASSUME NEW w \in Peers, EditRow(w)
      PROVE  Safe(m, o, x)'
  <2>1. /\ cloud'.pkgs = cloud.pkgs
        /\ \A n \in Peers :
             pv'[n].pc = pv[n].pc /\ pv'[n].mark = pv[n].mark /\ pv[n].has \subseteq pv'[n].has
    BY <1>3, EditRowStep DEF OnInv, Step
  <2> QED BY <2>1 DEF Doomed, Safe, Pending
<1>4. ASSUME NEW w \in Peers, handle_online_trigger_sync(w)
      PROVE  Safe(m, o, x)'
  <2>1. /\ pv[w].pc # "pulling" /\ cloud'.pkgs = cloud.pkgs
        /\ \A n \in Peers : n # w => pv'[n] = pv[n]
    BY <1>4, OldestThere, TriggerStep DEF OnInv, Step, Server
  <2> QED BY <2>1, DoomedStays DEF Doomed
<1>5. ASSUME NEW w \in Peers, create_session(w)
      PROVE  Safe(m, o, x)'
  <2>1. /\ pv[w].pc # "pulling" /\ cloud'.pkgs = cloud.pkgs
        /\ \A n \in Peers : n # w => pv'[n] = pv[n]
    BY <1>5, OldestThere, CreateStep DEF OnInv, Step, Server, Creates, Joins, Declined, Ends
  <2> QED BY <2>1, DoomedStays DEF Doomed
<1>6. ASSUME NEW w \in Peers, wait_for_peer(w)
      PROVE  Safe(m, o, x)'
  <2>1. /\ pv[w].pc # "pulling" /\ cloud'.pkgs = cloud.pkgs
        /\ \A n \in Peers : n # w => pv'[n] = pv[n]
    BY <1>6, OldestThere, wait_for_peerStep DEF OnInv, Step, Server
  <2> QED BY <2>1, DoomedStays DEF Doomed
<1>7. ASSUME NEW w \in Peers, Freeze5(w)
      PROVE  Safe(m, o, x)'
  <2>1. /\ pv[w].pc # "pulling" /\ cloud'.pkgs = cloud.pkgs
        /\ \A n \in Peers : n # w => pv'[n] = pv[n]
    BY <1>7, OldestThere, Freeze5Step DEF OnInv, Step, Server
  <2> QED BY <2>1, DoomedStays DEF Doomed
<1>8. ASSUME NEW w \in Peers, SlaveUploads(w)
      PROVE  Safe(m, o, x)'
  <2>1. /\ pv[w].pc # "pulling" /\ cloud'.pkgs = cloud.pkgs
        /\ \A n \in Peers : n # w => pv'[n] = pv[n]
    BY <1>8, OldestThere, SlaveUploadsStep DEF OnInv, Step, Server
  <2> QED BY <2>1, DoomedStays DEF Doomed
<1>9. ASSUME NEW w \in Peers, MasterDownloads(w)
      PROVE  Safe(m, o, x)'
  <2>1. /\ pv[w].pc # "pulling" /\ cloud'.pkgs = cloud.pkgs
        /\ \A n \in Peers : n # w => pv'[n] = pv[n]
    BY <1>9, OldestThere, MasterDownloadsStep DEF OnInv, Step, Server
  <2> QED BY <2>1, DoomedStays DEF Doomed
<1>10. ASSUME NEW w \in Peers, MasterMerges(w)
      PROVE  Safe(m, o, x)'
  <2>1. /\ pv[w].pc # "pulling" /\ cloud'.pkgs = cloud.pkgs
        /\ \A n \in Peers : n # w => pv'[n] = pv[n]
    BY <1>10, OldestThere, MasterMergesStep DEF OnInv, Step, Server
  <2> QED BY <2>1, DoomedStays DEF Doomed
<1>11. ASSUME NEW w \in Peers, MasterMarks(w)
      PROVE  Safe(m, o, x)'
  <2>1. /\ pv[w].pc # "pulling" /\ cloud'.pkgs = cloud.pkgs
        /\ \A n \in Peers : n # w => pv'[n] = pv[n]
    BY <1>11, OldestThere, MasterMarksStep DEF OnInv, Step, Server
  <2> QED BY <2>1, DoomedStays DEF Doomed
<1>12. ASSUME NEW w \in Peers, MasterUploads(w)
      PROVE  Safe(m, o, x)'
  <2>1. /\ pv[w].pc # "pulling" /\ cloud'.pkgs = cloud.pkgs
        /\ \A n \in Peers : n # w => pv'[n] = pv[n]
    BY <1>12, OldestThere, MasterUploadsStep DEF OnInv, Step, Server
  <2> QED BY <2>1, DoomedStays DEF Doomed
<1>13. ASSUME NEW w \in Peers, SlaveImports(w)
      PROVE  Safe(m, o, x)'
  <2>1. /\ pv[w].pc # "pulling" /\ cloud'.pkgs = cloud.pkgs
        /\ \A n \in Peers : n # w => pv'[n] = pv[n]
    BY <1>13, OldestThere, SlaveImportsStep DEF OnInv, Step, Server
  <2> QED BY <2>1, DoomedStays DEF Doomed
<1>14. ASSUME NEW w \in Peers, SlaveReports(w)
      PROVE  Safe(m, o, x)'
  <2>1. /\ pv[w].pc # "pulling" /\ cloud'.pkgs = cloud.pkgs
        /\ \A n \in Peers : n # w => pv'[n] = pv[n]
    BY <1>14, OldestThere, SlaveReportsStep DEF OnInv, Step, Server, Ends
  <2> QED BY <2>1, DoomedStays DEF Doomed
<1>15. ASSUME NEW w \in Peers, MasterEnds(w)
      PROVE  Safe(m, o, x)'
  <2>1. /\ pv[w].pc # "pulling" /\ cloud'.pkgs = cloud.pkgs
        /\ \A n \in Peers : n # w => pv'[n] = pv[n]
    BY <1>15, OldestThere, MasterEndsStep DEF OnInv, Step, Server, Ends
  <2> QED BY <2>1, DoomedStays DEF Doomed
<1>16. ASSUME NEW w \in Peers, MergeFails(w)
      PROVE  Safe(m, o, x)'
  <2>1. /\ pv[w].pc # "pulling" /\ cloud'.pkgs = cloud.pkgs
        /\ \A n \in Peers : n # w => pv'[n] = pv[n]
    BY <1>16, OldestThere, MergeFailsStep DEF OnInv, Step, Server, Ends, Restores, Cancelled
  <2> QED BY <2>1, DoomedStays DEF Doomed
<1>17. ASSUME NEW w \in Peers, SessionGone(w)
      PROVE  Safe(m, o, x)'
  <2>1. /\ pv[w].pc # "pulling" /\ cloud'.pkgs = cloud.pkgs
        /\ \A n \in Peers : n # w => pv'[n] = pv[n]
    BY <1>17, OldestThere, SessionGoneStep DEF OnInv, Step, Server, Ends, SessionPcs
  <2> QED BY <2>1, DoomedStays DEF Doomed
<1>18. ASSUME NEW w \in Peers, NetworkFails(w)
      PROVE  Safe(m, o, x)'
  <2>1. /\ pv'[w].pc \notin {"m9", "m10", "pulling", "ack"} /\ pv'[w].has = pv[w].has
        /\ cloud'.pkgs = cloud.pkgs
        /\ \A n \in Peers : n # w => pv'[n] = pv[n]
    BY <1>18, OldestThere, NetworkFailsStep DEF OnInv, Step, Server, Ends, Cancelled
  <2>2. w # o
    BY <2>1 DEF Doomed, Sure
  <2> QED BY <2>1, <2>2, DoomedStays
<1>19. ASSUME NEW w \in Peers, async_pending(w)
      PROVE  Safe(m, o, x)'
  <2>1. /\ pv[w].pc # "pulling" /\ cloud'.pkgs = cloud.pkgs
        /\ \A n \in Peers : n # w => pv'[n] = pv[n]
    BY <1>19, OldestThere, async_pendingStep DEF OnInv, Step, Server
  <2> QED BY <2>1, DoomedStays DEF Doomed
<1>20. ASSUME NEW w \in Peers, async_reject(w)
      PROVE  Safe(m, o, x)'
  <2>1. /\ pv'[w].pc \notin {"m9", "m10", "pulling", "ack"} /\ pv'[w].has = pv[w].has
        /\ \A n \in Peers : n # w => pv'[n] = pv[n]
    BY <1>20, OldestThere, async_rejectStep DEF OnInv, Step, Server
  <2>2. w # o
    BY <2>1 DEF Doomed, Sure
  <2>3. ASSUME w # o
        PROVE  Safe(m, o, x)'
    <3>1. /\ cloud'.pkgs = cloud.pkgs \ {Oldest(w)} /\ Oldest(w).from # w
          /\ Oldest(w).from \in Peers
      BY <1>20, OldestThere, async_rejectStep DEF OnInv, Server
    <3>2. Oldest(w).from = o /\ pv'[o] = pv[o]
      BY <2>1, <2>3, <3>1, TwoPeers
    <3> QED BY <3>1, <3>2 DEF Doomed, Safe, Pending
  <2> QED BY <2>2, <2>3
<1>21. ASSUME NEW w \in Peers, DownloadFails(w)
      PROVE  Safe(m, o, x)'
  <2>1. /\ pv'[w].pc \notin {"m9", "m10", "pulling", "ack"} /\ pv'[w].has = pv[w].has
        /\ cloud'.pkgs = cloud.pkgs
        /\ \A n \in Peers : n # w => pv'[n] = pv[n]
    BY <1>21, OldestThere, DownloadFailsStep DEF OnInv, Step, Server, Ends
  <2>2. w # o
    BY <2>1 DEF Doomed, Sure
  <2> QED BY <2>1, <2>2, DoomedStays
<1>22. ASSUME NEW w \in Peers, AsyncMerge(w)
      PROVE  Safe(m, o, x)'
  <2>1. /\ cloud'.pkgs = cloud.pkgs /\ \A n \in Peers : n # w => pv'[n] = pv[n]
        /\ pv[w].pc = "pulling" /\ Oldest(w).base \in {NoMark, pv[w].mark} /\ Oldest(w).up
    BY <1>22, OldestThere, AsyncMergeStep DEF OnInv, Step
  <2>2. CASE w = o
    <3>1. x \in Oldest(o).edits /\ Oldest(o) \in cloud'.pkgs /\ Oldest(o).up
      BY <2>1, <2>2, OldestThere, DoomedOldest DEF OnInv
    <3> QED BY <3>1 DEF Safe, InPackage
  <2>3. CASE w # o
    BY <2>1, <2>3, DoomedStays
  <2> QED BY <2>2, <2>3
<1>23. ASSUME NEW w \in Peers, AsyncMergeFails(w)
      PROVE  Safe(m, o, x)'
  <2>1. /\ pv'[w].pc = "idle" /\ pv'[w].has = pv[w].bk /\ \A n \in Peers : n # w => pv'[n] = pv[n]
        /\ pv[w].pc = "pulling" /\ Oldest(w).base \in {NoMark, pv[w].mark}
        /\ past'.late = LateWith(Oldest(w).from, Oldest(w).edits) /\ OnTypeOK
    BY <1>23, OldestThere, AsyncMergeFailsStep DEF OnInv, Step, Restores, History
  <2>2. CASE w = o
    <3>1. x \in Oldest(o).edits /\ Oldest(o).from \in Peers /\ Oldest(o).from # o
      BY <2>1, <2>2, OldestThere, DoomedOldest DEF OnInv
    <3>2. Oldest(o).from = m
      BY <3>1, TwoPeers
    <3>3. x \in past'.late[m]
      BY <2>1, <2>2, <3>1, <3>2, LateField
    <3> QED BY <3>3 DEF Safe
  <2>3. ASSUME w # o
        PROVE  Safe(m, o, x)'
    <3>1. /\ cloud'.pkgs = cloud.pkgs \ {Oldest(w)} /\ Oldest(w).from # w
          /\ Oldest(w).from \in Peers
      BY <1>23, OldestThere, AsyncMergeFailsStep DEF OnInv, Server
    <3>2. Oldest(w).from = o /\ pv'[o] = pv[o]
      BY <2>1, <2>3, <3>1, TwoPeers
    <3> QED BY <3>1, <3>2 DEF Doomed, Safe, Pending
  <2> QED BY <2>2, <2>3
<1>24. ASSUME NEW w \in Peers, async_ack(w)
      PROVE  Safe(m, o, x)'
  <2>1. pv[w].pc # "pulling" /\ \A n \in Peers : n # w => pv'[n] = pv[n]
    BY <1>24, OldestThere, async_ackStep DEF OnInv, Step
  <2>2. w # o
    BY <2>1 DEF Doomed
  <2>3. ASSUME w # o
        PROVE  Safe(m, o, x)'
    <3>1. /\ cloud'.pkgs = cloud.pkgs \ {Oldest(w)} /\ Oldest(w).from # w
          /\ Oldest(w).from \in Peers
      BY <1>24, OldestThere, async_ackStep DEF OnInv, Server
    <3>2. Oldest(w).from = o /\ pv'[o] = pv[o]
      BY <2>1, <2>3, <3>1, TwoPeers
    <3> QED BY <3>1, <3>2 DEF Doomed, Safe, Pending
  <2> QED BY <2>2, <2>3
<1>25. ASSUME NEW w \in Peers, async_push(w)
      PROVE  Safe(m, o, x)'
  <2>1. /\ pv[w].pc # "pulling" /\ \A n \in Peers : n # w => pv'[n] = pv[n]
        /\ cloud'.pkgs = cloud.pkgs \cup {NewPackage(w)}
        /\ \A n \in Peers : pv'[n].has = pv[n].has
        /\ NewPackage(w).base = NoMark => NewPackage(w).edits = pv[w].has
    BY <1>25, async_pushStep DEF OnInv, Step, Server, NewPackage, Delta
  <2>2. w = m /\ pv'[o] = pv[o]
    BY <2>1, TwoPeers DEF Doomed
  <2> QED BY <2>1, <2>2 DEF Doomed, Safe, Pending
<1>26. ASSUME NEW w \in Peers, AsyncUpload(w)
      PROVE  Safe(m, o, x)'
  <2>1. /\ pv[w].pc # "pulling" /\ \A n \in Peers : n # w => pv'[n] = pv[n]
        /\ cloud'.pkgs = {Uploaded(q, pv[w].next) : q \in cloud.pkgs}
    BY <1>26, AsyncUploadStep DEF OnInv, Step, Server
  <2>2. pv'[o] = pv[o]
    BY <2>1 DEF Doomed
  <2>3. \A q \in cloud'.pkgs :
          \E p \in cloud.pkgs : q.from = p.from /\ q.base = p.base /\ q.edits = p.edits
    BY <2>1, Seconds, UploadedFields DEF OnInv
  <2> QED BY <2>2, <2>3 DEF Doomed, Safe, Pending
<1>27. ASSUME NEW w \in Peers, AsyncMark(w)
      PROVE  Safe(m, o, x)'
  <2>1. /\ pv[w].pc # "pulling" /\ cloud'.pkgs = cloud.pkgs
        /\ \A n \in Peers : n # w => pv'[n] = pv[n]
    BY <1>27, OldestThere, AsyncMarkStep DEF OnInv, Step, Server
  <2> QED BY <2>1, DoomedStays DEF Doomed
<1> QED BY <1>1, <1>2, <1>3, <1>4, <1>5, <1>6, <1>7, <1>8, <1>9, <1>10, <1>11, <1>12, <1>13,
   <1>14, <1>15, <1>16, <1>17, <1>18, <1>19, <1>20, <1>21, <1>22, <1>23, <1>24, <1>25, <1>26,
   <1>27 DEF OnNext

\* What keeps an edit from being forgotten goes on doing so.
LEMMA SafeStays ==
  ASSUME OnInv, [OnNext]_onVars, NEW m \in Peers, NEW o \in Peers, m # o, NEW x,
         x \notin Sure(o), x \notin Sure(o)',
         x \in pv'[m].has, Safe(m, o, x)
  PROVE  Safe(m, o, x)'
<1>1. CASE x \in past.late[m]
  BY <1>1, LateGrows DEF Safe
<1>2. CASE InPackage(x)
  <2>1. PICK p \in cloud.pkgs : x \in p.edits /\ p.up
    BY <1>2 DEF InPackage
  <2> QED BY <2>1, PackageGoes DEF Safe, InPackage
<1>3. CASE Doomed(o, x)
  BY <1>3, DoomedGoes
<1> QED BY <1>1, <1>2, <1>3 DEF Safe


\* An edit that was there, with the marker there was.
LEMMA TrackedStays ==
  ASSUME OnInv, [OnNext]_onVars, NEW m \in Peers, NEW o \in Peers, m # o, NEW x,
         x \notin Sure(o), x \notin Sure(o)',
         x \in pv[m].has, x \in pv'[m].has, pv'[m].mark = pv[m].mark,
         pv[m].pc \in {"m11", "m12"} => pv'[m].pc \in {"m11", "m12"}
  PROVE  Tracked(m, o, x)'
<1>1. Tracked(m, o, x)
  BY DEF OnInv, Covered, CoveredFrom
<1>2. CASE x \in Delta(m)
  BY <1>2 DEF Delta, Tracked
<1>3. CASE Safe(m, o, x)
  BY <1>3, SafeStays DEF Tracked
<1> QED BY <1>1, <1>2, <1>3 DEF Tracked

\* An edit that was there, with the marker to come that was to come.
LEMMA SentStays ==
  ASSUME OnInv, [OnNext]_onVars, NEW m \in Peers, NEW o \in Peers, m # o, NEW x,
         x \notin Sure(o), x \notin Sure(o)',
         x \in pv[m].has, x \in pv'[m].has,
         pv'[m].pc \in {"upload", "mark"} => pv'[m].pc = pv[m].pc /\ pv'[m].next = pv[m].next
  PROVE  Sent(m, o, x)'
<1> SUFFICES ASSUME pv'[m].pc \in {"upload", "mark"}
             PROVE  Sent(m, o, x)'
  BY DEF Sent
<1>1. pv'[m].pc = pv[m].pc /\ pv'[m].next = pv[m].next /\ Sent(m, o, x)
  BY DEF OnInv, Covered, CoveredFrom
<1>2. CASE x >= pv[m].next
  BY <1>1, <1>2 DEF Sent
<1>3. CASE Safe(m, o, x)
  BY <1>3, SafeStays DEF Sent
<1>4. ASSUME NEW p \in cloud.pkgs, x \in p.edits, p.id = pv[m].next, pv[m].pc = "upload"
      PROVE  Sent(m, o, x)'
  <2>1. Safe(m, o, x)' \/ \E q \in cloud'.pkgs : x \in q.edits /\ q.id = p.id
    BY <1>4, PackageGoes
  <2> QED BY <1>1, <1>4, <2>1 DEF Sent
<1> QED BY <1>1, <1>2, <1>3, <1>4 DEF Sent

\* A machine whose edits and marker stay.
LEMMA SameCovered ==
  ASSUME OnInv, [OnNext]_onVars, NEW m \in Peers, NEW o \in Peers, m # o,
         pv'[m].has \subseteq pv[m].has, pv'[m].mark = pv[m].mark,
         pv[m].pc \in {"m11", "m12"} => pv'[m].pc \in {"m11", "m12"},
         pv'[m].pc \in {"upload", "mark"} => pv'[m].pc = pv[m].pc /\ pv'[m].next = pv[m].next
  PROVE  CoveredFrom(m, o)'
<1>1. ASSUME NEW x \in pv'[m].has, x \notin Sure(o)'
      PROVE  Tracked(m, o, x)' /\ Sent(m, o, x)'
  <2>1. x \notin Sure(o) /\ x \in pv[m].has
    BY <1>1, SureGrows
  <2> QED BY <1>1, <2>1, TrackedStays, SentStays
<1> QED BY <1>1 DEF CoveredFrom

\* A machine whose edits a marker overtakes, or that are at the other machine.
LEMMA OvertakenCovered ==
  ASSUME OnInv, [OnNext]_onVars, NEW m \in Peers, NEW o \in Peers, m # o,
         \A x \in pv'[m].has : x \in past'.late[m] \/ x \in Sure(o)
  PROVE  CoveredFrom(m, o)'
<1>1. ASSUME NEW x \in pv'[m].has, x \notin Sure(o)'
      PROVE  Tracked(m, o, x)' /\ Sent(m, o, x)'
  <2>1. x \in past'.late[m]
    BY <1>1, SureGrows
  <2> QED BY <2>1 DEF Tracked, Sent, Safe
<1> QED BY <1>1 DEF CoveredFrom

\* In a session that goes on, m is the master or the slave by where it is.
LEMMA Parts ==
  ASSUME OnInv, NEW m \in Peers, NEW o \in Peers, m # o, Live(m), pv[m].pc \in SessionPcs
  PROVE  /\ pv[m].pc \in {"m9", "m12"} => Master(m) /\ In(m) /\ Slave(o)
         /\ pv[m].pc = "s11" => Slave(m) /\ In(m) /\ Master(o)
<1>1. Session.id > 0 /\ In(m) /\ Session.master \in Peers
  BY Counts DEF OnInv, Roles, Numbers, Live, In
<1> QED BY <1>1, TwoPeers DEF OnInv, Roles, MasterAt, SlaveAt, Master, Slave

\* An edit that the other machine does not have is not forgotten.
LEMMA CoveredKept ==
  ASSUME OnInv, [OnNext]_onVars
  PROVE  Covered'
<1>1. CASE UNCHANGED onVars
  BY <1>1, SameCovered DEF onVars, Covered
<1>2. CASE Expires
  <2>1. pv' = pv
    BY <1>2, ExpiresStep DEF OnInv
  <2> QED BY <2>1, SameCovered DEF Covered
<1>3. ASSUME NEW m \in Peers, EditRow(m)
      PROVE  Covered'
  <2>1. /\ OnTypeOK /\ \A n \in Peers : n # m => pv'[n] = pv[n]
        /\ pv'[m].has = pv[m].has \cup {utc + 1} /\ pv'[m].mark = pv[m].mark
        /\ pv'[m].pc = pv[m].pc /\ pv'[m].next = pv[m].next
    BY <1>3, OldestThere, EditRowStep DEF OnInv, Step
  <2>2. ASSUME NEW o \in Peers, m # o
        PROVE  CoveredFrom(m, o)'
    <3>1. ASSUME NEW x \in pv[m].has, x \notin Sure(o)'
          PROVE  Tracked(m, o, x)' /\ Sent(m, o, x)'
      <4>1. x \notin Sure(o) /\ x \in pv'[m].has
        BY <2>1, <3>1, SureGrows
      <4> QED BY <2>1, <2>2, <3>1, <4>1, TrackedStays, SentStays
    <3>2. utc + 1 \in Delta(m)'
      BY <2>1, EditIsNewer DEF OnInv, Delta
    <3>3. pv[m].pc \in {"upload", "mark"} => utc + 1 >= pv[m].next
      <4>1. pv[m].next \in Marks /\ utc \in Nat /\ \A k \in Marks : k = NoMark \/ k \in Nat
        BY <2>1, OnAssumption DEF OnTypeOK, Machine, Marks
      <4>2. pv[m].pc \in {"upload", "mark"} => pv[m].next # NoMark /\ Holds(m, pv[m].next)
        BY DEF OnInv, Told, Backed, Holds
      <4>3. Holds(m, pv[m].next) => pv[m].next = NoMark \/ pv[m].next <= utc
        BY <4>1 DEF OnInv, Told, Dated
      <4> QED BY <4>1, <4>2, <4>3
    <3> QED BY <2>1, <3>1, <3>2, <3>3 DEF CoveredFrom, Tracked, Sent
  <2>3. ASSUME NEW n \in Peers, NEW o \in Peers, n # m, n # o
        PROVE  CoveredFrom(n, o)'
    BY <2>1, <2>3, SameCovered
  <2> QED BY <2>2, <2>3 DEF Covered
<1>4. ASSUME NEW m \in Peers, handle_online_trigger_sync(m)
      PROVE  Covered'
  <2>1. \A n \in Peers :
          /\ pv'[n].has \subseteq pv[n].has /\ pv'[n].mark = pv[n].mark
          /\ pv[n].pc \in {"m11", "m12"} => pv'[n].pc \in {"m11", "m12"}
          /\ pv'[n].pc \in {"upload", "mark"} => pv'[n].pc = pv[n].pc /\ pv'[n].next = pv[n].next
    BY <1>4, OldestThere, TriggerStep DEF OnInv, Step
  <2> QED BY <2>1, SameCovered DEF Covered
<1>5. ASSUME NEW m \in Peers, create_session(m)
      PROVE  Covered'
  <2>1. \A n \in Peers :
          /\ pv'[n].has \subseteq pv[n].has /\ pv'[n].mark = pv[n].mark
          /\ pv[n].pc \in {"m11", "m12"} => pv'[n].pc \in {"m11", "m12"}
          /\ pv'[n].pc \in {"upload", "mark"} => pv'[n].pc = pv[n].pc /\ pv'[n].next = pv[n].next
    BY <1>5, OldestThere, CreateStep DEF OnInv, Step, Creates, Joins, Declined, Ends
  <2> QED BY <2>1, SameCovered DEF Covered
<1>6. ASSUME NEW m \in Peers, wait_for_peer(m)
      PROVE  Covered'
  <2>1. \A n \in Peers :
          /\ pv'[n].has \subseteq pv[n].has /\ pv'[n].mark = pv[n].mark
          /\ pv[n].pc \in {"m11", "m12"} => pv'[n].pc \in {"m11", "m12"}
          /\ pv'[n].pc \in {"upload", "mark"} => pv'[n].pc = pv[n].pc /\ pv'[n].next = pv[n].next
    BY <1>6, OldestThere, wait_for_peerStep DEF OnInv, Step
  <2> QED BY <2>1, SameCovered DEF Covered
<1>7. ASSUME NEW m \in Peers, Freeze5(m)
      PROVE  Covered'
  <2>1. \A n \in Peers :
          /\ pv'[n].has \subseteq pv[n].has /\ pv'[n].mark = pv[n].mark
          /\ pv[n].pc \in {"m11", "m12"} => pv'[n].pc \in {"m11", "m12"}
          /\ pv'[n].pc \in {"upload", "mark"} => pv'[n].pc = pv[n].pc /\ pv'[n].next = pv[n].next
    BY <1>7, OldestThere, Freeze5Step DEF OnInv, Step
  <2> QED BY <2>1, SameCovered DEF Covered
<1>8. ASSUME NEW m \in Peers, SlaveUploads(m)
      PROVE  Covered'
  <2>1. \A n \in Peers :
          /\ pv'[n].has \subseteq pv[n].has /\ pv'[n].mark = pv[n].mark
          /\ pv[n].pc \in {"m11", "m12"} => pv'[n].pc \in {"m11", "m12"}
          /\ pv'[n].pc \in {"upload", "mark"} => pv'[n].pc = pv[n].pc /\ pv'[n].next = pv[n].next
    BY <1>8, OldestThere, SlaveUploadsStep DEF OnInv, Step
  <2> QED BY <2>1, SameCovered DEF Covered
<1>9. ASSUME NEW m \in Peers, MasterDownloads(m)
      PROVE  Covered'
  <2>1. \A n \in Peers :
          /\ pv'[n].has \subseteq pv[n].has /\ pv'[n].mark = pv[n].mark
          /\ pv[n].pc \in {"m11", "m12"} => pv'[n].pc \in {"m11", "m12"}
          /\ pv'[n].pc \in {"upload", "mark"} => pv'[n].pc = pv[n].pc /\ pv'[n].next = pv[n].next
    BY <1>9, OldestThere, MasterDownloadsStep DEF OnInv, Step
  <2> QED BY <2>1, SameCovered DEF Covered
<1>10. ASSUME NEW m \in Peers, MasterMerges(m)
      PROVE  Covered'
  <2>1. /\ OnTypeOK /\ \A n \in Peers : n # m => pv'[n] = pv[n]
        /\ pv[m].pc = "m9" /\ Live(m) /\ pv'[m].has = pv[m].has \cup pv[m].got
        /\ pv'[m].mark = pv[m].mark /\ pv'[m].pc = "m10"
    BY <1>10, OldestThere, MasterMergesStep DEF OnInv, Step
  <2>2. ASSUME NEW o \in Peers, m # o
        PROVE  CoveredFrom(m, o)'
    <3>1. pv[m].got \subseteq Sure(o)
      <4>1. Master(m) /\ In(m) /\ Slave(o)
        BY <2>1, <2>2, Parts DEF SessionPcs
      <4>2. MasterCarries(m) /\ SlaveCarries(o)
        BY <2>2 DEF OnInv, Carried
      <4> QED BY <2>1, <4>1, <4>2 DEF MasterCarries, SlaveCarries
    <3>2. ASSUME NEW x \in pv[m].has, x \notin Sure(o)'
          PROVE  Tracked(m, o, x)' /\ Sent(m, o, x)'
      <4>1. x \notin Sure(o) /\ x \in pv'[m].has
        BY <2>1, <3>2, SureGrows
      <4> QED BY <2>1, <2>2, <3>2, <4>1, TrackedStays, SentStays
    <3> QED BY <2>1, <2>2, <3>1, <3>2, SureGrows DEF CoveredFrom
  <2>3. ASSUME NEW n \in Peers, NEW o \in Peers, n # m, n # o
        PROVE  CoveredFrom(n, o)'
    BY <2>1, <2>3, SameCovered
  <2> QED BY <2>2, <2>3 DEF Covered
<1>11. ASSUME NEW m \in Peers, MasterMarks(m)
      PROVE  Covered'
  <2>1. /\ OnTypeOK /\ \A n \in Peers : n # m => pv'[n] = pv[n]
        /\ pv'[m].pc = "m11"
    BY <1>11, OldestThere, MasterMarksStep DEF OnInv, Step
  <2>2. ASSUME NEW o \in Peers, m # o
        PROVE  CoveredFrom(m, o)'
    BY <2>1 DEF CoveredFrom, Tracked, Sent
  <2>3. ASSUME NEW n \in Peers, NEW o \in Peers, n # m, n # o
        PROVE  CoveredFrom(n, o)'
    BY <2>1, <2>3, SameCovered
  <2> QED BY <2>2, <2>3 DEF Covered
<1>12. ASSUME NEW m \in Peers, MasterUploads(m)
      PROVE  Covered'
  <2>1. \A n \in Peers :
          /\ pv'[n].has \subseteq pv[n].has /\ pv'[n].mark = pv[n].mark
          /\ pv[n].pc \in {"m11", "m12"} => pv'[n].pc \in {"m11", "m12"}
          /\ pv'[n].pc \in {"upload", "mark"} => pv'[n].pc = pv[n].pc /\ pv'[n].next = pv[n].next
    BY <1>12, OldestThere, MasterUploadsStep DEF OnInv, Step
  <2> QED BY <2>1, SameCovered DEF Covered
<1>13. ASSUME NEW m \in Peers, SlaveImports(m)
      PROVE  Covered'
  <2>1. /\ OnTypeOK /\ \A n \in Peers : n # m => pv'[n] = pv[n]
        /\ pv[m].pc = "s11" /\ Live(m) /\ Session.step >= 11
        /\ pv'[m].has = pv[m].has \cup Session.down
        /\ past'.late = LateWith(m, pv[m].has \ pv[m].got)
    BY <1>13, OldestThere, SlaveImportsStep DEF OnInv, Step, History
  <2>2. ASSUME NEW o \in Peers, m # o
        PROVE  CoveredFrom(m, o)'
    <3>1. Slave(m) /\ In(m) /\ Master(o)
      BY <2>1, <2>2, Parts DEF SessionPcs
    <3>2. MasterCarries(o) /\ SlaveCarries(m) /\ Session.up \subseteq Session.down
      BY <2>1, <2>2 DEF OnInv, Carried
    <3>3. pv[m].got \subseteq Session.down /\ Session.down \subseteq Sure(o)
      BY <2>1, <3>1, <3>2 DEF MasterCarries, SlaveCarries
    <3>4. past'.late[m] = past.late[m] \cup (pv[m].has \ pv[m].got)
      BY <2>1, LateField
    <3> QED BY <2>1, <2>2, <3>3, <3>4, OvertakenCovered
  <2>3. ASSUME NEW n \in Peers, NEW o \in Peers, n # m, n # o
        PROVE  CoveredFrom(n, o)'
    BY <2>1, <2>3, SameCovered
  <2> QED BY <2>2, <2>3 DEF Covered
<1>14. ASSUME NEW m \in Peers, SlaveReports(m)
      PROVE  Covered'
  <2>1. \A n \in Peers :
          /\ pv'[n].has \subseteq pv[n].has /\ pv'[n].mark = pv[n].mark
          /\ pv[n].pc \in {"m11", "m12"} => pv'[n].pc \in {"m11", "m12"}
          /\ pv'[n].pc \in {"upload", "mark"} => pv'[n].pc = pv[n].pc /\ pv'[n].next = pv[n].next
    BY <1>14, OldestThere, SlaveReportsStep DEF OnInv, Step, Ends
  <2> QED BY <2>1, SameCovered DEF Covered
<1>15. ASSUME NEW m \in Peers, MasterEnds(m)
      PROVE  Covered'
  <2>1. /\ OnTypeOK /\ \A n \in Peers : n # m => pv'[n] = pv[n]
        /\ pv[m].pc = "m12" /\ Live(m) /\ Session.step >= 12 /\ pv'[m].has = pv[m].has
        /\ pv'[m].mark = pv[m].mark /\ pv'[m].pc = "idle"
    BY <1>15, OldestThere, MasterEndsStep DEF OnInv, Step, Ends
  <2>2. ASSUME NEW o \in Peers, m # o
        PROVE  CoveredFrom(m, o)'
    <3>1. Master(m) /\ In(m) /\ Slave(o)
      BY <2>1, <2>2, Parts DEF SessionPcs
    <3>2. MasterCarries(m) /\ SlaveCarries(o)
      BY <2>2 DEF OnInv, Carried
    <3>3. Session.down \subseteq Sure(o) /\ \A x \in pv[m].has \ Session.down : x >= pv[m].mark
      BY <2>1, <3>1, <3>2 DEF MasterCarries, SlaveCarries
    <3> QED BY <2>1, <2>2, <3>3, SureGrows DEF CoveredFrom, Tracked, Sent, Delta
  <2>3. ASSUME NEW n \in Peers, NEW o \in Peers, n # m, n # o
        PROVE  CoveredFrom(n, o)'
    BY <2>1, <2>3, SameCovered
  <2> QED BY <2>2, <2>3 DEF Covered
<1>16. ASSUME NEW m \in Peers, MergeFails(m)
      PROVE  Covered'
  <2>1. /\ \A n \in Peers : n # m => pv'[n] = pv[n]
        /\ pv'[m].has \in {pv[m].has, pv[m].bk} /\ pv'[m].pc = "idle"
        /\ pv[m].pc \in {"m9", "m10", "s11"}
        /\ pv'[m].mark = pv[m].mark /\ pv'[m].has \subseteq pv[m].has
    BY <1>16, MergeFailsStep DEF OnInv, Step, Ends, Restores, Told, Backed
  <2> QED BY <2>1, SameCovered DEF Covered
<1>17. ASSUME NEW m \in Peers, SessionGone(m)
      PROVE  Covered'
  <2>1. /\ OnTypeOK /\ \A n \in Peers : n # m => pv'[n] = pv[n]
        /\ past'.late = LateWith(m, Overtaken(m)) /\ pv'[m].has = pv[m].has
        /\ pv'[m].mark = pv[m].mark /\ pv'[m].pc = "idle"
    BY <1>17, OldestThere, SessionGoneStep DEF OnInv, Step, Ends, History
  <2>2. ASSUME NEW o \in Peers, m # o
        PROVE  CoveredFrom(m, o)'
    <3>1. CASE pv[m].pc \in {"m11", "m12", "s13"}
      <4>1. past'.late[m] = past.late[m] \cup pv[m].has
        BY <2>1, <3>1, LateField DEF Overtaken
      <4> QED BY <2>1, <2>2, <4>1, OvertakenCovered
    <3>2. CASE pv[m].pc \notin {"m11", "m12", "s13"}
      BY <2>1, <2>2, <3>2, SameCovered
    <3> QED BY <3>1, <3>2
  <2>3. ASSUME NEW n \in Peers, NEW o \in Peers, n # m, n # o
        PROVE  CoveredFrom(n, o)'
    BY <2>1, <2>3, SameCovered
  <2> QED BY <2>2, <2>3 DEF Covered
<1>18. ASSUME NEW m \in Peers, NetworkFails(m)
      PROVE  Covered'
  <2>1. /\ OnTypeOK /\ \A n \in Peers : n # m => pv'[n] = pv[n]
        /\ past'.late = LateWith(m, Overtaken(m)) /\ pv'[m].has = pv[m].has
        /\ pv'[m].mark = pv[m].mark /\ pv'[m].pc = "idle"
    BY <1>18, OldestThere, NetworkFailsStep DEF OnInv, Step, Ends, History
  <2>2. ASSUME NEW o \in Peers, m # o
        PROVE  CoveredFrom(m, o)'
    <3>1. CASE pv[m].pc \in {"m11", "m12", "s13"}
      <4>1. past'.late[m] = past.late[m] \cup pv[m].has
        BY <2>1, <3>1, LateField DEF Overtaken
      <4> QED BY <2>1, <2>2, <4>1, OvertakenCovered
    <3>2. CASE pv[m].pc \notin {"m11", "m12", "s13"}
      BY <2>1, <2>2, <3>2, SameCovered
    <3> QED BY <3>1, <3>2
  <2>3. ASSUME NEW n \in Peers, NEW o \in Peers, n # m, n # o
        PROVE  CoveredFrom(n, o)'
    BY <2>1, <2>3, SameCovered
  <2> QED BY <2>2, <2>3 DEF Covered
<1>19. ASSUME NEW m \in Peers, async_pending(m)
      PROVE  Covered'
  <2>1. \A n \in Peers :
          /\ pv'[n].has \subseteq pv[n].has /\ pv'[n].mark = pv[n].mark
          /\ pv[n].pc \in {"m11", "m12"} => pv'[n].pc \in {"m11", "m12"}
          /\ pv'[n].pc \in {"upload", "mark"} => pv'[n].pc = pv[n].pc /\ pv'[n].next = pv[n].next
    BY <1>19, OldestThere, async_pendingStep DEF OnInv, Step
  <2> QED BY <2>1, SameCovered DEF Covered
<1>20. ASSUME NEW m \in Peers, async_reject(m)
      PROVE  Covered'
  <2>1. \A n \in Peers :
          /\ pv'[n].has \subseteq pv[n].has /\ pv'[n].mark = pv[n].mark
          /\ pv[n].pc \in {"m11", "m12"} => pv'[n].pc \in {"m11", "m12"}
          /\ pv'[n].pc \in {"upload", "mark"} => pv'[n].pc = pv[n].pc /\ pv'[n].next = pv[n].next
    BY <1>20, OldestThere, async_rejectStep DEF OnInv, Step
  <2> QED BY <2>1, SameCovered DEF Covered
<1>21. ASSUME NEW m \in Peers, DownloadFails(m)
      PROVE  Covered'
  <2>1. \A n \in Peers :
          /\ pv'[n].has \subseteq pv[n].has /\ pv'[n].mark = pv[n].mark
          /\ pv[n].pc \in {"m11", "m12"} => pv'[n].pc \in {"m11", "m12"}
          /\ pv'[n].pc \in {"upload", "mark"} => pv'[n].pc = pv[n].pc /\ pv'[n].next = pv[n].next
    BY <1>21, OldestThere, DownloadFailsStep DEF OnInv, Step, Ends
  <2> QED BY <2>1, SameCovered DEF Covered
<1>22. ASSUME NEW m \in Peers, AsyncMerge(m)
      PROVE  Covered'
  <2>1. /\ OnTypeOK /\ \A n \in Peers : n # m => pv'[n] = pv[n]
        /\ past'.late = LateWith(m, pv[m].has) /\ pv'[m].has = pv[m].has \cup Oldest(m).edits
        /\ Oldest(m).from \in Peers /\ Oldest(m).from # m /\ Oldest(m) \in cloud.pkgs
    BY <1>22, OldestThere, AsyncMergeStep DEF OnInv, Step, History
  <2>2. ASSUME NEW o \in Peers, m # o
        PROVE  CoveredFrom(m, o)'
    <3>1. Oldest(m).from = o
      BY <2>1, <2>2, TwoPeers
    <3>2. Oldest(m).edits \subseteq Sure(o)
      BY <2>1, <3>1 DEF OnInv, Packed, PackagesHold
    <3>3. past'.late[m] = past.late[m] \cup pv[m].has
      BY <2>1, LateField
    <3> QED BY <2>1, <2>2, <3>2, <3>3, OvertakenCovered
  <2>3. ASSUME NEW n \in Peers, NEW o \in Peers, n # m, n # o
        PROVE  CoveredFrom(n, o)'
    BY <2>1, <2>3, SameCovered
  <2> QED BY <2>2, <2>3 DEF Covered
<1>23. ASSUME NEW m \in Peers, AsyncMergeFails(m)
      PROVE  Covered'
  <2>1. /\ OnTypeOK /\ \A n \in Peers : n # m => pv'[n] = pv[n]
        /\ pv'[m].has = pv[m].bk /\ pv'[m].mark = pv[m].bkMark /\ pv[m].pc = "pulling"
        /\ pv'[m].pc = "idle"
    BY <1>23, OldestThere, AsyncMergeFailsStep DEF OnInv, Step, Restores
  <2>2. ASSUME NEW o \in Peers, m # o
        PROVE  CoveredFrom(m, o)'
    <3>1. /\ pv[m].bk \subseteq pv[m].has
          /\ pv[m].mark = pv[m].bkMark \/ pv[m].bk \subseteq past.late[m]
      BY <2>1 DEF OnInv, Told, Backed
    <3>2. CASE pv[m].mark = pv[m].bkMark
      BY <2>1, <2>2, <3>1, <3>2, SameCovered
    <3>3. CASE pv[m].bk \subseteq past.late[m]
      BY <2>1, <2>2, <3>3, LateGrows, OvertakenCovered
    <3> QED BY <3>1, <3>2, <3>3
  <2>3. ASSUME NEW n \in Peers, NEW o \in Peers, n # m, n # o
        PROVE  CoveredFrom(n, o)'
    BY <2>1, <2>3, SameCovered
  <2> QED BY <2>2, <2>3 DEF Covered
<1>24. ASSUME NEW m \in Peers, async_ack(m)
      PROVE  Covered'
  <2>1. \A n \in Peers :
          /\ pv'[n].has \subseteq pv[n].has /\ pv'[n].mark = pv[n].mark
          /\ pv[n].pc \in {"m11", "m12"} => pv'[n].pc \in {"m11", "m12"}
          /\ pv'[n].pc \in {"upload", "mark"} => pv'[n].pc = pv[n].pc /\ pv'[n].next = pv[n].next
    BY <1>24, OldestThere, async_ackStep DEF OnInv, Step
  <2> QED BY <2>1, SameCovered DEF Covered
<1>25. ASSUME NEW m \in Peers, async_push(m)
      PROVE  Covered'
  <2>1. /\ OnTypeOK /\ \A n \in Peers : n # m => pv'[n] = pv[n]
        /\ pv'[m].has = pv[m].has /\ pv'[m].mark = pv[m].mark /\ pv[m].pc = "push"
        /\ pv'[m].pc = "upload" /\ pv'[m].next = utc + 1
        /\ cloud'.pkgs = cloud.pkgs \cup {NewPackage(m)}
    BY <1>25, OldestThere, async_pushStep DEF OnInv, Step, Server
  <2>2. ASSUME NEW o \in Peers, m # o
        PROVE  CoveredFrom(m, o)'
    <3> SUFFICES ASSUME NEW x \in pv'[m].has, x \notin Sure(o)'
                 PROVE  Tracked(m, o, x)' /\ Sent(m, o, x)'
      BY DEF CoveredFrom
    <3>1. x \in pv[m].has /\ x \notin Sure(o) /\ Tracked(m, o, x) /\ Sent(m, o, x)
      BY <2>1, <2>2, SureGrows DEF OnInv, Covered, CoveredFrom
    <3>2. Tracked(m, o, x)'
      BY <2>1, <2>2, <3>1, TrackedStays
    <3>3. CASE x \in Delta(m)
      <4>1. x \in NewPackage(m).edits /\ NewPackage(m).id = pv'[m].next
        BY <2>1, <3>3 DEF NewPackage
      <4> QED BY <2>1, <3>2, <4>1 DEF Sent
    <3>4. CASE Safe(m, o, x)
      BY <2>2, <3>1, <3>2, <3>4, SafeStays DEF Sent
    <3> QED BY <2>1, <3>1, <3>3, <3>4 DEF Tracked
  <2>3. ASSUME NEW n \in Peers, NEW o \in Peers, n # m, n # o
        PROVE  CoveredFrom(n, o)'
    BY <2>1, <2>3, SameCovered
  <2> QED BY <2>2, <2>3 DEF Covered
<1>26. ASSUME NEW m \in Peers, AsyncUpload(m)
      PROVE  Covered'
  <2>1. /\ OnTypeOK /\ \A n \in Peers : n # m => pv'[n] = pv[n]
        /\ pv'[m].has = pv[m].has /\ pv'[m].mark = pv[m].mark /\ pv[m].pc = "upload"
        /\ pv'[m].pc = "mark" /\ pv'[m].next = pv[m].next
        /\ cloud'.pkgs = {Uploaded(q, pv[m].next) : q \in cloud.pkgs}
    BY <1>26, OldestThere, AsyncUploadStep DEF OnInv, Step, Server
  <2>2. ASSUME NEW o \in Peers, m # o
        PROVE  CoveredFrom(m, o)'
    <3> SUFFICES ASSUME NEW x \in pv'[m].has, x \notin Sure(o)'
                 PROVE  Tracked(m, o, x)' /\ Sent(m, o, x)'
      BY DEF CoveredFrom
    <3>1. x \in pv[m].has /\ x \notin Sure(o) /\ Tracked(m, o, x) /\ Sent(m, o, x)
      BY <2>1, <2>2, SureGrows DEF OnInv, Covered, CoveredFrom
    <3>2. Tracked(m, o, x)'
      BY <2>1, <2>2, <3>1, TrackedStays
    <3>3. CASE x >= pv[m].next
      BY <2>1, <3>2, <3>3 DEF Sent
    <3>4. CASE Safe(m, o, x)
      BY <2>2, <3>1, <3>2, <3>4, SafeStays DEF Sent
    <3>5. ASSUME NEW p \in cloud.pkgs, x \in p.edits, p.id = pv[m].next
          PROVE  Sent(m, o, x)'
      <4>1. Uploaded(p, pv[m].next) \in cloud'.pkgs
        BY <2>1
      <4>2. x \in Uploaded(p, pv[m].next).edits /\ Uploaded(p, pv[m].next).up
        BY <2>1, <3>5, Seconds, UploadedFields
      <4> QED BY <4>1, <4>2 DEF Sent, Safe, InPackage
    <3> QED BY <2>1, <3>1, <3>2, <3>3, <3>4, <3>5 DEF Sent
  <2>3. ASSUME NEW n \in Peers, NEW o \in Peers, n # m, n # o
        PROVE  CoveredFrom(n, o)'
    BY <2>1, <2>3, SameCovered
  <2> QED BY <2>2, <2>3 DEF Covered
<1>27. ASSUME NEW m \in Peers, AsyncMark(m)
      PROVE  Covered'
  <2>1. /\ OnTypeOK /\ \A n \in Peers : n # m => pv'[n] = pv[n]
        /\ pv'[m].has = pv[m].has /\ pv'[m].mark = pv[m].next /\ pv[m].pc = "mark"
        /\ pv'[m].pc = "idle"
    BY <1>27, OldestThere, AsyncMarkStep DEF OnInv, Step
  <2>2. ASSUME NEW o \in Peers, m # o
        PROVE  CoveredFrom(m, o)'
    <3> SUFFICES ASSUME NEW x \in pv'[m].has, x \notin Sure(o)'
                 PROVE  Tracked(m, o, x)' /\ Sent(m, o, x)'
      BY DEF CoveredFrom
    <3>1. x \in pv[m].has /\ x \notin Sure(o) /\ Tracked(m, o, x) /\ Sent(m, o, x)
      BY <2>1, <2>2, SureGrows DEF OnInv, Covered, CoveredFrom
    <3>2. CASE x >= pv[m].next
      BY <2>1, <3>2 DEF Tracked, Sent, Delta
    <3>3. CASE Safe(m, o, x)
      BY <2>1, <2>2, <3>1, <3>3, SafeStays DEF Tracked, Sent
    <3> QED BY <2>1, <3>1, <3>2, <3>3 DEF Sent
  <2>3. ASSUME NEW n \in Peers, NEW o \in Peers, n # m, n # o
        PROVE  CoveredFrom(n, o)'
    BY <2>1, <2>3, SameCovered
  <2> QED BY <2>2, <2>3 DEF Covered
<1> QED BY <1>1, <1>2, <1>3, <1>4, <1>5, <1>6, <1>7, <1>8, <1>9, <1>10, <1>11, <1>12, <1>13,
   <1>14, <1>15, <1>16, <1>17, <1>18, <1>19, <1>20, <1>21, <1>22, <1>23, <1>24, <1>25, <1>26,
   <1>27 DEF OnNext

\* Every step keeps the types.
LEMMA TypesKept ==
  ASSUME OnInv, [OnNext]_onVars
  PROVE  OnTypeOK'
<1>1. CASE UNCHANGED onVars
  BY <1>1 DEF onVars, OnInv, OnTypeOK
<1>2. CASE Expires
  BY <1>2, ExpiresStep DEF OnInv
<1>3. ASSUME NEW m \in Peers, EditRow(m)
      PROVE  OnTypeOK'
  BY <1>3, EditRowStep DEF OnInv
<1>4. ASSUME NEW m \in Peers, handle_online_trigger_sync(m)
      PROVE  OnTypeOK'
  BY <1>4, TriggerStep DEF OnInv
<1>5. ASSUME NEW m \in Peers, create_session(m)
      PROVE  OnTypeOK'
  BY <1>5, CreateStep DEF OnInv
<1>6. ASSUME NEW m \in Peers, wait_for_peer(m)
      PROVE  OnTypeOK'
  BY <1>6, wait_for_peerStep DEF OnInv
<1>7. ASSUME NEW m \in Peers, Freeze5(m)
      PROVE  OnTypeOK'
  BY <1>7, Freeze5Step DEF OnInv
<1>8. ASSUME NEW m \in Peers, SlaveUploads(m)
      PROVE  OnTypeOK'
  BY <1>8, SlaveUploadsStep DEF OnInv
<1>9. ASSUME NEW m \in Peers, MasterDownloads(m)
      PROVE  OnTypeOK'
  BY <1>9, MasterDownloadsStep DEF OnInv
<1>10. ASSUME NEW m \in Peers, MasterMerges(m)
      PROVE  OnTypeOK'
  BY <1>10, MasterMergesStep DEF OnInv
<1>11. ASSUME NEW m \in Peers, MasterMarks(m)
      PROVE  OnTypeOK'
  BY <1>11, MasterMarksStep DEF OnInv
<1>12. ASSUME NEW m \in Peers, MasterUploads(m)
      PROVE  OnTypeOK'
  BY <1>12, MasterUploadsStep DEF OnInv
<1>13. ASSUME NEW m \in Peers, SlaveImports(m)
      PROVE  OnTypeOK'
  BY <1>13, SlaveImportsStep DEF OnInv
<1>14. ASSUME NEW m \in Peers, SlaveReports(m)
      PROVE  OnTypeOK'
  BY <1>14, SlaveReportsStep DEF OnInv
<1>15. ASSUME NEW m \in Peers, MasterEnds(m)
      PROVE  OnTypeOK'
  BY <1>15, MasterEndsStep DEF OnInv
<1>16. ASSUME NEW m \in Peers, MergeFails(m)
      PROVE  OnTypeOK'
  BY <1>16, MergeFailsStep DEF OnInv
<1>17. ASSUME NEW m \in Peers, SessionGone(m)
      PROVE  OnTypeOK'
  BY <1>17, SessionGoneStep DEF OnInv
<1>18. ASSUME NEW m \in Peers, NetworkFails(m)
      PROVE  OnTypeOK'
  BY <1>18, NetworkFailsStep DEF OnInv
<1>19. ASSUME NEW m \in Peers, async_pending(m)
      PROVE  OnTypeOK'
  BY <1>19, async_pendingStep DEF OnInv
<1>20. ASSUME NEW m \in Peers, async_reject(m)
      PROVE  OnTypeOK'
  BY <1>20, async_rejectStep DEF OnInv
<1>21. ASSUME NEW m \in Peers, DownloadFails(m)
      PROVE  OnTypeOK'
  BY <1>21, DownloadFailsStep DEF OnInv
<1>22. ASSUME NEW m \in Peers, AsyncMerge(m)
      PROVE  OnTypeOK'
  BY <1>22, AsyncMergeStep DEF OnInv
<1>23. ASSUME NEW m \in Peers, AsyncMergeFails(m)
      PROVE  OnTypeOK'
  BY <1>23, AsyncMergeFailsStep DEF OnInv
<1>24. ASSUME NEW m \in Peers, async_ack(m)
      PROVE  OnTypeOK'
  BY <1>24, async_ackStep DEF OnInv
<1>25. ASSUME NEW m \in Peers, async_push(m)
      PROVE  OnTypeOK'
  BY <1>25, async_pushStep DEF OnInv
<1>26. ASSUME NEW m \in Peers, AsyncUpload(m)
      PROVE  OnTypeOK'
  BY <1>26, AsyncUploadStep DEF OnInv
<1>27. ASSUME NEW m \in Peers, AsyncMark(m)
      PROVE  OnTypeOK'
  BY <1>27, AsyncMarkStep DEF OnInv
<1> QED BY <1>1, <1>2, <1>3, <1>4, <1>5, <1>6, <1>7, <1>8, <1>9, <1>10, <1>11, <1>12, <1>13,
   <1>14, <1>15, <1>16, <1>17, <1>18, <1>19, <1>20, <1>21, <1>22, <1>23, <1>24, <1>25, <1>26,
   <1>27 DEF OnNext

\* Every step keeps the invariant.
LEMMA InvKept ==
  ASSUME OnInv, [OnNext]_onVars
  PROVE  OnInv'
<1>1. OnTypeOK'
  BY TypesKept
<1> QED BY <1>1, RolesKept, CarriedKept, ToldKept, PackedKept, CoveredKept DEF OnInv

\* The invariant holds at the start.
LEMMA InitInv == OnInit => OnInv
<1> SUFFICES ASSUME OnInit
             PROVE  OnInv
  OBVIOUS
<1>1. PICK mark \in [Peers -> {0, NoMark}] :
        pv = [m \in Peers |->
               [pc |-> "idle", has |-> {}, mark |-> mark[m], bk |-> {}, bkMark |-> mark[m],
                got |-> {}, frozen |-> FALSE, sess |-> 0, todo |-> {}, next |-> mark[m]]]
  BY DEF OnInit
<1>2. ASSUME NEW m \in Peers
      PROVE  /\ pv[m].pc = "idle" /\ pv[m].has = {} /\ pv[m].bk = {} /\ pv[m].sess = 0
             /\ pv[m].mark \in {0, NoMark} /\ pv[m].bkMark \in {0, NoMark}
  BY <1>1
<1>3. /\ Session.id = 0 /\ Session.st = "none" /\ Session.step = 0 /\ Session.up = {}
      /\ Session.down = {} /\ cloud.pkgs = {} /\ utc = 0
  BY DEF OnInit, Session
<1>4. past.made = 0 /\ past.all = {} /\ \A m \in Peers : past.done[m] = 0
  BY DEF OnInit
<1>5. Roles
  BY <1>2, <1>3, <1>4 DEF Roles, Numbers, MasterAt, SlaveAt, Master, Slave, SessionPcs
<1>6. Carried
  BY <1>2, <1>3, <1>4 DEF Carried, SlaveCarries, MasterCarries, Slave, Master
<1>7. Told
  <2>1. \A m \in Peers : \A k \in Marks : Holds(m, k) => k \in {0, NoMark}
    BY <1>2, <1>3 DEF Holds
  <2> QED BY <1>2, <1>3, <2>1 DEF Told, Dated, Backed
<1>8. Packed
  <2>1. \A m \in Peers : pv[m].todo = {}
    BY <1>1
  <2> QED BY <1>2, <1>3, <2>1 DEF Packed, PackagesHold, Awaited
<1>9. Covered
  BY <1>2 DEF Covered, CoveredFrom
<1> QED BY <1>5, <1>6, <1>7, <1>8, <1>9, InitTyped DEF OnInv

\* It always holds.
LEMMA OnInvariant == OnSpec => []OnInv
BY InitInv, InvKept, PTL DEF OnSpec

\* The machines, the server and the packages keep their types, and a database is frozen
\* only while its machine is in a session (online_sync.rs, execute_online_sync).
THEOREM OnlineTypes == OnSpec => []OnTypeOK
<1>1. OnInv => OnTypeOK
  BY DEF OnInv
<1> QED BY <1>1, OnInvariant, PTL

\* Once both machines have completed a session, each has all that took part in it,
\* whatever has failed before or since (online_sync.rs, execute_sync_steps).
THEOREM OnlineSameAfterSession == OnSpec => []SessionMeansSame
<1>1. OnInv => SessionMeansSame
  <2> SUFFICES ASSUME OnInv, NEW m \in Peers, past.done[m] > 0, past.made = past.done[m]
               PROVE  past.all \subseteq pv[m].has
    BY DEF SessionMeansSame
  <2>1. Session.id = past.done[m] /\ Session.id > 0 /\ Session.step >= 12 /\ Session.step >= 11
    BY Counts DEF OnInv, Roles, Numbers
  <2>2. past.all \subseteq Session.down
    BY <2>1 DEF OnInv, Carried
  <2>3. Session.down \subseteq Sure(m)
    BY <2>1 DEF OnInv, Carried, SlaveCarries, MasterCarries, Slave, Master
  <2> QED BY <2>2, <2>3, EditsDated
<1> QED BY <1>1, OnInvariant, PTL

\* An edit that the other machine does not have is newer than the marker, in an uploaded
\* package, overtaken, or about to be sent by the master (online_sync.rs, execute_async_push
\* and execute_async_pull).
THEOREM OnlineNothingForgotten == OnSpec => []NothingForgotten
<1>1. OnInv => NothingForgotten
  <2> SUFFICES ASSUME OnInv, NEW m \in Peers, NEW x \in pv[m].has, x \notin pv[Other(m)].has
               PROVE  \/ x \in Delta(m) \/ x \in past.late[m] \/ pv[m].pc \in {"m11", "m12"}
                      \/ \E p \in cloud.pkgs : x \in p.edits /\ p.up
    BY DEF NothingForgotten
  <2>1. Other(m) \in Peers /\ Other(m) # m /\ x \notin Sure(Other(m))
    BY TwoPeers, EditsDated
  <2>2. Tracked(m, Other(m), x) /\ ~Doomed(Other(m), x)
    BY <2>1 DEF OnInv, Covered, CoveredFrom, Doomed
  <2> QED BY <2>2 DEF Tracked, Safe, InPackage
<1> QED BY <1>1, OnInvariant, PTL

=============================================================================
