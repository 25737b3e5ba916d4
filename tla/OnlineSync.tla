----------------------------- MODULE OnlineSync -----------------------------
(***************************************************************************)
(* Online sync (src/online_sync.rs) of two machines through a server and   *)
(* SFTP storage that are not in the repository: the session sync, in which *)
(* one machine uploads all it has and the other merges and sends back, and *)
(* the asynchronous sync by packages, which falls back to a session.  An   *)
(* edit is the second it was made in; a marker is the second it was made   *)
(* in, and different from every other marker; merging is union.            *)
(***************************************************************************)
EXTENDS Naturals, FiniteSets

CONSTANTS
  Peers,                   \* the machines
  NoMark,                  \* no sync marker yet
  MaxUtc, MaxEdits, MaxSessions, MaxPkgs, MaxTriggers, OnFaults   \* bounds

ASSUME OnAssumption ==
  /\ \E a, b \in Peers : a # b /\ Peers = {a, b}
  /\ MaxUtc \in Nat /\ MaxSessions \in Nat /\ NoMark \notin Nat

VARIABLES
  pv,      \* per machine: database, latest marker, backup, and where the sync thread is
  cloud,   \* the server's session and packages, and what is in storage
  utc,     \* the clock
  past     \* history and bounds: see OnInit

onVars == <<pv, cloud, utc, past>>

SessionPcs == {"wait_peer", "freeze", "s6", "s11", "s13", "m6", "m9", "m10", "m11", "m12"}
AsyncPcs == {"pull", "pulling", "ack", "push", "upload", "mark"}

Edits == 1..MaxUtc
Marks == 0..MaxUtc \cup {NoMark}

Places == SessionPcs \cup AsyncPcs \cup {"idle", "enter"}

Machine == [pc: Places, has: SUBSET Edits, mark: Marks, bk: SUBSET Edits, bkMark: Marks,
            got: SUBSET Edits, frozen: BOOLEAN, sess: 0..MaxSessions, todo: SUBSET Edits,
            next: Marks]

\* What the server knows of a session, and what is in storage for it.
Statuses == {"none", "awaiting", "active", "failed", "done"}
SessionType == [id: 0..MaxSessions, st: Statuses, step: 0..13,
                master: Peers \cup {NoMark}, up: SUBSET Edits, down: SUBSET Edits]

\* A package is known by the second it was registered in.
Package == [id: Edits, from: Peers, base: Marks, edits: SUBSET Edits, up: BOOLEAN]

OnTypeOK ==
  /\ pv \in [Peers -> Machine]
  /\ cloud \in [sess: SessionType, pkgs: SUBSET Package]
  /\ utc \in 0..MaxUtc
  /\ past \in [done: [Peers -> 0..MaxSessions], all: SUBSET Edits, late: [Peers -> SUBSET Edits],
               edits: Nat, faults: Nat, made: 0..MaxSessions, starts: Nat]
  \* the database is frozen in a session only
  /\ \A m \in Peers : pv[m].frozen => pv[m].pc \in SessionPcs

\* Markers of the machines at the start: none, or that of a LAN sync, with each other
\* or of one of them with a third machine.
OnInit ==
  /\ \E mark \in [Peers -> {0, NoMark}] :
       pv = [m \in Peers |->
               [pc |-> "idle", has |-> {}, mark |-> mark[m], bk |-> {}, bkMark |-> mark[m],
                got |-> {}, frozen |-> FALSE, sess |-> 0, todo |-> {}, next |-> mark[m]]]
  /\ cloud = [sess |-> [id |-> 0, st |-> "none", step |-> 0, master |-> NoMark,
                        up |-> {}, down |-> {}],
              pkgs |-> {}]
  /\ utc = 0
  /\ past = [done  |-> [m \in Peers |-> 0],      \* last session that a machine completed
             all   |-> {},                       \* edits that took part in the last session
             late  |-> [m \in Peers |-> {}],     \* edits a marker has overtaken
             edits |-> 0, faults |-> 0, made |-> 0, starts |-> 0]

Other(m) == CHOOSE o \in Peers : o # m
Ticks == utc < MaxUtc /\ utc' = utc + 1

\* The dashboard goes on writing, also while a sync runs.
EditRow(m) ==
  /\ past.edits < MaxEdits /\ Ticks
  /\ pv' = [pv EXCEPT ![m].has = @ \cup {utc + 1}]
  /\ past' = [past EXCEPT !.edits = @ + 1]
  /\ UNCHANGED cloud

\* The lock is taken (handle_online_trigger_sync): by sync_mode, packages or a session.
handle_online_trigger_sync(m) ==
  /\ pv[m].pc = "idle" /\ past.starts < MaxTriggers
  /\ \E pc \in {"pull", "enter"} : pv' = [pv EXCEPT ![m].pc = pc]
  /\ past' = [past EXCEPT !.starts = @ + 1]
  /\ UNCHANGED <<cloud, utc>>

\* Unfrozen, and the lock given back.
Ended(r) == [r EXCEPT !.pc = "idle", !.frozen = FALSE, !.sess = 0, !.todo = {}, !.got = {}]

Restored(r) == [r EXCEPT !.has = r.bk, !.mark = r.bkMark]

Session == cloud.sess
Live(m) == Session.id = pv[m].sess /\ Session.st = "active"

\* cancel_session is best-effort.
CancelSession(m) ==
  \/ UNCHANGED cloud
  \/ /\ pv[m].sess = Session.id /\ Session.st \in {"awaiting", "active"}
     /\ cloud' = [cloud EXCEPT !.sess.st = "failed"]

\* The marker a failed session leaves behind was made before its edits were sent.
Overtaken(m) == IF pv[m].pc \in {"m11", "m12", "s13"} THEN pv[m].has ELSE {}

-----------------------------------------------------------------------------
(* The session sync: execute_online_sync and execute_sync_steps. *)

create_session(m) ==
  /\ pv[m].pc = "enter"
  /\ \/ /\ Session.st \in {"none", "failed", "done"} /\ past.made < MaxSessions
        /\ cloud' = [cloud EXCEPT !.sess = [id |-> past.made + 1, st |-> "awaiting", step |-> 0,
                                            master |-> m, up |-> {}, down |-> {}]]
        /\ past' = [past EXCEPT !.made = @ + 1, !.all = {}]
        /\ pv' = [pv EXCEPT ![m] = [@ EXCEPT !.pc = "wait_peer", !.sess = past.made + 1]]
     \/ /\ Session.st = "awaiting" /\ Session.master # m
        /\ cloud' = [cloud EXCEPT !.sess.st = "active"]
        /\ pv' = [pv EXCEPT ![m] = [@ EXCEPT !.pc = "freeze", !.sess = Session.id]]
        /\ UNCHANGED past
     \/ /\ Session.st = "active" \/ (Session.st = "awaiting" /\ Session.master = m)
           \/ pv[m].has = pv[Other(m)].has         \* rejected, or not needed
        /\ pv' = [pv EXCEPT ![m] = Ended(@)]
        /\ UNCHANGED <<cloud, past>>
  /\ UNCHANGED utc

\* Any status but awaiting_peer ends the wait.
wait_for_peer(m) ==
  /\ pv[m].pc = "wait_peer"
  /\ Session.id # pv[m].sess \/ Session.st # "awaiting"
  /\ pv' = [pv EXCEPT ![m].pc = "freeze"]
  /\ UNCHANGED <<cloud, utc, past>>

Freeze5(m) ==
  /\ pv[m].pc = "freeze" /\ Live(m)
  /\ pv' = [pv EXCEPT ![m] = [@ EXCEPT !.pc = IF Session.master = m THEN "m6" ELSE "s6",
                                      !.frozen = TRUE]]
  /\ UNCHANGED <<cloud, utc, past>>

SlaveUploads(m) ==
  /\ pv[m].pc = "s6" /\ Live(m)
  /\ cloud' = [cloud EXCEPT !.sess = [@ EXCEPT !.up = pv[m].has, !.step = 6]]
  /\ pv' = [pv EXCEPT ![m] = [@ EXCEPT !.pc = "s11", !.got = pv[m].has]]   \* got: what it has sent
  /\ past' = [past EXCEPT !.all = @ \cup pv[m].has]
  /\ UNCHANGED utc

\* wait_for_step(6), download and backup.
MasterDownloads(m) ==
  /\ pv[m].pc = "m6" /\ Live(m) /\ Session.step >= 6
  /\ pv' = [pv EXCEPT ![m] = [@ EXCEPT !.pc = "m9", !.got = Session.up,
                                      !.bk = pv[m].has, !.bkMark = pv[m].mark]]
  /\ UNCHANGED <<cloud, utc, past>>

MasterMerges(m) ==
  /\ pv[m].pc = "m9" /\ Live(m)
  /\ pv' = [pv EXCEPT ![m] = [@ EXCEPT !.pc = "m10", !.has = pv[m].has \cup pv[m].got]]
  /\ past' = [past EXCEPT !.all = @ \cup pv[m].has]
  /\ UNCHANGED <<cloud, utc>>

\* verify_merge_integrity, then a marker of the master's own.
MasterMarks(m) ==
  /\ pv[m].pc = "m10" /\ Live(m) /\ Ticks
  /\ pv' = [pv EXCEPT ![m] = [@ EXCEPT !.pc = "m11", !.mark = utc + 1]]
  /\ UNCHANGED <<cloud, past>>

\* Mutant of MergedExport: the slave gets back what it has sent.
MergedExportOfSlave(m) == pv[m].got

MergedExport(m) == pv[m].has

MasterUploads(m) ==
  /\ pv[m].pc = "m11" /\ Live(m)
  /\ cloud' = [cloud EXCEPT !.sess = [@ EXCEPT !.down = MergedExport(m), !.step = 11]]
  /\ pv' = [pv EXCEPT ![m].pc = "m12"]
  /\ UNCHANGED <<utc, past>>

\* wait_for_step(11), download, backup, merge, verify, and the slave's own marker:
\* what was written after the export is older than it.
SlaveImports(m) ==
  /\ pv[m].pc = "s11" /\ Live(m) /\ Session.step >= 11 /\ Ticks
  /\ pv' = [pv EXCEPT ![m] = [@ EXCEPT !.pc = "s13", !.has = pv[m].has \cup Session.down,
                                      !.mark = utc + 1, !.bk = pv[m].has,
                                      !.bkMark = pv[m].mark]]
  /\ past' = [past EXCEPT !.late[m] = @ \cup (pv[m].has \ pv[m].got)]
  /\ UNCHANGED cloud

SlaveReports(m) ==
  /\ pv[m].pc = "s13" /\ Live(m)
  /\ cloud' = [cloud EXCEPT !.sess.step = 12]
  /\ pv' = [pv EXCEPT ![m] = Ended(@)]
  /\ past' = [past EXCEPT !.done[m] = pv[m].sess]
  /\ UNCHANGED utc

MasterEnds(m) ==
  /\ pv[m].pc = "m12" /\ Live(m) /\ Session.step >= 12
  /\ cloud' = [cloud EXCEPT !.sess = [@ EXCEPT !.st = "done", !.step = 13]]
  /\ pv' = [pv EXCEPT ![m] = Ended(@)]
  /\ past' = [past EXCEPT !.done[m] = pv[m].sess]
  /\ UNCHANGED utc

\* Merge or verification fails: the backup is restored.  The slave has backed up just before.
MergeFails(m) ==
  /\ pv[m].pc \in {"m9", "m10"} \/ (pv[m].pc = "s11" /\ Live(m) /\ Session.step >= 11)
  /\ past.faults < OnFaults
  /\ past' = [past EXCEPT !.faults = @ + 1]
  /\ pv' = [pv EXCEPT ![m] = Ended(IF @.pc = "s11" THEN @ ELSE Restored(@))]
  /\ CancelSession(m)
  /\ UNCHANGED utc

\* The session is over for the server: every report and every wait returns an error.
SessionGone(m) ==
  /\ pv[m].pc \in SessionPcs \ {"wait_peer"} /\ ~Live(m)
  /\ pv' = [pv EXCEPT ![m] = Ended(@)]
  /\ past' = [past EXCEPT !.late[m] = @ \cup Overtaken(m)]
  /\ UNCHANGED <<cloud, utc>>

\* Retries used up, 30 minutes over, cancelled by the user.
NetworkFails(m) ==
  /\ pv[m].pc # "idle" /\ past.faults < OnFaults
  /\ pv' = [pv EXCEPT ![m] = Ended(@)]
  /\ past' = [past EXCEPT !.faults = @ + 1, !.late[m] = @ \cup Overtaken(m)]
  /\ CancelSession(m)
  /\ UNCHANGED utc

\* The server gives up a session whose member sends no heartbeats.
Expires ==
  /\ Session.st \in {"awaiting", "active"}
  /\ \E m \in Peers : pv[m].sess # Session.id /\ (Session.st = "active" \/ Session.master = m)
  /\ cloud' = [cloud EXCEPT !.sess.st = "failed"]
  /\ UNCHANGED <<pv, utc, past>>

-----------------------------------------------------------------------------
(* The asynchronous sync: execute_async_pull, then execute_async_push. *)

\* The packages of the other machines, and the oldest of them: they are answered in the
\* order they were registered in.
Pending(m) == {p \in cloud.pkgs : p.from # m}
Oldest(m) == CHOOSE p \in Pending(m) : \A q \in Pending(m) : p.id <= q.id

\* async_pending, and one backup for all packages.
async_pending(m) ==
  /\ pv[m].pc = "pull"
  /\ pv' = [pv EXCEPT ![m] = [@ EXCEPT !.pc = IF Pending(m) = {} THEN "push" ELSE "pulling",
                                      !.todo = {p.id : p \in Pending(m)},
                                      !.bk = pv[m].has, !.bkMark = pv[m].mark]]
  /\ UNCHANGED <<cloud, utc, past>>

\* Made on another marker than this machine's latest: rejected, and a session instead.
async_reject(m) ==
  /\ pv[m].pc = "pulling"
  /\ LET p == Oldest(m) IN
     /\ p.base # NoMark /\ p.base # pv[m].mark
     /\ cloud' = [cloud EXCEPT !.pkgs = @ \ {p}]
     /\ past' = [past EXCEPT !.late[p.from] = @ \cup p.edits]
     /\ pv' = [pv EXCEPT ![m] = [@ EXCEPT !.pc = "enter", !.todo = {}]]
  /\ UNCHANGED utc

\* Was registered but never uploaded: the download fails, and the package stays.
DownloadFails(m) ==
  /\ pv[m].pc = "pulling"
  /\ LET p == Oldest(m) IN p.base \in {NoMark, pv[m].mark} /\ ~p.up
  /\ pv' = [pv EXCEPT ![m] = Ended(@)]
  /\ UNCHANGED <<cloud, utc, past>>

\* Merge, verification and a marker of this machine's own, which overtakes its edits.
AsyncMerge(m) ==
  /\ pv[m].pc = "pulling" /\ Ticks
  /\ LET p == Oldest(m) IN
     /\ p.base \in {NoMark, pv[m].mark} /\ p.up
     /\ pv' = [pv EXCEPT ![m] = [@ EXCEPT !.pc = "ack", !.has = pv[m].has \cup p.edits,
                                         !.mark = utc + 1]]
  /\ past' = [past EXCEPT !.late[m] = @ \cup pv[m].has]
  /\ UNCHANGED cloud

AsyncMergeFails(m) ==
  /\ pv[m].pc = "pulling" /\ past.faults < OnFaults
  /\ LET p == Oldest(m) IN
     /\ p.base \in {NoMark, pv[m].mark} /\ p.up
     /\ cloud' = [cloud EXCEPT !.pkgs = @ \ {p}]
     /\ past' = [past EXCEPT !.faults = @ + 1, !.late[p.from] = @ \cup p.edits]
  /\ pv' = [pv EXCEPT ![m] = Ended(Restored(@))]
  /\ UNCHANGED utc

async_ack(m) ==
  /\ pv[m].pc = "ack"
  /\ LET rest == pv[m].todo \ {Oldest(m).id} IN
     pv' = [pv EXCEPT ![m] = [@ EXCEPT !.pc = IF rest = {} THEN "push" ELSE "pulling",
                                       !.todo = rest]]
  /\ cloud' = [cloud EXCEPT !.pkgs = @ \ {Oldest(m)}]
  /\ UNCHANGED <<utc, past>>

Delta(m) == {x \in pv[m].has : pv[m].mark = NoMark \/ x >= pv[m].mark}

\* The package is registered before it is uploaded, and the time of its marker is taken.
\* An export is never empty text: a package is made also when nothing has changed.
async_push(m) ==
  /\ pv[m].pc = "push" /\ Cardinality(cloud.pkgs) < MaxPkgs /\ Ticks
  /\ cloud' = [cloud EXCEPT !.pkgs = @ \cup {[id |-> utc + 1, from |-> m, base |-> pv[m].mark,
                                              edits |-> Delta(m), up |-> FALSE]}]
  /\ pv' = [pv EXCEPT ![m] = [@ EXCEPT !.pc = "upload", !.next = utc + 1]]
  /\ UNCHANGED past

\* Mutant of AsyncUpload: the marker is stored before the upload.
AsyncUploadMarked(m) ==
  /\ pv[m].pc = "upload"
  /\ pv' = [pv EXCEPT ![m] = [@ EXCEPT !.pc = "mark", !.mark = pv[m].next]]
  /\ UNCHANGED <<cloud, utc, past>>

AsyncUpload(m) ==
  /\ pv[m].pc = "upload"
  /\ cloud' = [cloud EXCEPT !.pkgs = {IF p.id = pv[m].next THEN [p EXCEPT !.up = TRUE]
                                     ELSE p : p \in @}]
  /\ pv' = [pv EXCEPT ![m].pc = "mark"]
  /\ UNCHANGED <<utc, past>>

AsyncMark(m) ==
  /\ pv[m].pc = "mark"
  /\ pv' = [pv EXCEPT ![m] = Ended([@ EXCEPT !.mark = pv[m].next])]
  /\ UNCHANGED <<cloud, utc, past>>

OnNext ==
  \/ Expires
  \/ \E m \in Peers :
       \/ EditRow(m) \/ handle_online_trigger_sync(m) \/ create_session(m) \/ wait_for_peer(m)
       \/ Freeze5(m) \/ SlaveUploads(m) \/ MasterDownloads(m) \/ MasterMerges(m) \/ MasterMarks(m)
       \/ MasterUploads(m) \/ SlaveImports(m) \/ SlaveReports(m) \/ MasterEnds(m) \/ MergeFails(m)
       \/ SessionGone(m) \/ NetworkFails(m)
       \/ async_pending(m) \/ async_reject(m) \/ DownloadFails(m) \/ AsyncMerge(m)
       \/ AsyncMergeFails(m) \/ async_ack(m) \/ async_push(m) \/ AsyncUpload(m) \/ AsyncMark(m)

OnSpec == OnInit /\ [][OnNext]_onVars

-----------------------------------------------------------------------------
\* Once both machines have completed a session, each has every edit that the slave
\* exported or the master had when it merged, whatever failed before or since.
SessionMeansSame ==
  \A m \in Peers :
    past.done[m] > 0 /\ past.done[Other(m)] = past.done[m] /\ past.made = past.done[m]
      => past.all \subseteq pv[m].has

\* Packages carry what changed since the latest marker: an edit the other machine
\* does not have is newer than the marker or in a package that is there, unless a
\* session, a rejected package or another package's marker has overtaken it, or the
\* machine is the master of a session that is about to send it.
NothingForgotten ==
  \A m \in Peers : \A x \in pv[m].has \ pv[Other(m)].has :
    \/ x \in Delta(m) \/ x \in past.late[m] \/ pv[m].pc \in {"m11", "m12"}
    \/ \E p \in cloud.pkgs : x \in p.edits /\ p.up
=============================================================================
