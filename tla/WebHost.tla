------------------------------ MODULE WebHost ------------------------------
(***************************************************************************)
(* The Web UI without a window: the daemon's tray starts and stops a       *)
(* headless dashboard (src/webui_host_ctl.rs), which listens on a port and *)
(* names itself in webui_host.json (shared/webui_host.rs, webui/mod.rs,    *)
(* lib.rs).  A dashboard with a window may serve the same port.  Process   *)
(* ids are reused; the tray is one thread, kills run in threads of their   *)
(* own.                                                                    *)
(***************************************************************************)
EXTENDS Naturals, FiniteSets

CONSTANTS
  Pids, NoPid,
  MaxStarts,    \* bound: of the processes that are started
  MaxMishaps    \* bound: of crashes, failed writes and changes of the setting

ASSUME HostAssumption == NoPid \notin Pids

VARIABLES
  proc,      \* what runs under each pid: "free", "starting" or "host" (headless),
             \* "window", or "other"
  port,      \* who listens
  named,     \* the pid in webui_host.json
  enabled,   \* webserver_settings.json
  tray,      \* the tray's thread: [pc, pid, click]
  killers,   \* pids that threads of stop() are about to kill
  lost,      \* hosts whose file was cleared by a tray that had seen a dead pid, or
             \* never written
  spent      \* [starts, mishaps]

hostVars == <<proc, port, named, enabled, tray, killers, lost, spent>>

Idle == [pc |-> "idle", pid |-> NoPid, click |-> FALSE]

HostTypeOK ==
  /\ proc \in [Pids -> {"free", "starting", "host", "window", "other"}]
  /\ port \in Pids \cup {NoPid} /\ named \in Pids \cup {NoPid}
  /\ tray \in [pc: {"idle", "checking", "dead", "starting"}, pid: Pids \cup {NoPid},
               click: BOOLEAN]
  /\ killers \subseteq Pids /\ lost \subseteq Pids /\ enabled \in BOOLEAN

HostInit ==
  /\ proc = [i \in Pids |-> "free"] /\ port = NoPid /\ named = NoPid
  /\ enabled = TRUE /\ tray = Idle /\ killers = {} /\ lost = {}
  /\ spent = [starts |-> 0, mishaps |-> 0]

Alive(i) == proc[i] # "free"
IsDashboard(i) == proc[i] \in {"starting", "host", "window"}

-----------------------------------------------------------------------------
(* Processes. *)

Begins(i, kind) ==
  /\ spent.starts < MaxStarts /\ spent' = [spent EXCEPT !.starts = @ + 1]
  /\ ~Alive(i) /\ proc' = [proc EXCEPT ![i] = kind]

\* The process is gone, and with it its listener.
Ends(i) ==
  /\ proc' = [proc EXCEPT ![i] = "free"]
  /\ port' = IF port = i THEN NoPid ELSE port
  /\ lost' = lost \ {i}

\* The user opens the dashboard, or any program starts; start_if_enabled serves the
\* Web UI when it is enabled and the port is free, and names nobody.
OtherStarts(i) ==
  /\ \/ Begins(i, "window") /\ port' = IF enabled /\ port = NoPid THEN i ELSE port
     \/ Begins(i, "other") /\ UNCHANGED port
  /\ UNCHANGED <<named, enabled, tray, killers, lost>>

\* start_headless: bind, then write the file, which may fail; a process that cannot
\* listen ends with process::exit and leaves the file alone.
Listens(i) ==
  /\ proc[i] = "starting" /\ enabled /\ port = NoPid
  /\ proc' = [proc EXCEPT ![i] = "host"] /\ port' = i
  /\ \/ named' = i /\ UNCHANGED <<lost, spent>>
     \/ /\ spent.mishaps < MaxMishaps /\ spent' = [spent EXCEPT !.mishaps = @ + 1]
        /\ lost' = lost \cup {i} /\ UNCHANGED named
  /\ UNCHANGED <<enabled, tray, killers>>

\* Mutant: it clears the file as a host that ends does.
NamedAfterRefusalNone == NoPid

NamedAfterRefusal == named

CannotListen(i) ==
  /\ proc[i] = "starting" /\ (~enabled \/ port # NoPid)
  /\ Ends(i) /\ named' = NamedAfterRefusal
  /\ UNCHANGED <<enabled, tray, killers, spent>>

\* RunEvent::Exit of a headless process clears the file while it still listens.
Quits(i) ==
  /\ proc[i] \in {"host", "window", "other"} /\ Ends(i)
  /\ named' = IF proc[i] = "host" THEN NoPid ELSE named
  /\ UNCHANGED <<enabled, tray, killers, spent>>

\* A crash, or the end of the user's session, clears nothing.
Crashes(i) ==
  /\ Alive(i) /\ spent.mishaps < MaxMishaps /\ spent' = [spent EXCEPT !.mishaps = @ + 1]
  /\ Ends(i) /\ UNCHANGED <<named, enabled, tray, killers>>

\* webserver_set_config; a running host goes on.
ToggleEnabled ==
  /\ spent.mishaps < MaxMishaps /\ spent' = [spent EXCEPT !.mishaps = @ + 1]
  /\ enabled' = ~enabled
  /\ UNCHANGED <<proc, port, named, tray, killers, lost>>

-----------------------------------------------------------------------------
(* The tray: every tick, and every click, begin with current().  The file   *)
(* is read, then a command tells whether the process lives, and the file of *)
(* a dead one is removed.                                                   *)

ReadHost(click) ==
  /\ tray = Idle /\ enabled
  /\ tray' = IF named = NoPid
             THEN IF click THEN [Idle EXCEPT !.pc = "starting"] ELSE Idle
             ELSE [pc |-> "checking", pid |-> named, click |-> click]
  /\ tray' # tray
  /\ UNCHANGED <<proc, port, named, enabled, killers, lost, spent>>

\* stop() reads the file again, has the process killed when it is a dashboard, and
\* removes the file at once: the port keeps a second host from starting.
CheckHost ==
  /\ tray.pc = "checking"
  /\ IF ~Alive(tray.pid) THEN tray' = [tray EXCEPT !.pc = "dead"] /\ UNCHANGED <<named, killers>>
     ELSE /\ tray' = Idle
          /\ IF tray.click
             THEN /\ killers' = killers \cup {i \in {named} \ {NoPid} : IsDashboard(i)}
                  /\ named' = NoPid
             ELSE UNCHANGED <<named, killers>>
  /\ UNCHANGED <<proc, port, enabled, lost, spent>>

\* webui_host::clear removes the file, whoever it names by now.
ClearDead ==
  /\ tray.pc = "dead"
  /\ named' = NoPid
  /\ lost' = lost \cup {i \in {named} \ {NoPid} : proc[i] = "host"}
  /\ tray' = IF tray.click THEN [Idle EXCEPT !.pc = "starting"] ELSE Idle
  /\ UNCHANGED <<proc, port, enabled, killers, spent>>

\* start(): nothing when it is disabled, when a host lives, or when the port is taken
\* (by a Web UI: the browser is opened).
StartHost(i) ==
  /\ tray.pc = "starting"
  /\ IF enabled /\ named # NoPid /\ ~Alive(named)
     THEN /\ tray' = [tray EXCEPT !.pc = "dead", !.pid = named, !.click = TRUE]
          /\ UNCHANGED <<proc, spent>>
     ELSE /\ tray' = Idle
          /\ IF enabled /\ named = NoPid /\ port = NoPid THEN Begins(i, "starting")
             ELSE UNCHANGED <<proc, spent>>
  /\ UNCHANGED <<port, named, enabled, killers, lost>>

\* The thread of stop(): the pid may be another process's by now.
Kill(i) ==
  /\ i \in killers /\ killers' = killers \ {i}
  /\ IF Alive(i) THEN Ends(i) ELSE UNCHANGED <<proc, port, lost>>
  /\ UNCHANGED <<named, enabled, tray, spent>>

\* The daemon ends, and its threads with it.
DaemonEnds ==
  /\ spent.mishaps < MaxMishaps /\ spent' = [spent EXCEPT !.mishaps = @ + 1]
  /\ lost' = lost \cup {i \in killers : proc[i] = "host"}
  /\ killers' = {} /\ tray' = Idle
  /\ UNCHANGED <<proc, port, named, enabled>>

HostNext ==
  \/ \E i \in Pids : OtherStarts(i) \/ Listens(i) \/ CannotListen(i) \/ Quits(i)
                       \/ Crashes(i) \/ StartHost(i) \/ Kill(i)
  \/ \E click \in BOOLEAN : ReadHost(click)
  \/ CheckHost \/ ClearDead \/ ToggleEnabled \/ DaemonEnds

HostSpec == HostInit /\ [][HostNext]_hostVars

\* "so that the daemon sees no orphan" (lib.rs:364): a headless dashboard that serves
\* is the one the status file names, and a click on the tray stops it, whatever double
\* clicks, crashes, second instances and reused pids came before; unless a stop is on
\* its way, its file could not be written, the daemon ended before a kill, or the tray
\* removed the file of a dead process after the new one had replaced it.
HostCanBeStopped ==
  \A i \in Pids : proc[i] = "host" => named = i \/ i \in killers \cup lost
=============================================================================
