------------------------------ MODULE Discovery ------------------------------
(***************************************************************************)
(* LAN discovery (src/lan_discovery.rs): how the daemons find each other   *)
(* and agree on a master.  A daemon elects at its start and from then on   *)
(* answers to the beacons of the others; packets may be lost and arrive up *)
(* to MAX_DELAY ticks late, daemons restart, the user may force a role.    *)
(* device_id is a number, compared as the code compares the strings; a     *)
(* peer's address and version, and the cap of 30 days on uptimes, are left *)
(* out.                                                                    *)
(***************************************************************************)
EXTENDS Naturals, FiniteSets

CONSTANTS
  Dev,                                 \* the device ids
  Unknown,                             \* no entry for a peer
  ELECTION, MAX_DELAY,   \* in ticks of the clock
  MaxTime, MaxPackets, MaxOdds         \* bounds

ASSUME DiscAssumption ==
  Dev \subseteq Nat /\ Dev # {} /\ ELECTION \in Nat /\ MAX_DELAY \in Nat /\ MaxTime \in Nat

VARIABLES
  daemon,    \* per device: the discovery thread and the role in LanSyncState
  peers,     \* per device: what it knows of each other one
  air,       \* packets under way
  ticks,     \* the clock
  odds       \* bounds used up: stops of a daemon, changes of forced_role

discVars == <<daemon, peers, air, ticks, odds>>

Roles == {"undecided", "master", "slave"}
Rivals(m) == Dev \ {m}

\* `why' is the reason of the present role; `met' are the masters whose beacons the daemon
\* has handled as a master.
Stopped == [pc |-> "off", role |-> "undecided", at |-> 0, forced |-> FALSE, beat |-> 0,
            why |-> "start", met |-> {}]

DiscTypeOK ==
  /\ daemon \in [Dev -> [pc: {"off", "electing", "loop"}, role: Roles, at: 0..MaxTime,
                         forced: BOOLEAN, beat: 0..MaxTime,
                         why: {"start", "forced", "election", "older", "yield"}, met: SUBSET Dev]]
  /\ \A m \in Dev : \A o \in Rivals(m) :
       peers[m][o] = Unknown \/ peers[m][o] \in 0..MaxTime
  /\ Cardinality(air) <= MaxPackets
  /\ ticks \in 0..MaxTime
  \* nothing is left undecided once the loop runs, and a stopped daemon knows nobody
  /\ \A m \in Dev : /\ daemon[m].pc = "loop" => daemon[m].role # "undecided"
                    /\ daemon[m].pc = "off" => \A o \in Rivals(m) : peers[m][o] = Unknown

DiscInit ==
  /\ daemon = [m \in Dev |-> Stopped]
  /\ peers = [m \in Dev |-> [o \in Rivals(m) |-> Unknown]]
  /\ air = {}
  /\ ticks = 0
  /\ odds = [stops |-> 0, toggles |-> 0, want |-> [m \in Dev |-> "none"]]

Uptime(m) == ticks - daemon[m].at
Found(m) == {o \in Rivals(m) : peers[m][o] # Unknown}

Packet(m, o, type, role, up) ==
  [type |-> type, from |-> m, to |-> o, role |-> role, up |-> up, at |-> ticks]
BeaconTo(m, o, role, up) == Packet(m, o, "beacon", role, up)
DiscoverTo(m, o) == Packet(m, o, "discover", "undecided", 0)

\* What is sent arrives later, or is lost as a whole.
Send(packets) ==
  \E s \in {packets, {}} : /\ Cardinality(air \cup s) <= MaxPackets
                            /\ air' = air \cup s

\* Mutant of Sent: beacons without an uptime, as the election sends them.
SentWithoutUptime(m, role) == {BeaconTo(m, o, role, 0) : o \in Rivals(m)}

Sent(m, role) == {BeaconTo(m, o, role, Uptime(m)) : o \in Rivals(m)}

\* ---- Start and election ----

\* Peers of the previous run are probed at their addresses, the others by broadcast.
start(m) ==
  /\ daemon[m].pc = "off" /\ ticks + ELECTION <= MaxTime
  /\ LET w == odds.want[m] IN
     IF w = "none"
     THEN /\ daemon' = [daemon EXCEPT ![m] = [Stopped EXCEPT !.pc = "electing", !.at = ticks]]
          /\ Send({DiscoverTo(m, o) : o \in Rivals(m)} \cup {BeaconTo(m, o, "undecided", 0) : o \in Rivals(m)})
     ELSE /\ daemon' = [daemon EXCEPT ![m] = [Stopped EXCEPT !.pc = "loop", !.at = ticks,
                                               !.role = w, !.forced = TRUE, !.beat = ticks,
                                               !.why = "forced"]]
          /\ Send({DiscoverTo(m, o) : o \in Rivals(m)} \cup {BeaconTo(m, o, w, 0) : o \in Rivals(m)})
  /\ UNCHANGED <<peers, ticks, odds>>

\* Only the election reads the uptimes of the peers.
UpRead(m, up) == IF daemon[m].pc = "electing" THEN up ELSE 0
Heard(m, p) ==
  [peers EXCEPT ![m][p.from] = UpRead(m, p.up)]
Forgotten(m, t) ==
  [t EXCEPT ![m] = [o \in Rivals(m) |-> IF @[o] = Unknown THEN Unknown ELSE 0]]

\* In the election only beacons count; a request of another daemon is not answered.
ElectionHears(m, p) ==
  /\ daemon[m].pc = "electing"
  /\ peers' = CASE p.type = "discover" -> peers
                [] p.role = "master" -> Forgotten(m, Heard(m, p))
                [] OTHER -> Heard(m, p)
  /\ IF p.type = "beacon" /\ p.role = "master"
     THEN /\ daemon' = [daemon EXCEPT ![m].pc = "loop", ![m].role = "slave",
                                      ![m].why = "election", ![m].beat = ticks]
          /\ \E s \in SUBSET Sent(m, "slave") :
               LET rest == (air \ {p}) \cup s
               IN Cardinality(rest) <= MaxPackets /\ air' = rest
     ELSE /\ air' = air \ {p} /\ UNCHANGED <<daemon>>
  /\ UNCHANGED <<ticks, odds>>

OlderPeer(m) ==
  \E o \in Found(m) : \/ peers[m][o] > Uptime(m)
                      \/ peers[m][o] = Uptime(m) /\ o < m

ElectionEnds(m) ==
  /\ daemon[m].pc = "electing" /\ Uptime(m) >= ELECTION
  /\ LET r == IF OlderPeer(m) THEN "slave" ELSE "master" IN
     /\ daemon' = [daemon EXCEPT ![m].pc = "loop", ![m].role = r, ![m].beat = ticks,
                                 ![m].why = IF r = "slave" THEN "older" ELSE "election"]
     /\ Send(Sent(m, r))
  /\ peers' = Forgotten(m, peers)
  /\ UNCHANGED <<ticks, odds>>

\* ---- The loop ----

\* Mutant of WinsElection: equal uptimes are not told apart by the ids.
WinsByUptime(m, p) == Uptime(m) > p.up

\* The peer's uptime is that at sending, the own one that at processing.
WinsElection(m, p) ==
  Uptime(m) > p.up \/ (Uptime(m) = p.up /\ m < p.from)

handle_beacon(m, p) ==
  /\ daemon[m].pc = "loop" /\ p.type = "beacon"
  /\ peers' = Heard(m, p)
  /\ LET conflict == ~daemon[m].forced /\ daemon[m].role = "master" /\ p.role = "master"
     IN daemon' =
          IF conflict /\ ~WinsElection(m, p)
          THEN [daemon EXCEPT ![m].role = "slave", ![m].why = "yield", ![m].met = {}]
          ELSE [daemon EXCEPT ![m].met = IF conflict THEN @ \cup {p.from} ELSE @]
  /\ air' = air \ {p}
  /\ UNCHANGED <<ticks, odds>>

handle_discover(m, p) ==
  /\ daemon[m].pc = "loop" /\ p.type = "discover"
  /\ \E s \in SUBSET {BeaconTo(m, p.from, daemon[m].role, Uptime(m))} :
       air' = (air \ {p}) \cup s
  /\ UNCHANGED <<daemon, peers, ticks, odds>>

\* Every 30 seconds a beacon and a scan over HTTP.  The scan learns the role but not the
\* uptime, and elects nobody.
BeaconAndScan(m) ==
  /\ daemon[m].pc = "loop" /\ daemon[m].beat < ticks
  /\ daemon' = [daemon EXCEPT ![m].beat = ticks]
  /\ Send(Sent(m, daemon[m].role))
  /\ \E found \in SUBSET {o \in Rivals(m) : daemon[o].pc # "off"} :
       peers' = [peers EXCEPT ![m] = [o \in Rivals(m) |->
                   IF o \in found THEN 0 ELSE @[o]]]
  /\ UNCHANGED <<ticks, odds>>

\* Every 5 seconds.  A role that is no longer forced stays what it is.
reload_settings(m) ==
  /\ daemon[m].pc = "loop"
  /\ LET w == odds.want[m]
         r == IF w = "none" THEN daemon[m].role ELSE w
     IN /\ r # daemon[m].role \/ daemon[m].forced # (w # "none")
        /\ daemon' = [daemon EXCEPT ![m].role = r, ![m].forced = (w # "none"),
                                 ![m].why = IF r = daemon[m].role THEN @ ELSE "forced",
                                 ![m].met = IF r = "master" THEN @ ELSE {}]
  /\ UNCHANGED <<peers, air, ticks, odds>>

\* 120 seconds without a beacon or an answer: a peer that is off, or whose packets are lost.
ExpirePeers(m) ==
  /\ daemon[m].pc = "loop"
  /\ \E silent \in SUBSET Found(m) \ {{}} : peers' = [peers EXCEPT ![m] = [o \in Rivals(m) |->
                 IF o \in silent THEN Unknown ELSE @[o]]]
  /\ UNCHANGED <<daemon, air, ticks, odds>>

\* stop_signal, or a crash.
StopDaemon(m) ==
  /\ daemon[m].pc # "off" /\ odds.stops + odds.toggles < MaxOdds
  /\ daemon' = [daemon EXCEPT ![m] = Stopped]
  /\ peers' = [peers EXCEPT ![m] = [o \in Rivals(m) |-> Unknown]]
  /\ air' = {p \in air : p.to # m}
  /\ odds' = [odds EXCEPT !.stops = @ + 1]
  /\ UNCHANGED ticks

\* The user sets or clears forced_role.
ForceRole(m) ==
  /\ odds.stops + odds.toggles < MaxOdds
  /\ \E w \in {"none", "master", "slave"} \ {odds.want[m]} :
       odds' = [odds EXCEPT !.toggles = @ + 1, !.want[m] = w]
  /\ UNCHANGED <<daemon, peers, air, ticks>>

\* Nobody listens.
Unheard(m, p) ==
  /\ daemon[m].pc = "off"
  /\ air' = air \ {p}
  /\ UNCHANGED <<daemon, peers, ticks, odds>>

TickDiscovery ==
  /\ ticks < MaxTime /\ (\E m \in Dev : daemon[m].pc # "off")
  /\ \A p \in air : ticks - p.at < MAX_DELAY
  /\ ticks' = ticks + 1
  /\ UNCHANGED <<daemon, peers, air, odds>>

DiscNext ==
  \/ TickDiscovery
  \/ \E p \in air : \/ Unheard(p.to, p) \/ ElectionHears(p.to, p)
                    \/ handle_beacon(p.to, p) \/ handle_discover(p.to, p)
  \/ \E m \in Dev : \/ start(m) \/ ElectionEnds(m) \/ BeaconAndScan(m)
                    \/ reload_settings(m) \/ ExpirePeers(m)
                    \/ StopDaemon(m) \/ ForceRole(m)

DiscSpec == DiscInit /\ [][DiscNext]_discVars

-----------------------------------------------------------------------------
\* "No master in the network - elect one" (lan_discovery.rs:385): when every daemon has
\* ended its election and none was forced, one is master, whatever beacons crossed on the
\* way and whichever daemon restarted, unless a daemon became slave at its start for an
\* older peer, which may be a slave itself, or yielded to the last beacon of a daemon that
\* has stopped: two masters never yield to each other.  And two masters that have handled
\* each other's beacons started at nearly the same moment, otherwise the younger has yielded.
RolesSettle ==
  /\ odds.toggles = 0 /\ (\A m \in Dev : daemon[m].pc = "loop")
       => \E m \in Dev : \/ daemon[m].role = "master"
                         \/ daemon[m].why = "older"
                         \/ daemon[m].why = "yield" /\ odds.stops > 0
  /\ \A m, o \in Dev :
       /\ m # o /\ daemon[m].role = "master" /\ daemon[o].role = "master"
       /\ o \in daemon[m].met /\ m \in daemon[o].met
       => daemon[m].at <= daemon[o].at + MAX_DELAY
=============================================================================
