------------------------------ MODULE WebLogin ------------------------------
(***************************************************************************)
(* The browsers of the Web UI (webui/auth.rs, webui/server.rs): a code     *)
(* shown in the dashboard admits one browser, whose session is kept in     *)
(* memory and in webui_sessions.json.  A dashboard with a window and a     *)
(* headless one each have an AuthState of their own over the one file, and *)
(* one of them listens; connections run in threads.  Only hashes of tokens *)
(* are stored; a session is known here by the code that admitted it.       *)
(***************************************************************************)
EXTENDS Naturals, FiniteSets

CONSTANTS
  Process,         \* dashboards
  Conn,            \* threads that serve connections
  NoConn,
  PAIR_FAIL_MAX,
  MaxWebCodes,     \* bound: of the codes
  MaxWebUpsets     \* bound: of starts, ends and interrupted writes

ASSUME LoginAssumption ==
  MaxWebCodes \in Nat /\ PAIR_FAIL_MAX \in Nat \ {0} /\ IsFiniteSet(Conn)

VARIABLES
  awake,      \* processes whose auth() has been initialised
  listener,   \* processes that listen: at most one
  pending,    \* AuthState.pending: the code, 0 for none
  stale,      \* codes that have expired
  failures,   \* AuthState.pair_failures of the last minute
  sessions,   \* AuthState.sessions
  stored,     \* webui_sessions.json
  conn,       \* a connection in redeem: [pc, at, code]
  codes,      \* codes made so far
  kept,       \* sessions admitted and not revoked
  admitted,   \* browsers admitted for each code
  crossed,    \* a process has written the file over what another one had written
  cut,        \* a write of the file was interrupted
  webUpsets

webVars == <<awake, listener, pending, stale, failures, sessions, stored, conn, codes,
             kept, admitted, crossed, cut, webUpsets>>

Codes == 1..MaxWebCodes

WebTypeOK ==
  /\ awake \subseteq Process /\ listener \subseteq awake /\ Cardinality(listener) <= 1
  /\ pending \in [Process -> 0..codes] /\ stale \subseteq Codes
  /\ failures \in [Process -> 0..(PAIR_FAIL_MAX + Cardinality(Conn) - 1)]
  /\ sessions \in [Process -> SUBSET Codes] /\ stored \subseteq Codes
  /\ \A t \in Conn : conn[t] # NoConn =>
        /\ conn[t].pc \in {"checked", "admitted"} /\ conn[t].at \in listener
        /\ conn[t].code \in 0..codes

WebInit ==
  /\ awake = {} /\ listener = {} /\ pending = [p \in Process |-> 0] /\ stale = {}
  /\ failures = [p \in Process |-> 0] /\ sessions = [p \in Process |-> {}] /\ stored = {}
  /\ conn = [t \in Conn |-> NoConn] /\ codes = 0 /\ kept = {}
  /\ admitted = [c \in Codes |-> 0]
  /\ crossed = FALSE /\ cut = FALSE /\ webUpsets = 0

WebUpset == webUpsets < MaxWebUpsets /\ webUpsets' = webUpsets + 1

-----------------------------------------------------------------------------

\* auth(): the stored sessions are loaded; the port is taken if it is free.
Wake(p) ==
  /\ p \notin awake /\ WebUpset /\ awake' = awake \cup {p}
  /\ listener' \in {listener, IF listener = {} THEN {p} ELSE listener}
  /\ sessions' = [sessions EXCEPT ![p] = stored]
  /\ UNCHANGED <<pending, stale, failures, stored, conn, codes, kept, admitted, crossed, cut>>

\* The process ends, and with it its codes, counters and threads.
Sleep(p) ==
  /\ p \in awake /\ WebUpset
  /\ awake' = awake \ {p} /\ listener' = listener \ {p}
  /\ pending' = [pending EXCEPT ![p] = 0]
  /\ failures' = [failures EXCEPT ![p] = 0]
  /\ sessions' = [sessions EXCEPT ![p] = {}]
  /\ conn' = [t \in Conn |-> IF conn[t] # NoConn /\ conn[t].at = p THEN NoConn ELSE conn[t]]
  /\ UNCHANGED <<stale, stored, codes, kept, admitted, crossed, cut>>

\* webserver_generate_pairing_code runs in any of the processes.
set_pairing_code(p) ==
  /\ p \in awake /\ codes < MaxWebCodes
  /\ codes' = codes + 1
  /\ pending' = [pending EXCEPT ![p] = codes + 1]
  /\ failures' = [failures EXCEPT ![p] = 0]
  /\ UNCHANGED <<awake, listener, stale, sessions, stored, conn, kept, admitted, crossed, cut, webUpsets>>

\* Three minutes pass for a code, and a minute for the failures.
Minutes(c) ==
  /\ c \in 1..codes \ stale
  /\ stale' = stale \cup {c} /\ failures' = [p \in Process |-> 0]
  /\ UNCHANGED <<awake, listener, pending, sessions, stored, conn, codes, kept, admitted, crossed, cut, webUpsets>>

\* handle_pair and redeem up to pairing_blocked; 0 is a wrong code.
Ask(t, c) ==
  /\ conn[t] = NoConn /\ c \in 0..codes
  /\ \E p \in listener : /\ failures[p] < PAIR_FAIL_MAX
                         /\ conn' = [conn EXCEPT ![t] = [pc |-> "checked", at |-> p, code |-> c]]
  /\ UNCHANGED <<awake, listener, pending, stale, failures, sessions, stored, codes, kept,
                 admitted, crossed, cut, webUpsets>>

\* Mutant: the code is taken away with the session, not under its lock.
TakenLater(p) == pending

Taken(p) == [pending EXCEPT ![p] = 0]

\* redeem: the code is compared and taken under one lock; failures are counted apart.
Redeem(t) ==
  /\ conn[t] # NoConn /\ conn[t].pc = "checked"
  /\ LET p == conn[t].at
         valid == conn[t].code # 0 /\ pending[p] = conn[t].code /\ conn[t].code \notin stale
     IN IF valid
        THEN /\ pending' = Taken(p)
             /\ failures' = [failures EXCEPT ![p] = 0]
             /\ conn' = [conn EXCEPT ![t].pc = "admitted"]
        ELSE /\ failures' = [failures EXCEPT ![p] = @ + 1]
             /\ conn' = [conn EXCEPT ![t] = NoConn]
             /\ UNCHANGED pending
  /\ UNCHANGED <<awake, listener, stale, sessions, stored, codes, kept, admitted, crossed, cut, webUpsets>>

\* Mutant: the file gets the sessions as they were before the change.
PersistedBefore(p, new) == sessions[p]

\* persist_locked writes all the sessions this process knows.
Persisted(p, new) == new

\* What another process has written since is overwritten.
PutSessions(p, new) ==
  /\ sessions' = [sessions EXCEPT ![p] = new]
  /\ stored' = Persisted(p, new)
  /\ crossed' = (crossed \/ stored # sessions[p])

\* The end of redeem; the browser gets its token.
Admit(t) ==
  /\ conn[t] # NoConn /\ conn[t].pc = "admitted"
  /\ LET c == conn[t].code
     IN /\ PutSessions(conn[t].at, sessions[conn[t].at] \cup {c})
        /\ kept' = kept \cup {c} /\ admitted' = [admitted EXCEPT ![c] = @ + 1]
  /\ conn' = [conn EXCEPT ![t] = NoConn]
  /\ UNCHANGED <<awake, listener, pending, stale, failures, codes, cut, webUpsets>>

\* webserver_revoke_session, from the list of the same process
Revoke(p, c) ==
  /\ p \in awake /\ c \in sessions[p]
  /\ PutSessions(p, sessions[p] \ {c})
  /\ kept' = kept \ {c}
  /\ UNCHANGED <<awake, listener, pending, stale, failures, conn, codes, admitted, cut, webUpsets>>

\* A process ends inside fs::write: what is left cannot be parsed, and no session is loaded.
WriteCut(p) ==
  /\ p \in awake /\ WebUpset /\ stored' = {} /\ cut' = TRUE
  /\ awake' = awake \ {p} /\ listener' = listener \ {p}
  /\ pending' = [pending EXCEPT ![p] = 0]
  /\ failures' = [failures EXCEPT ![p] = 0]
  /\ sessions' = [sessions EXCEPT ![p] = {}]
  /\ conn' = [t \in Conn |-> IF conn[t] # NoConn /\ conn[t].at = p THEN NoConn ELSE conn[t]]
  /\ UNCHANGED <<stale, codes, kept, admitted, crossed>>

WebNext ==
  \/ \E p \in Process : Wake(p) \/ Sleep(p) \/ set_pairing_code(p) \/ WriteCut(p)
                          \/ \E c \in Codes : Revoke(p, c)
  \/ \E c \in Codes : Minutes(c)
  \/ \E t \in Conn : Redeem(t) \/ Admit(t) \/ \E c \in 0..MaxWebCodes : Ask(t, c)

WebSpec == WebInit /\ [][WebNext]_webVars

\* "Persist sessions so logins survive app restarts" (webui/mod.rs:18): the file holds
\* the sessions that codes have admitted and nobody has revoked, as long as no process
\* has written over another one's changes and no write was cut off; and a code admits
\* one browser, however many connections present it at once.
LoginsAreKept ==
  /\ ~crossed /\ ~cut => stored = kept
  /\ \A c \in Codes : admitted[c] <= 1
=============================================================================
