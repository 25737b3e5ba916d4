------------------------------- MODULE Pairing -------------------------------
(***************************************************************************)
(* Pairing of machines: the six-digit code and its limits                  *)
(* (src/lan_pairing.rs), the throttle per address                          *)
(* (src/lan_pair_throttle.rs), the handshake between /lan/initiate-pair    *)
(* and /lan/pair (src/lan_server.rs), and lan_paired_devices.json.         *)
(*                                                                         *)
(* Every writer of that file loads the whole map, changes it and writes it *)
(* back, without a lock: a server thread and the sync thread of one daemon *)
(* may do so at once, and a file that is being written reads as empty.     *)
(***************************************************************************)
EXTENDS Naturals, FiniteSets

CONSTANTS
  Host,                  \* machine that shows codes
  Guests,                \* machines that pair with it
  Threads,               \* daemon threads of the host that may be in its file at once
  PAIRING_TRIES,         \* MAX_PAIRING_ATTEMPTS (5 in the code)
  THROTTLE_TRIES,        \* MAX_ATTEMPTS of the throttle (10 in the code)
  NoEntry,               \* no code, no entry in the map, no job
  MaxCodes, MaxPosts, MaxSecrets, MaxUpsets  \* bounds: codes shown, requests to pair, secrets made, bad events

Machines == Guests \cup {Host}
Entry == [secret: Nat, err: BOOLEAN]

\* What a thread does to the file: the change, and the map it has read.
Jobs == [pc: {"load", "write", "end"}, op: {"store", "mark", "clear", "remove"},
         of: Guests, secret: Nat, read: [Guests -> Entry \cup {NoEntry}]]

ASSUME PairingAssumption ==
  /\ Host \notin Guests
  /\ PAIRING_TRIES \in Nat \ {0} /\ THROTTLE_TRIES \in Nat \ {0}
  /\ MaxCodes \in Nat /\ NoEntry \notin Entry \cup Jobs

VARIABLES
  code,      \* ACTIVE_PAIRING_CODE of the host while it is valid: number, failed tries
  made,      \* codes shown so far
  throttle,  \* throttle[g]: requests of g in its window
  secret,    \* secret[d]: content of lan_secret.txt, 0 when there is none
  file,      \* lan_paired_devices.json of the host: entry per guest
  torn,      \* is a write of that file under way?
  job,       \* job[t]: what thread t of the host is doing to the file
  shake,     \* shake[g]: the handshake of guest g
  copy,      \* copy[g]: what guest g has stored of the host (its secret)
  tally,     \* history: per code, accepted and refused requests
  known,     \* history: is the pairing of a guest stored, or removed since?
  clash,     \* history: have two accesses to the file overlapped, or one been cut off?
  bad        \* posts sent, secrets made, bad events so far

pairVars == <<code, made, throttle, secret, file, torn, job, shake, copy, tally, known, clash, bad>>

PairTypeOK ==
  /\ code \in [n: Nat, tries: 0..(PAIRING_TRIES - 1)] \cup {NoEntry}
  /\ made \in Nat
  /\ throttle \in [Guests -> Nat]
  /\ secret \in [Machines -> Nat]
  /\ file \in [Guests -> Entry \cup {NoEntry}]
  /\ torn \in BOOLEAN /\ clash \in BOOLEAN
  /\ job \in [Threads -> Jobs \cup {NoEntry}]
  /\ shake \in [Guests -> [pc: {"sent", "storing", "answered"}, guess: Nat, secret: Nat]
                          \cup {NoEntry}]
  /\ copy \in [Guests -> Nat]
  /\ tally \in [1..MaxCodes -> [ok: Nat, no: Nat]]
  /\ known \in [Guests -> {"never", "stored", "removed"}]
  /\ bad \in [posts: Nat, secrets: Nat, upsets: Nat]

NoPairings == [g \in Guests |-> NoEntry]

PairInit ==
  /\ code = NoEntry /\ made = 0
  /\ throttle = [g \in Guests |-> 0]
  /\ secret = [d \in Machines |-> 1]
  /\ file = NoPairings /\ torn = FALSE
  /\ job = [t \in Threads |-> NoEntry]
  /\ shake = [g \in Guests |-> NoEntry]
  /\ copy = [g \in Guests |-> 0]
  /\ tally = [n \in 1..MaxCodes |-> [ok |-> 0, no |-> 0]]
  /\ known = [g \in Guests |-> "never"] /\ clash = FALSE
  /\ bad = [posts |-> 0, secrets |-> 1, upsets |-> 0]

\* generate_code: replaces the active code.
generate_code ==
  /\ made < MaxCodes
  /\ made' = made + 1
  /\ code' = [n |-> made + 1, tries |-> 0]
  /\ UNCHANGED <<throttle, secret, file, torn, job, shake, copy, tally, known, clash, bad>>

\* The code outlives PAIRING_CODE_TTL_SECS: from then on nothing matches it.
CodeAges ==
  /\ code # NoEntry /\ code' = NoEntry
  /\ UNCHANGED <<made, throttle, secret, file, torn, job, shake, copy, tally, known, clash, bad>>

\* The window of an address, WINDOW_SECS, is over.
WindowEnds(g) ==
  /\ throttle[g] > 0 /\ throttle' = [throttle EXCEPT ![g] = 0]
  /\ UNCHANGED <<code, made, secret, file, torn, job, shake, copy, tally, known, clash, bad>>

-----------------------------------------------------------------------------
(* The handshake. *)

\* handle_initiate_pair sends the guest's identity and a code that was typed in:
\* one that the host has shown at some time, or (0) none of them.
handle_initiate_pair(g) ==
  /\ shake[g] = NoEntry /\ secret[g] > 0
  /\ bad.posts < MaxPosts
  /\ \E guess \in 0..made :
       shake' = [shake EXCEPT ![g] = [pc |-> "sent", guess |-> guess, secret |-> secret[g]]]
  /\ bad' = [bad EXCEPT !.posts = @ + 1]
  /\ UNCHANGED <<code, made, throttle, secret, file, torn, job, copy, tally, known, clash>>

Refused(g) == shake' = [shake EXCEPT ![g] = NoEntry]

Throttled(g) == throttle[g] >= THROTTLE_TRIES

check_and_record(g) == throttle' = [throttle EXCEPT ![g] = @ + 1]

\* Mutant of WrongCode: refused requests are not counted.
WrongCodeUncounted(g) ==
  /\ UNCHANGED code
  /\ tally' = [tally EXCEPT ![code.n].no = @ + 1]

\* Mutant of WrongCode: a code lives through its last wrong guess.
WrongCodeLate(g) ==
  /\ code' = IF code.tries + 1 > PAIRING_TRIES THEN NoEntry
             ELSE [code EXCEPT !.tries = @ + 1]
  /\ tally' = [tally EXCEPT ![code.n].no = @ + 1]

\* A code that is there, but is not the one that was typed in.
WrongCode(g) ==
  /\ code' = IF code.tries + 1 >= PAIRING_TRIES THEN NoEntry
             ELSE [code EXCEPT !.tries = @ + 1]
  /\ tally' = [tally EXCEPT ![code.n].no = @ + 1]

\* A thread takes up a change of the file.
Submit(op, g, s) ==
  \E t \in Threads :
    /\ job[t] = NoEntry
    /\ job' = [job EXCEPT ![t] = [pc |-> "load", op |-> op, of |-> g, secret |-> s,
                                  read |-> NoPairings]]

\* store_paired_device comes before the answer.
Accepted(g) == shake' = [shake EXCEPT ![g].pc = "storing"]

\* handle_pair up to validate_code: throttle, then the code.  When the code is
\* accepted it is consumed and the thread goes on to store_paired_device.
handle_pair(g) ==
  /\ shake[g] # NoEntry /\ shake[g].pc = "sent"
  /\ \/ /\ Throttled(g)
        /\ Refused(g)
        /\ UNCHANGED <<code, throttle, job, tally>>
     \/ /\ ~Throttled(g) /\ check_and_record(g)
        /\ \/ /\ code = NoEntry
              /\ Refused(g) /\ UNCHANGED <<code, job, tally>>
           \/ /\ code # NoEntry /\ code.n # shake[g].guess
              /\ WrongCode(g)
              /\ Refused(g) /\ UNCHANGED job
           \/ /\ code # NoEntry /\ code.n = shake[g].guess
              /\ code' = NoEntry
              /\ tally' = [tally EXCEPT ![code.n].ok = @ + 1]
              /\ Submit("store", g, shake[g].secret)
              /\ Accepted(g)
  /\ UNCHANGED <<made, secret, file, torn, copy, known, clash, bad>>

\* get_or_create_lan_secret: made when the file is missing, never otherwise.
OwnSecret == IF secret[Host] > 0 THEN secret[Host] ELSE bad.secrets + 1

\* The 200 response of handle_pair, once the entry is stored, carries the host's
\* secret, and handle_initiate_pair stores it.
handle_pair_answer(g) ==
  /\ shake[g] # NoEntry /\ shake[g].pc = "answered"
  /\ secret' = [secret EXCEPT ![Host] = OwnSecret]
  /\ bad' = IF secret[Host] > 0 THEN bad ELSE [bad EXCEPT !.secrets = @ + 1]
  /\ copy' = [copy EXCEPT ![g] = OwnSecret]
  /\ Refused(g)
  /\ UNCHANGED <<code, made, throttle, file, torn, job, tally, known, clash>>

Upset == /\ bad.upsets < MaxUpsets
         /\ bad' = [bad EXCEPT !.upsets = @ + 1]

\* The request or its answer is lost, or the 15 s run out.
HandshakeLost(g) ==
  /\ shake[g] # NoEntry /\ Upset
  /\ Refused(g)
  /\ UNCHANGED <<code, made, throttle, secret, file, torn, job, copy, tally, known, clash>>

-----------------------------------------------------------------------------
(* lan_paired_devices.json of the host. *)

Others(t) == {u \in Threads \ {t} : job[u] # NoEntry /\ job[u].pc # "load"}

\* load_paired_devices: an unreadable file is an empty map.
load_paired_devices(t) ==
  /\ job[t] # NoEntry /\ job[t].pc = "load"
  /\ job' = [job EXCEPT ![t].pc = "write", ![t].read = IF torn THEN NoPairings ELSE file]
  /\ clash' = (clash \/ Others(t) # {})
  /\ UNCHANGED <<code, made, throttle, secret, file, torn, shake, copy, tally, known, bad>>

\* Mutant of Stored: storing a pairing starts from an empty map.
StoredAlone(j) == [NoPairings EXCEPT ![j.of] = [secret |-> j.secret, err |-> FALSE]]

Stored(j) == [j.read EXCEPT ![j.of] = [secret |-> j.secret, err |-> FALSE]]

\* What store_paired_device, mark_auth_error, clear_auth_error and
\* remove_paired_device make of the map they have loaded.
Changed(j) ==
  CASE j.op = "store"  -> Stored(j)
    [] j.op = "mark"   -> IF j.read[j.of] = NoEntry THEN j.read
                          ELSE [j.read EXCEPT ![j.of].err = TRUE]
    [] j.op = "clear"  -> IF j.read[j.of] = NoEntry THEN j.read
                          ELSE [j.read EXCEPT ![j.of].err = FALSE]
    [] j.op = "remove" -> [j.read EXCEPT ![j.of] = NoEntry]

\* No entry to mark, clear or remove, or no mark to clear: nothing is saved.
Writes(j) == j.op = "store" \/ (j.read[j.of] # NoEntry /\ (j.op = "clear" => j.read[j.of].err))

\* save_paired_devices truncates the file.
save_paired_devices(t) ==
  /\ job[t] # NoEntry /\ job[t].pc = "write"
  /\ job' = [job EXCEPT ![t].pc = "end"]
  /\ torn' = (torn \/ Writes(job[t]))
  /\ UNCHANGED <<code, made, throttle, secret, file, shake, copy, tally, known, clash, bad>>

\* ... and then holds the new map.  A handshake goes on to its answer.
Saved(t) ==
  /\ job[t] # NoEntry /\ job[t].pc = "end"
  /\ LET j == job[t] IN
     /\ file' = IF Writes(j) THEN Changed(j) ELSE file
     /\ torn' = IF Writes(j) THEN FALSE ELSE torn
     /\ known' = CASE j.op = "store" -> [known EXCEPT ![j.of] = "stored"]
                   [] j.op = "remove" -> [known EXCEPT ![j.of] = "removed"]
                   [] OTHER -> known
     /\ shake' = IF j.op = "store" /\ shake[j.of] # NoEntry /\ shake[j.of].pc = "storing"
                 THEN [shake EXCEPT ![j.of].pc = "answered"] ELSE shake
     /\ job' = [job EXCEPT ![t] = NoEntry]
  /\ UNCHANGED <<code, made, throttle, secret, copy, tally, clash, bad>>

\* A sync with guest g as slave presents the stored secret (resolve_peer_secret);
\* a 401, or no secret at all, marks the entry, a completed sync clears the mark.
\* sync_in_progress: one sync at a time.
SyncWith(g) ==
  /\ file[g] # NoEntry
  /\ \A t \in Threads : job[t] # NoEntry => job[t].op \notin {"mark", "clear"}
  /\ \/ ~torn /\ file[g].secret # secret[g] /\ ~file[g].err /\ Submit("mark", g, 0)
     \/ ~torn /\ file[g].secret = secret[g] /\ file[g].err /\ Submit("clear", g, 0)
     \/ torn /\ Submit("mark", g, 0)       \* reads as "not paired"
  /\ UNCHANGED <<code, made, throttle, secret, file, torn, shake, copy, tally, known, clash, bad>>

\* /lan/remove-paired-device, on the user's request.
handle_remove_paired_device(g) ==
  /\ file[g] # NoEntry
  /\ Upset
  /\ Submit("remove", g, 0)
  /\ UNCHANGED <<code, made, throttle, secret, file, torn, shake, copy, tally, known, clash>>

\* The file lan_secret.txt of a machine is deleted; the next request makes another.
SecretLost(d) ==
  /\ Upset /\ secret[d] > 0
  /\ secret' = [secret EXCEPT ![d] = 0]
  /\ UNCHANGED <<code, made, throttle, file, torn, job, shake, copy, tally, known, clash>>

get_or_create_lan_secret(d) ==
  /\ secret[d] = 0 /\ bad.secrets < MaxSecrets
  /\ secret' = [secret EXCEPT ![d] = bad.secrets + 1]
  /\ bad' = [bad EXCEPT !.secrets = @ + 1]
  /\ UNCHANGED <<code, made, throttle, file, torn, job, shake, copy, tally, known, clash>>

\* The host's daemon is stopped and started: a write that is cut off leaves a
\* file that reads as empty.  cleanup_empty_secrets finds nothing: every entry
\* has been stored with a secret.
HostRestarts ==
  /\ Upset
  /\ code' = NoEntry
  /\ throttle' = [g \in Guests |-> 0]
  /\ file' = IF torn THEN NoPairings ELSE file
  /\ torn' = FALSE /\ clash' = (clash \/ torn)
  /\ job' = [t \in Threads |-> NoEntry]
  /\ shake' = [g \in Guests |-> NoEntry]
  /\ UNCHANGED <<made, secret, copy, tally, known>>

PairNext ==
  \/ generate_code \/ CodeAges \/ HostRestarts
  \/ \E g \in Guests : \/ WindowEnds(g) \/ handle_initiate_pair(g) \/ handle_pair(g)
                       \/ handle_pair_answer(g) \/ HandshakeLost(g)
                       \/ SyncWith(g) \/ handle_remove_paired_device(g)
  \/ \E t \in Threads : load_paired_devices(t) \/ save_paired_devices(t) \/ Saved(t)
  \/ \E d \in Machines : SecretLost(d) \/ get_or_create_lan_secret(d)

PairSpec == PairInit /\ [][PairNext]_pairVars

-----------------------------------------------------------------------------
\* A code admits one machine at most, and takes no more than PAIRING_TRIES wrong
\* guesses, from however many addresses and in however many windows they come.
CodeGuarded ==
  \A n \in 1..MaxCodes : tally[n].ok <= 1 /\ tally[n].no <= PAIRING_TRIES

\* "Pairing data is expensive to recover and must stay until the user explicitly
\* re-pairs": as long as no two threads are in the file at once and no write is
\* cut off, a pairing that was stored stays, whatever 401s, other pairings,
\* removals of other machines and restarts come.
PairingsStay ==
  ~clash /\ ~torn => \A g \in Guests : known[g] = "stored" => file[g] # NoEntry
=============================================================================
