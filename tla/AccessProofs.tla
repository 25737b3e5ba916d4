---------------------------- MODULE AccessProofs ----------------------------
(***************************************************************************)
(* Who is let in and who leads: the pairing codes and the pairings of the  *)
(* LAN server, the host of the Web UI and its logins, the roles that the   *)
(* daemons of a network agree on, for any number of devices, threads,      *)
(* processes, connections and codes.                                       *)
(***************************************************************************)
EXTENDS Pairing, WebHost, WebLogin, Discovery, FiniteSetTheorems, WellFoundedInduction, TLAPS

-----------------------------------------------------------------------------
(* Pairing: types. *)

ShakeRows == [pc: {"sent", "storing", "answered"}, guess: Nat, secret: Nat]
Tallies == [ok: Nat, no: Nat]
Bads == [posts: Nat, secrets: Nat, upsets: Nat]
CodeRows == [n: Nat, tries: 0..(PAIRING_TRIES - 1)]

LEMMA PairTypeInit == PairInit => PairTypeOK
<1> SUFFICES ASSUME PairInit PROVE PairTypeOK
  OBVIOUS
<1>1. tally \in [1..MaxCodes -> [ok: Nat, no: Nat]] /\ bad \in [posts: Nat, secrets: Nat, upsets: Nat]
  BY DEF PairInit
<1> QED BY <1>1 DEF PairInit, PairTypeOK, NoPairings

\* A step that raises one of the counters of bad.
LEMMA BadTyped ==
  ASSUME PairTypeOK
  PROVE  /\ [bad EXCEPT !.posts = @ + 1] \in Bads /\ [bad EXCEPT !.secrets = @ + 1] \in Bads
         /\ [bad EXCEPT !.upsets = @ + 1] \in Bads /\ bad.secrets + 1 \in Nat
BY DEF PairTypeOK, Bads

LEMMA RefusedTyped ==
  ASSUME PairTypeOK, NEW g \in Guests, Refused(g)
  PROVE  shake' \in [Guests -> ShakeRows \cup {NoEntry}]
BY DEF PairTypeOK, Refused, ShakeRows

LEMMA SubmitTyped ==
  ASSUME PairTypeOK, NEW g \in Guests, NEW s \in Nat,
         NEW op \in {"store", "mark", "clear", "remove"}, Submit(op, g, s)
  PROVE  job' \in [Threads -> Jobs \cup {NoEntry}]
<1> DEFINE j == [pc |-> "load", op |-> op, of |-> g, secret |-> s, read |-> NoPairings]
<1>1. j \in Jobs
  BY DEF Jobs, NoPairings
<1>2. PICK t \in Threads : job' = [job EXCEPT ![t] = j]
  BY DEF Submit
<1> HIDE DEF j
<1> QED BY <1>1, <1>2 DEF PairTypeOK

\* What a thread reads and writes is a map of entries.
LEMMA ChangedTyped ==
  ASSUME NEW j \in Jobs
  PROVE  /\ Changed(j) \in [Guests -> Entry \cup {NoEntry}]
         /\ \A g \in Guests : g # j.of => Changed(j)[g] = j.read[g]
         /\ j.op = "store" => Changed(j)[j.of] # NoEntry
         /\ j.op \in {"mark", "clear"} /\ j.read[j.of] # NoEntry => Changed(j)[j.of] # NoEntry
<1>1. /\ j.op \in {"store", "mark", "clear", "remove"} /\ j.of \in Guests
      /\ j.secret \in Nat /\ j.read \in [Guests -> Entry \cup {NoEntry}]
  BY DEF Jobs
<1>2. [secret |-> j.secret, err |-> FALSE] \in Entry
  BY <1>1 DEF Entry
<1>3. CASE j.op = "store"
  BY <1>1, <1>2, <1>3, PairingAssumption DEF Changed, Stored
<1>4. CASE j.op \in {"mark", "clear"}
  <2>1. CASE j.read[j.of] = NoEntry
    BY <1>1, <1>4, <2>1 DEF Changed
  <2>2. CASE j.read[j.of] # NoEntry
    <3> DEFINE e == j.read[j.of]
    <3>1. e \in Entry
      BY <1>1, <2>2
    <3>2. [e EXCEPT !.err = TRUE] \in Entry /\ [e EXCEPT !.err = FALSE] \in Entry
      BY <3>1 DEF Entry
    <3>3. PICK x \in Entry : Changed(j) = [j.read EXCEPT ![j.of] = x]
      <4>1. CASE j.op = "mark"
        <5>1. Changed(j) = [j.read EXCEPT ![j.of] = [e EXCEPT !.err = TRUE]]
          BY <1>1, <2>2, <4>1 DEF Changed
        <5> QED BY <3>2, <5>1
      <4>2. CASE j.op = "clear"
        <5>1. Changed(j) = [j.read EXCEPT ![j.of] = [e EXCEPT !.err = FALSE]]
          BY <1>1, <2>2, <4>2 DEF Changed
        <5> QED BY <3>2, <5>1
      <4> QED BY <1>4, <4>1, <4>2
    <3> QED BY <1>1, <1>4, <3>3, PairingAssumption
  <2> QED BY <2>1, <2>2
<1>5. CASE j.op = "remove"
  BY <1>1, <1>5 DEF Changed
<1> QED BY <1>1, <1>3, <1>4, <1>5

\* A wrong guess and an accepted code.
LEMMA CodeTyped ==
  ASSUME PairTypeOK, code # NoEntry, code.n \in 1..MaxCodes, NEW g
  PROVE  /\ WrongCode(g) =>
              /\ code' \in CodeRows \cup {NoEntry} /\ tally' \in [1..MaxCodes -> Tallies]
              /\ \A n \in 1..MaxCodes : n # code.n => tally'[n] = tally[n]
              /\ tally'[code.n].ok = tally[code.n].ok
              /\ tally'[code.n].no = tally[code.n].no + 1
              /\ code' # NoEntry => code'.n = code.n /\ code'.tries = code.tries + 1
         /\ tally' = [tally EXCEPT ![code.n].ok = @ + 1] =>
              /\ tally' \in [1..MaxCodes -> Tallies]
              /\ \A n \in 1..MaxCodes : n # code.n => tally'[n] = tally[n]
              /\ tally'[code.n].ok = tally[code.n].ok + 1
              /\ tally'[code.n].no = tally[code.n].no
<1>1. /\ code \in CodeRows /\ tally \in [1..MaxCodes -> Tallies] /\ tally[code.n] \in Tallies
  BY DEF PairTypeOK, CodeRows, Tallies
<1> DEFINE w == [tally[code.n] EXCEPT !.no = tally[code.n].no + 1]
           y == [tally[code.n] EXCEPT !.ok = tally[code.n].ok + 1]
           d == [code EXCEPT !.tries = code.tries + 1]
<1>2. w \in Tallies /\ w.ok = tally[code.n].ok /\ w.no = tally[code.n].no + 1
  BY <1>1 DEF Tallies
<1>3. y \in Tallies /\ y.no = tally[code.n].no /\ y.ok = tally[code.n].ok + 1
  BY <1>1 DEF Tallies
<1>4. /\ ~(code.tries + 1 >= PAIRING_TRIES) => d \in CodeRows
      /\ d.n = code.n /\ d.tries = code.tries + 1
  BY <1>1, PairingAssumption DEF CodeRows
<1>5. ASSUME WrongCode(g)
      PROVE  tally' = [tally EXCEPT ![code.n] = w]
             /\ code' = IF code.tries + 1 >= PAIRING_TRIES THEN NoEntry ELSE d
  BY <1>1, <1>5 DEF WrongCode
<1>6. ASSUME tally' = [tally EXCEPT ![code.n].ok = @ + 1]
      PROVE  tally' = [tally EXCEPT ![code.n] = y]
  BY <1>1, <1>6
<1> HIDE DEF w, y, d
<1>7. ASSUME WrongCode(g)
      PROVE  /\ code' \in CodeRows \cup {NoEntry} /\ tally' \in [1..MaxCodes -> Tallies]
             /\ \A n \in 1..MaxCodes : n # code.n => tally'[n] = tally[n]
             /\ tally'[code.n].ok = tally[code.n].ok
             /\ tally'[code.n].no = tally[code.n].no + 1
             /\ code' # NoEntry => code'.n = code.n /\ code'.tries = code.tries + 1
  BY <1>1, <1>2, <1>4, <1>5, <1>7
<1>8. ASSUME tally' = [tally EXCEPT ![code.n].ok = @ + 1]
      PROVE  /\ tally' \in [1..MaxCodes -> Tallies]
             /\ \A n \in 1..MaxCodes : n # code.n => tally'[n] = tally[n]
             /\ tally'[code.n].ok = tally[code.n].ok + 1
             /\ tally'[code.n].no = tally[code.n].no
  BY <1>1, <1>3, <1>6, <1>8
<1> QED BY <1>7, <1>8

-----------------------------------------------------------------------------
(* The code. *)

\* The code that is shown is the last one made, it has admitted nobody, and what was
\* refused under it is what it counts.
Guard ==
  /\ made <= MaxCodes
  /\ code # NoEntry => code.n = made /\ code.n \in 1..MaxCodes
  /\ \A n \in 1..MaxCodes :
       /\ tally[n].ok <= 1 /\ tally[n].no <= PAIRING_TRIES
       /\ n > made => tally[n].ok = 0 /\ tally[n].no = 0
       /\ code # NoEntry /\ code.n = n => tally[n].ok = 0 /\ tally[n].no = code.tries

LEMMA GuardInit == PairInit => Guard
BY PairingAssumption DEF PairInit, Guard

\* Nothing happens to codes when one is gone at most.
LEMMA GuardKeeps ==
  ASSUME Guard, UNCHANGED <<made, tally>>, code' = code \/ code' = NoEntry
  PROVE  Guard'
BY DEF Guard

\* The two ends of handle_pair that judge a code.
LEMMA GuardJudges ==
  ASSUME PairTypeOK, Guard, NEW g \in Guests, code # NoEntry, UNCHANGED made,
         \/ WrongCode(g)
         \/ code' = NoEntry /\ tally' = [tally EXCEPT ![code.n].ok = @ + 1]
  PROVE  Guard'
<1>1. /\ code.n \in 1..MaxCodes /\ code.n = made /\ tally[code.n].ok = 0
      /\ tally[code.n].no = code.tries /\ code.tries \in 0..(PAIRING_TRIES - 1)
  BY DEF Guard, PairTypeOK
<1>2. made \in Nat /\ PAIRING_TRIES \in Nat
  BY PairingAssumption DEF PairTypeOK
<1>3. CASE WrongCode(g)
  <2>1. \A n \in 1..MaxCodes :
          /\ tally'[n].ok = tally[n].ok
          /\ tally'[n].no = IF n = code.n THEN code.tries + 1 ELSE tally[n].no
    BY <1>1, <1>3, CodeTyped
  <2>2. code' # NoEntry => code'.n = code.n /\ code'.tries = code.tries + 1
    BY <1>1, <1>3, CodeTyped
  <2>3. \A n \in 1..MaxCodes : tally'[n].ok <= 1 /\ tally'[n].no <= PAIRING_TRIES
    BY <1>1, <1>2, <2>1 DEF Guard
  <2>4. \A n \in 1..MaxCodes : n > made => tally'[n].ok = 0 /\ tally'[n].no = 0
    BY <1>1, <1>2, <2>1 DEF Guard
  <2> QED BY <1>1, <2>1, <2>2, <2>3, <2>4 DEF Guard
<1>4. CASE code' = NoEntry /\ tally' = [tally EXCEPT ![code.n].ok = @ + 1]
  <2>1. \A n \in 1..MaxCodes :
          /\ tally'[n].ok = IF n = code.n THEN 1 ELSE tally[n].ok
          /\ tally'[n].no = tally[n].no
    BY <1>1, <1>4, CodeTyped
  <2> QED BY <1>1, <1>2, <1>4, <2>1 DEF Guard
<1> QED BY <1>3, <1>4

\* Codes are made, age, are guessed and are taken.
LEMMA GuardStep ==
  ASSUME PairTypeOK, Guard, PairNext
  PROVE  Guard'
<1>1. CASE generate_code
  <2>1. made' = made + 1 /\ code' = [n |-> made + 1, tries |-> 0] /\ UNCHANGED tally
        /\ made < MaxCodes /\ made \in Nat
    BY <1>1 DEF generate_code, PairTypeOK
  <2>2. code'.n = made' /\ code'.tries = 0 /\ made' \in 1..MaxCodes
    BY <2>1, PairingAssumption
  <2>3. tally[made'].ok = 0 /\ tally[made'].no = 0
    BY <2>1, <2>2 DEF Guard
  <2> QED BY <2>1, <2>2, <2>3 DEF Guard
<1>2. CASE CodeAges \/ HostRestarts
  BY <1>2, GuardKeeps DEF CodeAges, HostRestarts
<1>3. ASSUME NEW g \in Guests, handle_pair(g)
      PROVE  Guard'
  BY <1>3, GuardKeeps, GuardJudges DEF handle_pair
<1>4. ASSUME NEW g \in Guests, \/ WindowEnds(g) \/ handle_initiate_pair(g)
                               \/ handle_pair_answer(g) \/ HandshakeLost(g)
                               \/ SyncWith(g) \/ handle_remove_paired_device(g)
      PROVE  Guard'
  BY <1>4, GuardKeeps DEF WindowEnds, handle_initiate_pair, handle_pair_answer,
     HandshakeLost, SyncWith, handle_remove_paired_device
<1>5. ASSUME NEW t \in Threads, load_paired_devices(t) \/ save_paired_devices(t) \/ Saved(t)
      PROVE  Guard'
  BY <1>5, GuardKeeps DEF load_paired_devices, save_paired_devices, Saved
<1>6. ASSUME NEW d \in Machines, SecretLost(d) \/ get_or_create_lan_secret(d)
      PROVE  Guard'
  BY <1>6, GuardKeeps DEF SecretLost, get_or_create_lan_secret
<1> QED BY <1>1, <1>2, <1>3, <1>4, <1>5, <1>6 DEF PairNext

\* Types are kept, given that the code that is shown is one of those that were made.
LEMMA PairTypeStep ==
  ASSUME PairTypeOK, Guard, PairNext
  PROVE  PairTypeOK'
<1>1. CASE generate_code
  <2>1. [n |-> made + 1, tries |-> 0] \in [n: Nat, tries: 0..(PAIRING_TRIES - 1)]
    BY PairingAssumption DEF PairTypeOK
  <2> QED BY <1>1, <2>1 DEF generate_code, PairTypeOK
<1>2. CASE CodeAges
  BY <1>2 DEF CodeAges, PairTypeOK
<1>3. ASSUME NEW g \in Guests, WindowEnds(g)
      PROVE  PairTypeOK'
  BY <1>3 DEF WindowEnds, PairTypeOK
<1>4. ASSUME NEW g \in Guests, handle_initiate_pair(g)
      PROVE  PairTypeOK'
  <2>1. PICK guess \in 0..made :
          shake' = [shake EXCEPT ![g] = [pc |-> "sent", guess |-> guess, secret |-> secret[g]]]
    BY <1>4 DEF handle_initiate_pair
  <2>2. [pc |-> "sent", guess |-> guess, secret |-> secret[g]] \in ShakeRows
    BY <2>1 DEF PairTypeOK, ShakeRows, Machines
  <2>3. shake' \in [Guests -> ShakeRows \cup {NoEntry}]
    BY <2>1, <2>2 DEF PairTypeOK, ShakeRows
  <2> QED BY <1>4, <2>3, BadTyped DEF handle_initiate_pair, PairTypeOK, ShakeRows, Bads
<1>5. ASSUME NEW g \in Guests, handle_pair(g)
      PROVE  PairTypeOK'
  <2>0. /\ shake[g] # NoEntry /\ shake[g] \in ShakeRows
        /\ UNCHANGED <<made, secret, file, torn, copy, known, clash, bad>>
    BY <1>5 DEF handle_pair, PairTypeOK, ShakeRows
  <2>1. throttle' \in [Guests -> Nat]
    <3>1. UNCHANGED throttle \/ throttle' = [throttle EXCEPT ![g] = @ + 1]
      BY <1>5 DEF handle_pair, check_and_record
    <3>2. throttle \in [Guests -> Nat]
      BY DEF PairTypeOK
    <3> QED BY <3>1, <3>2
  <2>2. code # NoEntry => code.n \in 1..MaxCodes
    BY DEF Guard
  <2>3. /\ code' \in CodeRows \cup {NoEntry} /\ tally' \in [1..MaxCodes -> Tallies]
    <3>1. CASE UNCHANGED <<code, tally>> \/ (UNCHANGED tally /\ code' = NoEntry)
      BY <3>1 DEF PairTypeOK, CodeRows, Tallies
    <3>2. CASE code # NoEntry /\ WrongCode(g)
      BY <2>2, <3>2, CodeTyped
    <3>3. CASE code # NoEntry /\ code' = NoEntry /\ tally' = [tally EXCEPT ![code.n].ok = @ + 1]
      BY <2>2, <3>3, CodeTyped
    <3> QED BY <1>5, <3>1, <3>2, <3>3 DEF handle_pair
  <2>4. shake' \in [Guests -> ShakeRows \cup {NoEntry}]
    <3>1. CASE Refused(g)
      BY <3>1, RefusedTyped
    <3>2. CASE Accepted(g)
      <4> DEFINE x == [shake[g] EXCEPT !.pc = "storing"]
      <4>1. x \in ShakeRows
        BY <2>0 DEF ShakeRows
      <4>2. shake' = [shake EXCEPT ![g] = x]
        BY <3>2 DEF Accepted, PairTypeOK
      <4> HIDE DEF x
      <4> QED BY <4>1, <4>2 DEF PairTypeOK, ShakeRows
    <3> QED BY <1>5, <3>1, <3>2 DEF handle_pair
  <2>5. job' \in [Threads -> Jobs \cup {NoEntry}]
    <3>1. CASE UNCHANGED job
      BY <3>1 DEF PairTypeOK
    <3>2. CASE Submit("store", g, shake[g].secret)
      <4>1. shake[g].secret \in Nat
        BY <2>0 DEF ShakeRows
      <4> QED BY <3>2, <4>1, SubmitTyped
    <3> QED BY <1>5, <3>1, <3>2 DEF handle_pair
  <2> QED BY <2>0, <2>1, <2>3, <2>4, <2>5 DEF PairTypeOK, CodeRows, Tallies, ShakeRows
<1>6. ASSUME NEW g \in Guests, handle_pair_answer(g)
      PROVE  PairTypeOK'
  <2>1. OwnSecret \in Nat
    BY BadTyped DEF OwnSecret, PairTypeOK, Machines
  <2>2. shake' \in [Guests -> ShakeRows \cup {NoEntry}]
    BY <1>6, RefusedTyped DEF handle_pair_answer
  <2>3. bad' \in Bads
    BY <1>6, BadTyped DEF handle_pair_answer, PairTypeOK, Bads
  <2>4. secret' \in [Machines -> Nat] /\ copy' \in [Guests -> Nat]
    BY <1>6, <2>1 DEF handle_pair_answer, PairTypeOK, Machines
  <2> QED BY <1>6, <2>2, <2>3, <2>4 DEF handle_pair_answer, PairTypeOK, ShakeRows, Bads
<1>7. ASSUME NEW g \in Guests, HandshakeLost(g)
      PROVE  PairTypeOK'
  BY <1>7, RefusedTyped, BadTyped DEF HandshakeLost, Upset, PairTypeOK, ShakeRows, Bads
<1>8. ASSUME NEW g \in Guests, SyncWith(g)
      PROVE  PairTypeOK'
  <2>1. job' \in [Threads -> Jobs \cup {NoEntry}]
    BY <1>8, SubmitTyped DEF SyncWith
  <2> QED BY <1>8, <2>1 DEF SyncWith, PairTypeOK
<1>9. ASSUME NEW g \in Guests, handle_remove_paired_device(g)
      PROVE  PairTypeOK'
  <2>1. job' \in [Threads -> Jobs \cup {NoEntry}]
    BY <1>9, SubmitTyped DEF handle_remove_paired_device
  <2> QED BY <1>9, <2>1, BadTyped DEF handle_remove_paired_device, Upset, PairTypeOK, Bads
<1>10. ASSUME NEW t \in Threads, job[t] # NoEntry
       PROVE  job[t] \in Jobs
  BY <1>10 DEF PairTypeOK
<1>11. ASSUME NEW t \in Threads, load_paired_devices(t)
       PROVE  PairTypeOK'
  <2> DEFINE m == IF torn THEN NoPairings ELSE file
             x == [job[t] EXCEPT !.pc = "write", !.read = m]
  <2>1. m \in [Guests -> Entry \cup {NoEntry}]
    BY DEF PairTypeOK, NoPairings
  <2>2. job[t] \in Jobs
    BY <1>10, <1>11 DEF load_paired_devices
  <2>3. job' = [job EXCEPT ![t] = x]
    BY <1>11, <2>2 DEF load_paired_devices, PairTypeOK, Jobs
  <2> HIDE DEF m
  <2>4. x \in Jobs
    BY <2>1, <2>2 DEF Jobs
  <2> HIDE DEF x
  <2> QED BY <1>11, <2>3, <2>4, ZenonT(40) DEF load_paired_devices, PairTypeOK
<1>12. ASSUME NEW t \in Threads, save_paired_devices(t)
       PROVE  PairTypeOK'
  <2> DEFINE x == [job[t] EXCEPT !.pc = "end"]
  <2>1. job[t] \in Jobs
    BY <1>10, <1>12 DEF save_paired_devices
  <2>2. x \in Jobs
    BY <2>1 DEF Jobs
  <2>3. job' = [job EXCEPT ![t] = x]
    BY <1>12, <2>1 DEF save_paired_devices, PairTypeOK
  <2> HIDE DEF x
  <2>4. job' \in [Threads -> Jobs \cup {NoEntry}]
    BY <2>2, <2>3 DEF PairTypeOK
  <2>5. torn' \in BOOLEAN
    BY <1>12 DEF save_paired_devices, Writes, PairTypeOK
  <2> QED BY <1>12, <2>4, <2>5 DEF save_paired_devices, PairTypeOK
<1>13. ASSUME NEW t \in Threads, Saved(t)
       PROVE  PairTypeOK'
  <2>1. PICK j \in Jobs : j = job[t]
    BY <1>10, <1>13 DEF Saved
  <2>2. /\ file' = IF Writes(j) THEN Changed(j) ELSE file
        /\ torn' = IF Writes(j) THEN FALSE ELSE torn
        /\ known' = CASE j.op = "store" -> [known EXCEPT ![j.of] = "stored"]
                      [] j.op = "remove" -> [known EXCEPT ![j.of] = "removed"]
                      [] OTHER -> known
        /\ shake' = IF j.op = "store" /\ shake[j.of] # NoEntry /\ shake[j.of].pc = "storing"
                    THEN [shake EXCEPT ![j.of].pc = "answered"] ELSE shake
        /\ job' = [job EXCEPT ![t] = NoEntry]
        /\ UNCHANGED <<code, made, throttle, secret, copy, tally, clash, bad>>
    BY <1>13, <2>1 DEF Saved
  <2>3. file' \in [Guests -> Entry \cup {NoEntry}] /\ torn' \in BOOLEAN
    BY <2>2, ChangedTyped DEF PairTypeOK
  <2>4. j.of \in Guests
    BY DEF Jobs
  <2>5. known' \in [Guests -> {"never", "stored", "removed"}]
    BY <2>2, <2>4 DEF PairTypeOK
  <2>6. shake' \in [Guests -> ShakeRows \cup {NoEntry}]
    <3>1. CASE j.op = "store" /\ shake[j.of] # NoEntry /\ shake[j.of].pc = "storing"
      <4> DEFINE x == [shake[j.of] EXCEPT !.pc = "answered"]
      <4>1. shake[j.of] \in ShakeRows
        BY <2>4, <3>1 DEF PairTypeOK, ShakeRows
      <4>2. x \in ShakeRows
        BY <4>1 DEF ShakeRows
      <4>3. shake' = [shake EXCEPT ![j.of] = x]
        BY <2>2, <2>4, <3>1 DEF PairTypeOK
      <4> HIDE DEF x
      <4> QED BY <2>4, <4>2, <4>3 DEF PairTypeOK, ShakeRows
    <3>2. CASE ~(j.op = "store" /\ shake[j.of] # NoEntry /\ shake[j.of].pc = "storing")
      BY <2>2, <3>2 DEF PairTypeOK, ShakeRows
    <3> QED BY <3>1, <3>2
  <2>7. job' \in [Threads -> Jobs \cup {NoEntry}]
    BY <2>2 DEF PairTypeOK
  <2> QED BY <2>2, <2>3, <2>5, <2>6, <2>7 DEF PairTypeOK, ShakeRows
<1>14. ASSUME NEW d \in Machines, SecretLost(d) \/ get_or_create_lan_secret(d)
       PROVE  PairTypeOK'
  <2>1. bad' \in Bads
    BY <1>14, BadTyped DEF SecretLost, get_or_create_lan_secret, Upset
  <2>2. secret' \in [Machines -> Nat]
    <3>1. secret \in [Machines -> Nat] /\ bad.secrets + 1 \in Nat
      BY BadTyped DEF PairTypeOK
    <3> QED BY <1>14, <3>1 DEF SecretLost, get_or_create_lan_secret
  <2> QED BY <1>14, <2>1, <2>2 DEF SecretLost, get_or_create_lan_secret, PairTypeOK, Bads
<1>15. CASE HostRestarts
  <2>1. file' \in [Guests -> Entry \cup {NoEntry}] /\ bad' \in Bads
    BY <1>15, BadTyped DEF HostRestarts, Upset, PairTypeOK, NoPairings
  <2> QED BY <1>15, <2>1 DEF HostRestarts, PairTypeOK, Bads
<1> QED BY <1>1, <1>2, <1>3, <1>4, <1>5, <1>6, <1>7, <1>8, <1>9, <1>11, <1>12, <1>13, <1>14, <1>15
    DEF PairNext

\* PairTypeOK and CodeGuarded: from however many addresses and in however many windows the
\* guesses come, a code admits one machine and is gone after PAIRING_TRIES wrong ones.
THEOREM CodeTheorem == PairSpec => [](PairTypeOK /\ CodeGuarded)
<1> DEFINE Inv == PairTypeOK /\ Guard
<1>1. PairInit => Inv
  BY PairTypeInit, GuardInit
<1>2. Inv /\ [PairNext]_pairVars => Inv'
  <2> SUFFICES ASSUME Inv, [PairNext]_pairVars
               PROVE  Inv'
    OBVIOUS
  <2>1. CASE PairNext
    BY <2>1, PairTypeStep, GuardStep
  <2>2. CASE UNCHANGED pairVars
    BY <2>2 DEF pairVars, PairTypeOK, Guard
  <2> QED BY <2>1, <2>2
<1>3. Inv => PairTypeOK /\ CodeGuarded
  BY DEF Guard, CodeGuarded
<1> QED BY <1>1, <1>2, <1>3, PTL DEF PairSpec

-----------------------------------------------------------------------------
(* The file. *)

\* A thread that has read the file and not yet left it.
Busy(t) == job[t] # NoEntry /\ job[t].pc # "load"

\* Unless two have overlapped: one thread is in the file, it knows what the file holds,
\* the file is torn only between the two halves of a write, and stored pairings are there.
Alone ==
  ~clash =>
    /\ \A t, u \in Threads : Busy(t) /\ Busy(u) => t = u
    /\ \A t \in Threads : Busy(t) => job[t].read = file
    /\ torn => \E t \in Threads : job[t] # NoEntry /\ job[t].pc = "end" /\ Writes(job[t])
    /\ \A g \in Guests : known[g] = "stored" => file[g] # NoEntry

LEMMA AloneInit == PairInit => Alone
BY DEF PairInit, Alone, Busy

\* Steps that are not in the file.
LEMMA AloneStays ==
  ASSUME Alone, UNCHANGED <<file, torn, known, clash>>,
         \A t \in Threads : job[t] # NoEntry /\ job[t].pc # "load" => job'[t] = job[t],
         \A t \in Threads : Busy(t)' => Busy(t)
  PROVE  Alone'
<1> SUFFICES ASSUME ~clash PROVE Alone'
  BY DEF Alone
<1>1. torn => \E t \in Threads : job[t] # NoEntry /\ job[t].pc = "end" /\ Writes(job[t])
  BY DEF Alone
<1>2. torn' => \E t \in Threads : job'[t] # NoEntry /\ job'[t].pc = "end" /\ Writes(job'[t])
  BY <1>1
<1>3. \A t, u \in Threads : Busy(t)' /\ Busy(u)' => t = u
  BY DEF Alone
<1>4. \A t \in Threads : Busy(t)' => job'[t].read = file'
  BY DEF Alone, Busy
<1> QED BY <1>2, <1>3, <1>4 DEF Alone

\* A thread that takes up a change has read nothing yet.
LEMMA SubmitStays ==
  ASSUME PairTypeOK, NEW op, NEW g, NEW s, Submit(op, g, s)
  PROVE  /\ \A t \in Threads : job[t] # NoEntry /\ job[t].pc # "load" => job'[t] = job[t]
         /\ \A t \in Threads : Busy(t)' => Busy(t)
<1> DEFINE j == [pc |-> "load", op |-> op, of |-> g, secret |-> s, read |-> NoPairings]
<1>1. j.pc = "load"
  OBVIOUS
<1>2. PICK t \in Threads : job[t] = NoEntry /\ job' = [job EXCEPT ![t] = j]
  BY DEF Submit
<1> HIDE DEF j
<1>3. \A u \in Threads : job'[u] = IF u = t THEN j ELSE job[u]
  BY <1>2 DEF PairTypeOK
<1> QED BY <1>1, <1>2, <1>3 DEF Busy

\* Each access of the file, each other step.
LEMMA AloneStep ==
  ASSUME PairTypeOK, Alone, PairNext
  PROVE  Alone'
<1>1. ASSUME UNCHANGED <<file, torn, known, clash, job>>
      PROVE  Alone'
  BY <1>1, AloneStays DEF Busy
<1>2. ASSUME UNCHANGED <<file, torn, known, clash>>, NEW op, NEW g, NEW s, Submit(op, g, s)
      PROVE  Alone'
  BY <1>2, SubmitStays, AloneStays
<1>3. CASE generate_code \/ CodeAges
  BY <1>1, <1>3 DEF generate_code, CodeAges
<1>4. ASSUME NEW g \in Guests, \/ WindowEnds(g) \/ handle_initiate_pair(g)
                               \/ handle_pair_answer(g) \/ HandshakeLost(g)
      PROVE  Alone'
  BY <1>1, <1>4 DEF WindowEnds, handle_initiate_pair, handle_pair_answer, HandshakeLost
<1>5. ASSUME NEW g \in Guests, handle_pair(g)
      PROVE  Alone'
  <2>1. UNCHANGED <<file, torn, known, clash>>
    BY <1>5 DEF handle_pair
  <2>2. UNCHANGED job \/ Submit("store", g, shake[g].secret)
    BY <1>5 DEF handle_pair
  <2> QED BY <1>1, <1>2, <2>1, <2>2
<1>6. ASSUME NEW g \in Guests, SyncWith(g)
      PROVE  Alone'
  <2>1. Submit("mark", g, 0) \/ Submit("clear", g, 0)
    BY <1>6 DEF SyncWith
  <2> QED BY <1>2, <1>6, <2>1 DEF SyncWith
<1>7. ASSUME NEW g \in Guests, handle_remove_paired_device(g)
      PROVE  Alone'
  BY <1>2, <1>7 DEF handle_remove_paired_device
<1>8. ASSUME NEW d \in Machines, SecretLost(d) \/ get_or_create_lan_secret(d)
      PROVE  Alone'
  BY <1>1, <1>8 DEF SecretLost, get_or_create_lan_secret
<1>9. ASSUME NEW t \in Threads, load_paired_devices(t)
      PROVE  Alone'
  <2> SUFFICES ASSUME ~clash' PROVE Alone'
    BY DEF Alone
  <2>1. ~clash /\ Others(t) = {} /\ UNCHANGED <<file, torn, known>>
    BY <1>9 DEF load_paired_devices, PairTypeOK
  <2>2. job[t] # NoEntry /\ job[t] \in Jobs /\ job[t].pc = "load"
    BY <1>9 DEF load_paired_devices, PairTypeOK
  <2>3. \A u \in Threads : u # t => ~Busy(u)
    BY <2>1 DEF Others, Busy
  <2>4. ~torn
    BY <2>1, <2>2, <2>3 DEF Alone, Busy
  <2> DEFINE x == [job[t] EXCEPT !.pc = "write", !.read = file]
  <2>5. x \in Jobs /\ x.pc = "write" /\ x.read = file
    BY <2>2 DEF Jobs, PairTypeOK
  <2>6. job' = [job EXCEPT ![t] = x]
    BY <1>9, <2>2, <2>4 DEF load_paired_devices, PairTypeOK, Jobs
  <2> HIDE DEF x
  <2>7. \A u \in Threads : job'[u] = IF u = t THEN x ELSE job[u]
    BY <2>6 DEF PairTypeOK
  <2>8. \A u \in Threads : Busy(u)' => u = t
    BY <2>3, <2>7 DEF Busy
  <2> QED BY <2>1, <2>4, <2>5, <2>7, <2>8 DEF Alone
<1>10. ASSUME NEW t \in Threads, save_paired_devices(t)
       PROVE  Alone'
  <2> SUFFICES ASSUME ~clash' PROVE Alone'
    BY DEF Alone
  <2>1. /\ ~clash /\ job[t] # NoEntry /\ job[t] \in Jobs /\ job[t].pc = "write"
        /\ UNCHANGED <<file, known>> /\ torn' = (torn \/ Writes(job[t]))
    BY <1>10 DEF save_paired_devices, PairTypeOK
  <2>2. Busy(t) /\ job[t].read = file /\ \A u \in Threads : Busy(u) => u = t
    BY <2>1 DEF Alone, Busy
  <2>3. ~torn
    BY <2>1, <2>2 DEF Alone, Busy
  <2> DEFINE x == [job[t] EXCEPT !.pc = "end"]
  <2>4. /\ x \in Jobs /\ x.pc = "end" /\ x.read = file
        /\ x.op = job[t].op /\ x.of = job[t].of
    BY <2>1, <2>2 DEF Jobs
  <2>5. x # NoEntry
    BY <2>4, PairingAssumption
  <2>6. Writes(x) <=> Writes(job[t])
    BY <2>2, <2>4 DEF Writes
  <2>7. job' = [job EXCEPT ![t] = x]
    BY <1>10 DEF save_paired_devices, PairTypeOK
  <2> HIDE DEF x
  <2>8. \A u \in Threads : job'[u] = IF u = t THEN x ELSE job[u]
    BY <2>7 DEF PairTypeOK
  <2>9. \A u \in Threads : Busy(u)' => u = t
    BY <2>2, <2>8 DEF Busy
  <2>10. torn' => job'[t] # NoEntry /\ job'[t].pc = "end" /\ Writes(job'[t])
    BY <2>1, <2>3, <2>4, <2>5, <2>6, <2>8
  <2>11. \A u \in Threads : Busy(u)' => job'[u].read = file'
    BY <2>1, <2>4, <2>8, <2>9
  <2> QED BY <2>1, <2>9, <2>10, <2>11 DEF Alone
<1>11. ASSUME NEW t \in Threads, Saved(t)
       PROVE  Alone'
  <2> SUFFICES ASSUME ~clash' PROVE Alone'
    BY DEF Alone
  <2>1. PICK j \in Jobs : j = job[t] /\ j # NoEntry /\ j.pc = "end"
    BY <1>11 DEF Saved, PairTypeOK
  <2>2. /\ ~clash
        /\ file' = IF Writes(j) THEN Changed(j) ELSE file
        /\ torn' = IF Writes(j) THEN FALSE ELSE torn
        /\ known' = CASE j.op = "store" -> [known EXCEPT ![j.of] = "stored"]
                      [] j.op = "remove" -> [known EXCEPT ![j.of] = "removed"]
                      [] OTHER -> known
        /\ job' = [job EXCEPT ![t] = NoEntry]
    BY <1>11, <2>1 DEF Saved
  <2>3. Busy(t) /\ j.read = file /\ \A u \in Threads : Busy(u) => u = t
    BY <2>1, <2>2 DEF Alone, Busy
  <2>4. \A u \in Threads : ~Busy(u)'
    BY <2>2, <2>3 DEF PairTypeOK, Busy
  <2>5. ~torn'
    <3>1. torn => Writes(j)
      BY <2>1, <2>2, <2>3 DEF Alone, Busy
    <3> QED BY <2>2, <3>1 DEF PairTypeOK
  <2>6. j.of \in Guests /\ j.op \in {"store", "mark", "clear", "remove"}
    BY DEF Jobs
  <2>7. ASSUME NEW g \in Guests, known'[g] = "stored"
        PROVE  file'[g] # NoEntry
    <3>1. CASE ~Writes(j)
      <4>1. j.op # "store" /\ file' = file
        BY <2>2, <3>1 DEF Writes
      <4>2. known[g] = "stored"
        BY <2>2, <2>6, <2>7, <4>1 DEF PairTypeOK
      <4> QED BY <2>2, <4>1, <4>2 DEF Alone
    <3>2. CASE Writes(j) /\ g # j.of
      <4>1. known[g] = "stored"
        BY <2>2, <2>6, <2>7, <3>2 DEF PairTypeOK
      <4>2. file'[g] = file[g]
        BY <2>2, <2>3, <3>2, ChangedTyped
      <4> QED BY <2>2, <4>1, <4>2 DEF Alone
    <3>3. CASE Writes(j) /\ g = j.of
      <4>1. j.op # "remove"
        BY <2>2, <2>6, <2>7, <3>3 DEF PairTypeOK
      <4>2. CASE j.op = "store"
        BY <2>2, <3>3, <4>2, ChangedTyped
      <4>3. CASE j.op \in {"mark", "clear"}
        <5>1. j.read[j.of] # NoEntry
          BY <3>3, <4>3 DEF Writes
        <5> QED BY <2>2, <3>3, <4>3, <5>1, ChangedTyped
      <4> QED BY <2>6, <4>1, <4>2, <4>3
    <3> QED BY <3>1, <3>2, <3>3
  <2> QED BY <2>4, <2>5, <2>7 DEF Alone
<1>12. CASE HostRestarts
  <2> SUFFICES ASSUME ~clash' PROVE Alone'
    BY DEF Alone
  <2>1. ~clash /\ ~torn
    BY <1>12 DEF HostRestarts, PairTypeOK
  <2>2. file' = file /\ torn' = FALSE /\ known' = known /\ job' = [t \in Threads |-> NoEntry]
    BY <1>12, <2>1 DEF HostRestarts
  <2>3. \A u \in Threads : ~Busy(u)'
    BY <2>2 DEF Busy
  <2> QED BY <2>1, <2>2, <2>3 DEF Alone
<1> QED BY <1>3, <1>4, <1>5, <1>6, <1>7, <1>8, <1>9, <1>10, <1>11, <1>12 DEF PairNext

\* PairingsStay: a pairing that was stored stays in lan_paired_devices.json through 401s,
\* other pairings, removals of other machines and restarts, as long as no two threads have
\* been in the file at once and no write was cut off.
THEOREM PairingTheorem == PairSpec => []PairingsStay
<1> DEFINE Inv == PairTypeOK /\ Guard /\ Alone
<1>1. PairInit => Inv
  BY PairTypeInit, GuardInit, AloneInit
<1>2. Inv /\ [PairNext]_pairVars => Inv'
  <2> SUFFICES ASSUME Inv, [PairNext]_pairVars
               PROVE  Inv'
    OBVIOUS
  <2>1. CASE PairNext
    BY <2>1, PairTypeStep, GuardStep, AloneStep
  <2>2. CASE UNCHANGED pairVars
    BY <2>2 DEF pairVars, PairTypeOK, Guard, Alone, Busy, Writes
  <2> QED BY <2>1, <2>2
<1>3. Inv => PairingsStay
  BY DEF Alone, PairingsStay
<1> QED BY <1>1, <1>2, <1>3, PTL DEF PairSpec

-----------------------------------------------------------------------------
(* The headless host. *)

\* A headless host is the one that listens.
HostListens == \A i \in Pids : proc[i] = "host" => port = i

HostInv == HostTypeOK /\ HostListens /\ HostCanBeStopped

LEMMA HostStarts == HostInit => HostInv
BY DEF HostInit, HostInv, HostTypeOK, HostListens, HostCanBeStopped, Idle

\* What the tray's thread becomes.
LEMMA TrayTyped ==
  ASSUME HostTypeOK, NEW click \in BOOLEAN
  PROVE  /\ Idle \in [pc: {"idle", "checking", "dead", "starting"}, pid: Pids \cup {NoPid},
                      click: BOOLEAN]
         /\ [Idle EXCEPT !.pc = "starting"]
              \in [pc: {"idle", "checking", "dead", "starting"}, pid: Pids \cup {NoPid},
                   click: BOOLEAN]
         /\ [pc |-> "checking", pid |-> named, click |-> click]
              \in [pc: {"idle", "checking", "dead", "starting"}, pid: Pids \cup {NoPid},
                   click: BOOLEAN]
         /\ [tray EXCEPT !.pc = "dead"]
              \in [pc: {"idle", "checking", "dead", "starting"}, pid: Pids \cup {NoPid},
                   click: BOOLEAN]
         /\ [tray EXCEPT !.pc = "dead", !.pid = named, !.click = TRUE]
              \in [pc: {"idle", "checking", "dead", "starting"}, pid: Pids \cup {NoPid},
                   click: BOOLEAN]
BY DEF HostTypeOK, Idle

\* A process that begins is no host, and one that ends takes its port with it.
LEMMA BeginsKeeps ==
  ASSUME HostInv, NEW i \in Pids, NEW kind \in {"starting", "window", "other"}, Begins(i, kind)
  PROVE  /\ proc' \in [Pids -> {"free", "starting", "host", "window", "other"}]
         /\ \A j \in Pids : proc'[j] = "host" => proc[j] = "host"
BY DEF HostInv, HostTypeOK, Begins, Alive

LEMMA EndsKeeps ==
  ASSUME HostInv, NEW i \in Pids, Ends(i)
  PROVE  /\ proc' \in [Pids -> {"free", "starting", "host", "window", "other"}]
         /\ port' \in Pids \cup {NoPid} /\ lost' \subseteq Pids
         /\ \A j \in Pids : proc'[j] = "host" =>
              proc[j] = "host" /\ j # i /\ port' = j /\ (j \in lost' <=> j \in lost)
BY DEF HostInv, HostTypeOK, HostListens, Ends

\* Every step of a process, of the tray or of a killer keeps the host in reach.
LEMMA HostStep ==
  ASSUME HostInv, HostNext
  PROVE  HostInv'
<1> USE DEF HostInv
<1>1. ASSUME NEW i \in Pids, OtherStarts(i)
      PROVE  HostInv'
  <2>1. /\ proc' \in [Pids -> {"free", "starting", "host", "window", "other"}]
        /\ \A j \in Pids : proc'[j] = "host" => proc[j] = "host"
    BY <1>1, BeginsKeeps DEF OtherStarts
  <2>2. port' = port \/ (port' = i /\ port = NoPid)
    BY <1>1 DEF OtherStarts
  <2>3. HostTypeOK'
    BY <1>1, <2>1, <2>2 DEF OtherStarts, HostTypeOK
  <2>4. HostListens'
    BY <2>1, <2>2, HostAssumption DEF HostListens
  <2> QED BY <1>1, <2>1, <2>3, <2>4 DEF OtherStarts, HostCanBeStopped
<1>2. ASSUME NEW i \in Pids, Listens(i)
      PROVE  HostInv'
  <2>1. \A j \in Pids : proc'[j] = "host" => j = i
    BY <1>2, HostAssumption DEF Listens, HostListens, HostTypeOK
  <2>2. port' = i /\ (named' = i \/ i \in lost')
    BY <1>2 DEF Listens
  <2>3. HostTypeOK'
    BY <1>2 DEF Listens, HostTypeOK
  <2> QED BY <2>1, <2>2, <2>3 DEF HostListens, HostCanBeStopped
<1>3. ASSUME NEW i \in Pids, CannotListen(i)
      PROVE  HostInv'
  <2>1. Ends(i) /\ UNCHANGED <<named, enabled, tray, killers>>
    BY <1>3 DEF CannotListen, NamedAfterRefusal
  <2>2. HostTypeOK'
    BY <2>1, EndsKeeps DEF HostTypeOK
  <2> QED BY <2>1, <2>2, EndsKeeps DEF HostListens, HostCanBeStopped
<1>4. ASSUME NEW i \in Pids, Quits(i)
      PROVE  HostInv'
  <2>1. Ends(i) /\ UNCHANGED <<enabled, tray, killers>>
    BY <1>4 DEF Quits
  <2>2. named' = IF proc[i] = "host" THEN NoPid ELSE named
    BY <1>4 DEF Quits
  <2>3. HostTypeOK'
    BY <2>1, <2>2, EndsKeeps DEF HostTypeOK
  <2>4. \A j \in Pids : proc'[j] = "host" => named' = named
    BY <2>1, <2>2, EndsKeeps DEF HostListens
  <2> QED BY <2>1, <2>3, <2>4, EndsKeeps DEF HostListens, HostCanBeStopped
<1>5. ASSUME NEW i \in Pids, Crashes(i)
      PROVE  HostInv'
  <2>1. Ends(i) /\ UNCHANGED <<named, enabled, tray, killers>>
    BY <1>5 DEF Crashes
  <2>2. HostTypeOK'
    BY <2>1, EndsKeeps DEF HostTypeOK
  <2> QED BY <2>1, <2>2, EndsKeeps DEF HostListens, HostCanBeStopped
<1>6. ASSUME NEW i \in Pids, StartHost(i)
      PROVE  HostInv'
  <2>1. UNCHANGED <<port, named, enabled, killers, lost>>
    BY <1>6 DEF StartHost
  <2>2. proc' = proc \/ Begins(i, "starting")
    BY <1>6 DEF StartHost
  <2>3. /\ proc' \in [Pids -> {"free", "starting", "host", "window", "other"}]
        /\ \A j \in Pids : proc'[j] = "host" => proc[j] = "host"
    BY <2>2, BeginsKeeps DEF HostTypeOK
  <2>4. tray' \in [pc: {"idle", "checking", "dead", "starting"}, pid: Pids \cup {NoPid},
                   click: BOOLEAN]
    BY <1>6, TrayTyped DEF StartHost
  <2> QED BY <2>1, <2>3, <2>4 DEF HostTypeOK, HostListens, HostCanBeStopped
<1>7. ASSUME NEW i \in Pids, Kill(i)
      PROVE  HostInv'
  <2>1. UNCHANGED <<named, enabled, tray>> /\ killers' = killers \ {i}
    BY <1>7 DEF Kill
  <2>2. CASE Alive(i)
    <3>1. Ends(i)
      BY <1>7, <2>2 DEF Kill
    <3>2. HostTypeOK'
      BY <2>1, <3>1, EndsKeeps DEF HostTypeOK
    <3> QED BY <2>1, <3>1, <3>2, EndsKeeps DEF HostListens, HostCanBeStopped
  <2>3. CASE ~Alive(i)
    <3>1. UNCHANGED <<proc, port, lost>> /\ proc[i] = "free"
      BY <1>7, <2>3 DEF Kill, Alive
    <3> QED BY <2>1, <3>1 DEF HostTypeOK, HostListens, HostCanBeStopped
  <2> QED BY <2>2, <2>3
<1>8. ASSUME NEW click \in BOOLEAN, ReadHost(click)
      PROVE  HostInv'
  <2>1. tray' \in [pc: {"idle", "checking", "dead", "starting"}, pid: Pids \cup {NoPid},
                   click: BOOLEAN]
    BY <1>8, TrayTyped DEF ReadHost
  <2> QED BY <1>8, <2>1 DEF ReadHost, HostTypeOK, HostListens, HostCanBeStopped
<1>9. CASE CheckHost
  <2>1. UNCHANGED <<proc, port, enabled, lost>>
    BY <1>9 DEF CheckHost
  <2>2. tray' \in [pc: {"idle", "checking", "dead", "starting"}, pid: Pids \cup {NoPid},
                   click: BOOLEAN]
    BY <1>9, TrayTyped DEF CheckHost
  <2>3. \/ UNCHANGED <<named, killers>>
        \/ /\ killers' = killers \cup {i \in {named} \ {NoPid} : IsDashboard(i)}
           /\ named' = NoPid
    BY <1>9 DEF CheckHost
  <2>4. HostTypeOK'
    BY <2>1, <2>2, <2>3 DEF HostTypeOK
  <2> QED BY <2>1, <2>3, <2>4, HostAssumption DEF HostListens, HostCanBeStopped, IsDashboard
<1>10. CASE ClearDead
  <2>1. tray' \in [pc: {"idle", "checking", "dead", "starting"}, pid: Pids \cup {NoPid},
                   click: BOOLEAN]
    BY <1>10, TrayTyped DEF ClearDead
  <2> QED BY <1>10, <2>1, HostAssumption DEF ClearDead, HostTypeOK, HostListens, HostCanBeStopped
<1>11. CASE ToggleEnabled
  BY <1>11 DEF ToggleEnabled, HostTypeOK, HostListens, HostCanBeStopped
<1>12. CASE DaemonEnds
  <2>1. tray' \in [pc: {"idle", "checking", "dead", "starting"}, pid: Pids \cup {NoPid},
                   click: BOOLEAN]
    BY <1>12, TrayTyped DEF DaemonEnds
  <2> QED BY <1>12, <2>1 DEF DaemonEnds, HostTypeOK, HostListens, HostCanBeStopped
<1> QED BY <1>1, <1>2, <1>3, <1>4, <1>5, <1>6, <1>7, <1>8, <1>9, <1>10, <1>11, <1>12 DEF HostNext

\* HostCanBeStopped: whatever processes start, end, crash and reuse pids, and whatever the
\* tray and its threads are at, a headless host that serves is named in the status file, or
\* a thread is about to kill it, or its file is lost in one of the ways listed there.
THEOREM HostTheorem == HostSpec => []HostCanBeStopped
<1>1. HostInit => HostInv
  BY HostStarts
<1>2. HostInv /\ [HostNext]_hostVars => HostInv'
  <2> SUFFICES ASSUME HostInv, [HostNext]_hostVars
               PROVE  HostInv'
    OBVIOUS
  <2>1. CASE HostNext
    BY <2>1, HostStep
  <2>2. CASE UNCHANGED hostVars
    BY <2>2 DEF hostVars, HostInv, HostTypeOK, HostListens, HostCanBeStopped
  <2> QED BY <2>1, <2>2
<1>3. HostInv => HostCanBeStopped
  BY DEF HostInv
<1> QED BY <1>1, <1>2, <1>3, PTL DEF HostSpec

-----------------------------------------------------------------------------
(* The browsers. *)

Connections == [pc : {"checked", "admitted"}, at : Process, code : 0..MaxWebCodes]

CodesTyped ==
  /\ codes \in 0..MaxWebCodes /\ listener \subseteq Process
  /\ pending \in [Process -> 0..codes]
  /\ admitted \in [Codes -> Nat]
  /\ conn \in [Conn -> Connections \cup {NoConn}]

\* A connection that has taken its code and not yet admitted its browser.
Admitting(t) == conn[t] # NoConn /\ conn[t].pc = "admitted"

\* A code is in one place: still pending in one process, taken by one connection, or
\* used for one browser.
OnePlace ==
  /\ \A c \in Codes : admitted[c] <= 1 /\ (c > codes => admitted[c] = 0)
  /\ \A t \in Conn : Admitting(t) => conn[t].code \in 1..codes /\ admitted[conn[t].code] = 0
  /\ \A t, u \in Conn : t # u /\ Admitting(t) /\ Admitting(u) => conn[t].code # conn[u].code
  /\ \A p \in Process : pending[p] # 0 =>
       /\ admitted[pending[p]] = 0
       /\ \A t \in Conn : Admitting(t) => conn[t].code # pending[p]
  /\ \A p, q \in Process : p # q /\ pending[p] # 0 => pending[q] # pending[p]

FileKept == ~crossed /\ ~cut => stored = kept

CodesInv == CodesTyped /\ OnePlace /\ FileKept

LEMMA CodesInit == WebInit => CodesInv
BY LoginAssumption DEF WebInit, CodesInv, CodesTyped, OnePlace, FileKept, Admitting, Codes

\* What no connection, code or process may do to the others.
LEMMA LessKeeps ==
  ASSUME CodesInv, UNCHANGED <<codes, admitted>>,
         listener' \subseteq Process,
         pending' \in [Process -> 0..codes], conn' \in [Conn -> Connections \cup {NoConn}],
         \A p \in Process : pending'[p] \in {0, pending[p]},
         \A t \in Conn : Admitting(t)' => Admitting(t) /\ conn'[t].code = conn[t].code
  PROVE  CodesTyped' /\ OnePlace'
<1>1. CodesTyped'
  BY DEF CodesInv, CodesTyped
<1>2. OnePlace'
  <2>1. /\ \A c \in Codes : admitted[c] <= 1 /\ (c > codes => admitted[c] = 0)
        /\ UNCHANGED <<codes, admitted>>
    BY DEF CodesInv, OnePlace
  <2>2. \A t \in Conn : Admitting(t)' => conn'[t].code \in 1..codes /\ admitted[conn'[t].code] = 0
    BY DEF CodesInv, OnePlace
  <2>3. \A t, u \in Conn : t # u /\ Admitting(t)' /\ Admitting(u)' => conn'[t].code # conn'[u].code
    BY DEF CodesInv, OnePlace
  <2>4. \A p \in Process : pending'[p] # 0 =>
          /\ admitted[pending'[p]] = 0
          /\ \A t \in Conn : Admitting(t)' => conn'[t].code # pending'[p]
    BY DEF CodesInv, OnePlace
  <2>5. \A p, q \in Process : p # q /\ pending'[p] # 0 => pending'[q] # pending'[p]
    BY DEF CodesInv, OnePlace
  <2> QED BY <2>1, <2>2, <2>3, <2>4, <2>5 DEF OnePlace
<1> QED BY <1>1, <1>2

\* The threads of a process that ends.
LEMMA ThreadsEnd ==
  ASSUME CodesInv, NEW p,
         conn' = [t \in Conn |-> IF conn[t] # NoConn /\ conn[t].at = p THEN NoConn ELSE conn[t]]
  PROVE  /\ conn' \in [Conn -> Connections \cup {NoConn}]
         /\ \A t \in Conn : Admitting(t)' => Admitting(t) /\ conn'[t].code = conn[t].code
BY DEF CodesInv, CodesTyped, Admitting

\* The file of a process that writes all it knows.
LEMMA PutKeeps ==
  ASSUME CodesInv, NEW p, NEW new, PutSessions(p, new), UNCHANGED cut,
         stored = sessions[p] /\ stored = kept => kept' = new
  PROVE  FileKept'
BY DEF CodesInv, FileKept, PutSessions, Persisted

\* Every step of a process or a connection keeps each code in one place, and the file.
LEMMA CodesStep ==
  ASSUME CodesInv, WebNext
  PROVE  CodesInv'
<1>1. ASSUME UNCHANGED <<conn, pending, codes, admitted>>, listener' \subseteq Process
      PROVE  CodesTyped' /\ OnePlace'
  BY <1>1, LessKeeps DEF CodesInv, CodesTyped, Admitting
<1>2. ASSUME NEW p \in Process, Wake(p)
      PROVE  CodesInv'
  <2>1. listener' \subseteq Process
    BY <1>2 DEF Wake, CodesInv, CodesTyped
  <2> QED BY <1>1, <1>2, <2>1 DEF Wake, CodesInv, FileKept
<1>3. ASSUME NEW p \in Process,
             listener' = listener \ {p}, pending' = [pending EXCEPT ![p] = 0],
             conn' = [t \in Conn |-> IF conn[t] # NoConn /\ conn[t].at = p THEN NoConn ELSE conn[t]],
             UNCHANGED <<codes, admitted>>
      PROVE  CodesTyped' /\ OnePlace'
  <2>1. /\ pending' \in [Process -> 0..codes] /\ listener' \subseteq Process
        /\ \A q \in Process : pending'[q] \in {0, pending[q]}
    BY <1>3 DEF CodesInv, CodesTyped
  <2> QED BY <1>3, <2>1, ThreadsEnd, LessKeeps
<1>4. ASSUME NEW p \in Process, Sleep(p)
      PROVE  CodesInv'
  BY <1>3, <1>4 DEF Sleep, CodesInv, FileKept
<1>5. ASSUME NEW p \in Process, WriteCut(p)
      PROVE  CodesInv'
  BY <1>3, <1>5 DEF WriteCut, CodesInv, FileKept
<1>6. ASSUME NEW p \in Process, set_pairing_code(p)
      PROVE  CodesInv'
  <2>1. /\ codes' = codes + 1 /\ pending' = [pending EXCEPT ![p] = codes + 1]
        /\ UNCHANGED <<listener, conn, admitted, stored, kept, crossed, cut>>
        /\ codes < MaxWebCodes
    BY <1>6 DEF set_pairing_code
  <2>2. CodesTyped'
    BY <2>1, LoginAssumption DEF CodesInv, CodesTyped
  <2>3. /\ codes + 1 \in Codes /\ codes + 1 > codes /\ codes \in Nat
        /\ admitted[codes + 1] = 0
    BY <2>1, LoginAssumption DEF CodesInv, CodesTyped, OnePlace, Codes
  <2>4. \A q \in Process : pending'[q] = IF q = p THEN codes + 1 ELSE pending[q]
    BY <2>1 DEF CodesInv, CodesTyped
  <2>5. \A q \in Process : pending[q] # codes + 1
    BY <2>3 DEF CodesInv, CodesTyped
  <2>6. \A t \in Conn : Admitting(t) => conn[t].code # codes + 1
    BY <2>3 DEF CodesInv, OnePlace
  <2>7. \A c \in Codes : admitted[c] <= 1 /\ (c > codes + 1 => admitted[c] = 0)
    BY <2>3 DEF CodesInv, OnePlace, Codes
  <2>8. \A t \in Conn : Admitting(t) => conn[t].code \in 1..(codes + 1) /\ admitted[conn[t].code] = 0
    BY <2>3 DEF CodesInv, OnePlace
  <2>9. OnePlace'
    <3>1. \A t \in Conn : Admitting(t)' <=> Admitting(t)
      BY <2>1 DEF Admitting
    <3>2. \A q \in Process : pending'[q] # 0 =>
            /\ admitted[pending'[q]] = 0
            /\ \A t \in Conn : Admitting(t) => conn[t].code # pending'[q]
      BY <2>3, <2>4, <2>6 DEF CodesInv, OnePlace
    <3>3. \A q, r \in Process : q # r /\ pending'[q] # 0 => pending'[r] # pending'[q]
      BY <2>4, <2>5 DEF CodesInv, OnePlace
    <3> QED BY <2>1, <2>7, <2>8, <3>1, <3>2, <3>3 DEF CodesInv, OnePlace
  <2> QED BY <2>1, <2>2, <2>9 DEF CodesInv, FileKept
<1>7. ASSUME NEW c \in Codes, Minutes(c)
      PROVE  CodesInv'
  BY <1>1, <1>7 DEF Minutes, CodesInv, CodesTyped, FileKept
<1>8. ASSUME NEW t \in Conn, NEW c \in 0..MaxWebCodes, Ask(t, c)
      PROVE  CodesInv'
  <2>1. PICK p \in listener : conn' = [conn EXCEPT ![t] = [pc |-> "checked", at |-> p, code |-> c]]
    BY <1>8 DEF Ask
  <2>2. UNCHANGED <<listener, pending, stored, codes, kept, admitted, crossed, cut>>
    BY <1>8 DEF Ask
  <2>3. [pc |-> "checked", at |-> p, code |-> c] \in Connections
    BY DEF CodesInv, CodesTyped, Connections
  <2>4. conn' \in [Conn -> Connections \cup {NoConn}]
    BY <2>1, <2>3 DEF CodesInv, CodesTyped
  <2>5. \A u \in Conn : Admitting(u)' => Admitting(u) /\ conn'[u].code = conn[u].code
    BY <2>1 DEF CodesInv, CodesTyped, Admitting
  <2>6. CodesTyped' /\ OnePlace'
    BY <2>2, <2>4, <2>5, LessKeeps DEF CodesInv, CodesTyped
  <2> QED BY <2>2, <2>6 DEF CodesInv, FileKept
<1>9. ASSUME NEW t \in Conn, Redeem(t)
      PROVE  CodesInv'
  <2> DEFINE p == conn[t].at
             c == conn[t].code
             valid == c # 0 /\ pending[p] = c /\ c \notin stale
  <2>1. /\ conn[t] # NoConn /\ conn[t].pc = "checked"
        /\ UNCHANGED <<listener, stored, codes, kept, admitted, crossed, cut>>
    BY <1>9 DEF Redeem
  <2>2. conn[t] \in Connections /\ p \in Process /\ c \in 0..MaxWebCodes
    BY <2>1 DEF CodesInv, CodesTyped, Connections
  <2>3. CASE valid
    <3> DEFINE x == [conn[t] EXCEPT !.pc = "admitted"]
    <3>1. x \in Connections /\ x.pc = "admitted" /\ x.code = c
      BY <2>2 DEF Connections
    <3>2. conn' = [conn EXCEPT ![t] = x] /\ pending' = [pending EXCEPT ![p] = 0]
      <4>1. conn' = [conn EXCEPT ![t].pc = "admitted"] /\ pending' = Taken(p)
        BY <1>9, <2>3 DEF Redeem
      <4> QED BY <4>1 DEF CodesInv, CodesTyped, Taken
    <3> HIDE DEF x
    <3>3. CodesTyped'
      BY <2>1, <2>2, <3>1, <3>2 DEF CodesInv, CodesTyped
    <3>4. \A u \in Conn : conn'[u] = IF u = t THEN x ELSE conn[u]
      BY <3>2 DEF CodesInv, CodesTyped
    <3>5. \A q \in Process : pending'[q] = IF q = p THEN 0 ELSE pending[q]
      BY <2>2, <3>2 DEF CodesInv, CodesTyped
    <3>6. /\ c \in 1..codes /\ admitted[c] = 0
          /\ \A u \in Conn : Admitting(u) => conn[u].code # c
          /\ \A q \in Process : q # p => pending[q] # c
      BY <2>2, <2>3 DEF CodesInv, CodesTyped, OnePlace
    <3>7. OnePlace'
      <4>1. \A u \in Conn : u # t => (Admitting(u)' <=> Admitting(u)) /\ conn'[u] = conn[u]
        BY <3>4 DEF Admitting
      <4>2. \A u \in Conn : Admitting(u)' => conn'[u].code \in 1..codes /\ admitted[conn'[u].code] = 0
        BY <3>1, <3>4, <3>6, <4>1 DEF CodesInv, OnePlace
      <4>3. \A u, v \in Conn : u # v /\ Admitting(u)' /\ Admitting(v)' => conn'[u].code # conn'[v].code
        BY <3>1, <3>4, <3>6, <4>1 DEF CodesInv, OnePlace
      <4>4. \A q \in Process : pending'[q] # 0 =>
              /\ admitted[pending'[q]] = 0
              /\ \A u \in Conn : Admitting(u)' => conn'[u].code # pending'[q]
        BY <3>1, <3>4, <3>5, <3>6, <4>1 DEF CodesInv, OnePlace
      <4>5. \A q, r \in Process : q # r /\ pending'[q] # 0 => pending'[r] # pending'[q]
        BY <3>5 DEF CodesInv, OnePlace
      <4>6. \A d \in Codes : admitted[d] <= 1 /\ (d > codes => admitted[d] = 0)
        BY DEF CodesInv, OnePlace
      <4> QED BY <2>1, <4>2, <4>3, <4>4, <4>5, <4>6 DEF OnePlace
    <3> QED BY <2>1, <3>3, <3>7 DEF CodesInv, FileKept
  <2>4. CASE ~valid
    <3>1. conn' = [conn EXCEPT ![t] = NoConn] /\ UNCHANGED pending
      BY <1>9, <2>4 DEF Redeem
    <3>2. conn' \in [Conn -> Connections \cup {NoConn}]
      BY <3>1 DEF CodesInv, CodesTyped
    <3>3. \A u \in Conn : Admitting(u)' => Admitting(u) /\ conn'[u].code = conn[u].code
      BY <3>1 DEF CodesInv, CodesTyped, Admitting
    <3>4. CodesTyped' /\ OnePlace'
      BY <2>1, <3>1, <3>2, <3>3, LessKeeps DEF CodesInv, CodesTyped
    <3> QED BY <2>1, <3>4 DEF CodesInv, FileKept
  <2> QED BY <2>3, <2>4
<1>10. ASSUME NEW t \in Conn, Admit(t)
       PROVE  CodesInv'
  <2> DEFINE c == conn[t].code
  <2>1. /\ Admitting(t) /\ PutSessions(conn[t].at, sessions[conn[t].at] \cup {c})
        /\ kept' = kept \cup {c} /\ admitted' = [admitted EXCEPT ![c] = @ + 1]
        /\ conn' = [conn EXCEPT ![t] = NoConn]
        /\ UNCHANGED <<listener, pending, codes, cut>>
    BY <1>10 DEF Admit, Admitting
  <2>2. c \in 1..codes /\ c \in Codes /\ admitted[c] = 0
    BY <2>1, LoginAssumption DEF CodesInv, CodesTyped, OnePlace, Codes
  <2> HIDE DEF c
  <2>3. \A d \in Codes : admitted'[d] = IF d = c THEN 1 ELSE admitted[d]
    BY <2>1, <2>2 DEF CodesInv, CodesTyped
  <2>4. CodesTyped'
    BY <2>1, <2>2 DEF CodesInv, CodesTyped
  <2>5. \A u \in Conn : Admitting(u)' => u # t /\ Admitting(u) /\ conn'[u] = conn[u]
    BY <2>1 DEF CodesInv, CodesTyped, Admitting
  <2>6. /\ \A u \in Conn : Admitting(u)' => conn[u].code # c
        /\ \A q \in Process : pending[q] # 0 => pending[q] # c
    BY <2>1, <2>5 DEF CodesInv, OnePlace, c
  <2>7. 1..codes \subseteq Codes
    BY LoginAssumption DEF CodesInv, CodesTyped, Codes
  <2>8. OnePlace'
    <3>1. \A d \in Codes : admitted'[d] <= 1 /\ (d > codes => admitted'[d] = 0)
      BY <2>2, <2>3 DEF CodesInv, CodesTyped, OnePlace
    <3>2. \A u \in Conn : Admitting(u)' => conn'[u].code \in 1..codes /\ admitted'[conn'[u].code] = 0
      BY <2>3, <2>5, <2>6, <2>7 DEF CodesInv, OnePlace
    <3>3. \A u, v \in Conn : u # v /\ Admitting(u)' /\ Admitting(v)' => conn'[u].code # conn'[v].code
      BY <2>5 DEF CodesInv, OnePlace
    <3>4. \A q \in Process : pending[q] # 0 =>
            /\ admitted'[pending[q]] = 0
            /\ \A u \in Conn : Admitting(u)' => conn'[u].code # pending[q]
      <4> SUFFICES ASSUME NEW q \in Process, pending[q] # 0
                   PROVE  /\ admitted'[pending[q]] = 0
                          /\ \A u \in Conn : Admitting(u)' => conn'[u].code # pending[q]
        OBVIOUS
      <4>1. pending[q] \in Codes /\ pending[q] # c
        BY <2>6, <2>7 DEF CodesInv, CodesTyped
      <4> QED BY <2>3, <2>5, <4>1 DEF CodesInv, OnePlace
    <3>5. \A p, q \in Process : p # q /\ pending[p] # 0 => pending[q] # pending[p]
      BY DEF CodesInv, OnePlace
    <3> QED BY <2>1, <3>1, <3>2, <3>3, <3>4, <3>5 DEF OnePlace
  <2>9. FileKept'
    BY <2>1, PutKeeps DEF c
  <2> QED BY <2>4, <2>8, <2>9 DEF CodesInv
<1>11. ASSUME NEW p \in Process, NEW c \in Codes, Revoke(p, c)
       PROVE  CodesInv'
  <2>1. /\ PutSessions(p, sessions[p] \ {c}) /\ kept' = kept \ {c}
        /\ UNCHANGED <<listener, pending, conn, codes, admitted, cut>>
    BY <1>11 DEF Revoke
  <2>2. FileKept'
    BY <2>1, PutKeeps
  <2> QED BY <1>1, <2>1, <2>2 DEF CodesInv, CodesTyped
<1> QED BY <1>2, <1>4, <1>5, <1>6, <1>7, <1>8, <1>9, <1>10, <1>11 DEF WebNext

\* LoginsAreKept: a code admits one browser whatever connections and processes present it,
\* and the file holds the sessions that were admitted and not revoked unless two processes
\* have crossed in it or a write was cut.
THEOREM LoginTheorem == WebSpec => []LoginsAreKept
<1>1. WebInit => CodesInv
  BY CodesInit
<1>2. CodesInv /\ [WebNext]_webVars => CodesInv'
  <2> SUFFICES ASSUME CodesInv, [WebNext]_webVars
               PROVE  CodesInv'
    OBVIOUS
  <2>1. CASE WebNext
    BY <2>1, CodesStep
  <2>2. CASE UNCHANGED webVars
    BY <2>2 DEF webVars, CodesInv, CodesTyped, OnePlace, FileKept, Admitting
  <2> QED BY <2>1, <2>2
<1>3. CodesInv => LoginsAreKept
  BY DEF CodesInv, OnePlace, FileKept, LoginsAreKept
<1> QED BY <1>1, <1>2, <1>3, PTL DEF WebSpec

-----------------------------------------------------------------------------
(* The throttle of wrong codes. *)

\* The connections that process p has let through and not yet judged.
Asking(p) == {t \in Conn : conn[t] # NoConn /\ conn[t].pc = "checked" /\ conn[t].at = p}

\* Each of them may still add a failure.
TriesBounded(p) == failures[p] + Cardinality(Asking(p)) <= PAIR_FAIL_MAX + Cardinality(Conn) - 1

ServersTyped ==
  /\ awake \subseteq Process /\ listener \subseteq awake
  /\ \A p, q \in listener : p = q
  /\ sessions \in [Process -> SUBSET Codes] /\ stored \subseteq Codes /\ stale \subseteq Codes
  /\ failures \in [Process -> Nat]
  /\ \A t \in Conn : conn[t] # NoConn => conn[t].at \in listener /\ conn[t].code \in 0..codes
  /\ \A p \in Process : TriesBounded(p)

LEMMA AskingFinite ==
  ASSUME NEW p
  PROVE  IsFiniteSet(Asking(p)) /\ Cardinality(Asking(p)) \in 0..Cardinality(Conn)
         /\ Cardinality(Conn) \in Nat
<1>1. IsFiniteSet(Conn) /\ Asking(p) \subseteq Conn
  BY LoginAssumption DEF Asking
<1>2. IsFiniteSet(Asking(p)) /\ Cardinality(Asking(p)) <= Cardinality(Conn)
  BY <1>1, FS_Subset
<1>3. Cardinality(Asking(p)) \in Nat /\ Cardinality(Conn) \in Nat
  BY <1>1, <1>2, FS_CardinalityType
<1> QED BY <1>2, <1>3

\* Less to judge, and no more failures.
LEMMA FewerTries ==
  ASSUME NEW p \in Process, TriesBounded(p), failures \in [Process -> Nat],
         failures' \in [Process -> Nat],
         failures'[p] <= failures[p], Asking(p)' \subseteq Asking(p)
  PROVE  TriesBounded(p)'
<1>1. Cardinality(Asking(p)') <= Cardinality(Asking(p)) /\ Cardinality(Asking(p)') \in Nat
  BY AskingFinite, FS_Subset, FS_CardinalityType
<1> QED BY <1>1, AskingFinite, LoginAssumption DEF TriesBounded

\* A failure that is below the limit, or none at all.
LEMMA FreshTries ==
  ASSUME NEW p \in Process, failures'[p] \in 0..(PAIR_FAIL_MAX - 1),
         Asking(p)' \subseteq Conn
  PROVE  TriesBounded(p)'
<1>1. Cardinality(Asking(p)') <= Cardinality(Conn) /\ Cardinality(Asking(p)') \in Nat
  BY LoginAssumption, FS_Subset, FS_CardinalityType
<1>2. Cardinality(Conn) \in Nat
  BY AskingFinite
<1> QED BY <1>1, <1>2, LoginAssumption DEF TriesBounded

LEMMA ServersInit == WebInit => ServersTyped
<1> SUFFICES ASSUME WebInit PROVE ServersTyped
  OBVIOUS
<1>1. \A p \in Process : Asking(p) = {}
  BY DEF WebInit, Asking
<1>2. \A p \in Process : TriesBounded(p)
  BY <1>1, FS_EmptySet, AskingFinite, LoginAssumption DEF WebInit, TriesBounded
<1> QED BY <1>2 DEF WebInit, ServersTyped

\* A step that leaves the processes, and lets no connection through.
LEMMA ServersStay ==
  ASSUME CodesTyped, ServersTyped, CodesTyped', UNCHANGED <<awake, listener, stale>>,
         sessions' \in [Process -> SUBSET Codes], stored' \subseteq Codes,
         failures' \in [Process -> Nat], codes <= codes',
         \A p \in Process : failures'[p] <= failures[p],
         \A t \in Conn : conn'[t] # NoConn =>
           conn[t] # NoConn /\ conn'[t].at = conn[t].at /\ conn'[t].code = conn[t].code
           /\ (conn'[t].pc = "checked" => conn[t].pc = "checked")
  PROVE  ServersTyped'
<1>1. \A p \in Process : Asking(p)' \subseteq Asking(p)
  BY DEF Asking
<1>2. \A p \in Process : TriesBounded(p)'
  BY <1>1, FewerTries DEF ServersTyped
<1>3. \A t \in Conn : conn'[t] # NoConn => conn'[t].at \in listener /\ conn'[t].code \in 0..codes'
  BY DEF ServersTyped, CodesTyped
<1> QED BY <1>2, <1>3 DEF ServersTyped

\* The end of a process.
LEMMA ServersEnd ==
  ASSUME CodesTyped, ServersTyped, NEW q \in Process, UNCHANGED <<stale, codes>>,
         awake' = awake \ {q}, listener' = listener \ {q},
         failures' = [failures EXCEPT ![q] = 0], sessions' = [sessions EXCEPT ![q] = {}],
         stored' \subseteq Codes,
         conn' = [t \in Conn |-> IF conn[t] # NoConn /\ conn[t].at = q THEN NoConn ELSE conn[t]]
  PROVE  ServersTyped'
<1>1. failures' \in [Process -> Nat] /\ \A p \in Process : failures'[p] <= failures[p]
  BY DEF ServersTyped
<1>2. \A p \in Process : Asking(p)' \subseteq Asking(p)
  BY DEF Asking
<1>3. \A p \in Process : TriesBounded(p)'
  BY <1>1, <1>2, FewerTries DEF ServersTyped
<1>4. \A t \in Conn : conn'[t] # NoConn => conn'[t].at \in listener' /\ conn'[t].code \in 0..codes'
  BY DEF ServersTyped
<1>5. sessions' \in [Process -> SUBSET Codes]
  BY DEF ServersTyped
<1> QED BY <1>1, <1>3, <1>4, <1>5 DEF ServersTyped

\* Every step keeps the processes' types, one listener and the bound of the failures.
LEMMA ServersStep ==
  ASSUME CodesInv, CodesInv', ServersTyped, WebNext
  PROVE  ServersTyped'
<1>0. CodesTyped /\ CodesTyped'
  BY DEF CodesInv
<1>1. ASSUME NEW p \in Process, Wake(p)
      PROVE  ServersTyped'
  <2>1. /\ awake' = awake \cup {p} /\ sessions' = [sessions EXCEPT ![p] = stored]
        /\ listener' = listener \/ (listener = {} /\ listener' = {p})
        /\ UNCHANGED <<pending, stale, failures, stored, conn, codes>>
    BY <1>1 DEF Wake
  <2>2. \A r \in Process : TriesBounded(r)'
    BY <2>1 DEF ServersTyped, TriesBounded, Asking
  <2>3. sessions' \in [Process -> SUBSET Codes]
    BY <2>1 DEF ServersTyped
  <2> QED BY <2>1, <2>2, <2>3 DEF ServersTyped
<1>2. ASSUME NEW p \in Process, Sleep(p)
      PROVE  ServersTyped'
  BY <1>0, <1>2, ServersEnd DEF Sleep, ServersTyped
<1>3. ASSUME NEW p \in Process, WriteCut(p)
      PROVE  ServersTyped'
  BY <1>0, <1>3, ServersEnd DEF WriteCut
<1>4. ASSUME NEW p \in Process, set_pairing_code(p)
      PROVE  ServersTyped'
  <2>1. /\ failures' = [failures EXCEPT ![p] = 0] /\ codes' = codes + 1
        /\ UNCHANGED <<awake, listener, stale, sessions, stored, conn>>
    BY <1>4 DEF set_pairing_code
  <2>2. failures' \in [Process -> Nat] /\ \A r \in Process : failures'[r] <= failures[r]
    BY <2>1 DEF ServersTyped
  <2> QED BY <1>0, <2>1, <2>2, ServersStay DEF ServersTyped, CodesTyped
<1>5. ASSUME NEW c \in Codes, Minutes(c)
      PROVE  ServersTyped'
  <2>1. /\ stale' = stale \cup {c} /\ failures' = [p \in Process |-> 0]
        /\ UNCHANGED <<awake, listener, sessions, stored, conn, codes>>
    BY <1>5 DEF Minutes
  <2>2. failures' \in [Process -> Nat] /\ \A r \in Process : failures'[r] <= failures[r]
    BY <2>1 DEF ServersTyped
  <2>3. \A r \in Process : Asking(r)' \subseteq Asking(r)
    BY <2>1 DEF Asking
  <2>4. \A r \in Process : TriesBounded(r)'
    BY <2>2, <2>3, FewerTries DEF ServersTyped
  <2> QED BY <2>1, <2>2, <2>4 DEF ServersTyped
<1>6. ASSUME NEW t \in Conn, NEW c \in 0..MaxWebCodes, Ask(t, c)
      PROVE  ServersTyped'
  <2>1. PICK p \in listener :
          failures[p] < PAIR_FAIL_MAX /\ conn' = [conn EXCEPT ![t] = [pc |-> "checked", at |-> p, code |-> c]]
    BY <1>6 DEF Ask
  <2>2. c \in 0..codes /\ UNCHANGED <<awake, listener, stale, failures, sessions, stored, codes>>
    BY <1>6 DEF Ask
  <2>3. \A u \in Conn : conn'[u] = IF u = t THEN [pc |-> "checked", at |-> p, code |-> c] ELSE conn[u]
    BY <2>1 DEF CodesInv, CodesTyped
  <2>4. ASSUME NEW r \in Process
        PROVE  TriesBounded(r)'
    <3>1. CASE r = p
      <4>1. failures'[r] \in 0..(PAIR_FAIL_MAX - 1)
        BY <2>1, <2>2, <3>1, LoginAssumption DEF ServersTyped
      <4>2. Asking(r)' \subseteq Conn
        BY DEF Asking
      <4> QED BY <4>1, <4>2, FreshTries
    <3>2. CASE r # p
      <4>1. Asking(r)' \subseteq Asking(r)
        BY <2>3, <3>2 DEF Asking
      <4>2. failures'[r] <= failures[r] /\ failures' \in [Process -> Nat]
        BY <2>2 DEF ServersTyped
      <4> QED BY <4>1, <4>2, FewerTries DEF ServersTyped
    <3> QED BY <3>1, <3>2
  <2>5. \A u \in Conn : conn'[u] # NoConn => conn'[u].at \in listener /\ conn'[u].code \in 0..codes
    BY <2>2, <2>3 DEF ServersTyped
  <2> QED BY <2>2, <2>4, <2>5 DEF ServersTyped
<1>7. ASSUME NEW t \in Conn, Redeem(t)
      PROVE  ServersTyped'
  <2>1. /\ conn[t] # NoConn /\ conn[t].pc = "checked"
        /\ UNCHANGED <<awake, listener, stale, sessions, stored, codes>>
    BY <1>7 DEF Redeem
  <2>2. conn[t] \in Connections /\ conn[t].at \in Process
    BY <2>1 DEF CodesInv, CodesTyped, Connections
  <2> PICK p \in Process : p = conn[t].at
    BY <2>2
  <2> DEFINE c == conn[t].code
             valid == c # 0 /\ pending[p] = c /\ c \notin stale
  <2>3. CASE valid
    <3> DEFINE x == [conn[t] EXCEPT !.pc = "admitted"]
    <3>1. x.pc = "admitted" /\ x.code = c /\ x.at = p
      BY <2>2 DEF Connections
    <3>2. conn' = [conn EXCEPT ![t] = x] /\ failures' = [failures EXCEPT ![p] = 0]
      <4>1. conn' = [conn EXCEPT ![t].pc = "admitted"] /\ failures' = [failures EXCEPT ![p] = 0]
        BY <1>7, <2>3 DEF Redeem
      <4> QED BY <4>1 DEF CodesInv, CodesTyped
    <3> HIDE DEF x
    <3>3. \A u \in Conn : conn'[u] = IF u = t THEN x ELSE conn[u]
      BY <3>2 DEF CodesInv, CodesTyped
    <3>4. failures' \in [Process -> Nat] /\ \A r \in Process : failures'[r] <= failures[r]
      BY <3>2 DEF ServersTyped
    <3> QED BY <1>0, <2>1, <3>1, <3>3, <3>4, ServersStay DEF ServersTyped, CodesTyped
  <2>4. CASE ~valid
    <3>1. conn' = [conn EXCEPT ![t] = NoConn] /\ failures' = [failures EXCEPT ![p] = @ + 1]
      BY <1>7, <2>4 DEF Redeem
    <3>2. \A u \in Conn : conn'[u] = IF u = t THEN NoConn ELSE conn[u]
      BY <3>1 DEF CodesInv, CodesTyped
    <3>3. failures' \in [Process -> Nat] /\ failures'[p] = failures[p] + 1 /\ failures[p] \in Nat
          /\ \A r \in Process \ {p} : failures'[r] = failures[r] /\ failures[r] \in Nat
      BY <2>2, <3>1 DEF ServersTyped
    <3>4. Asking(p)' \subseteq Asking(p) \ {t} /\ t \in Asking(p)
          /\ \A r \in Process : Asking(r)' \subseteq Asking(r)
      BY <2>1, <3>2 DEF Asking
    <3>5. TriesBounded(p)'
      <4>1. /\ IsFiniteSet(Asking(p) \ {t})
            /\ Cardinality(Asking(p) \ {t}) = Cardinality(Asking(p)) - 1
        BY <3>4, AskingFinite, FS_RemoveElement
      <4>2. IsFiniteSet(Asking(p)') /\ Cardinality(Asking(p)') <= Cardinality(Asking(p)) - 1
        BY <3>4, <4>1, FS_Subset
      <4>3. Cardinality(Asking(p)') \in Nat
        BY <4>2, FS_CardinalityType
      <4>4. failures[p] + Cardinality(Asking(p)) <= PAIR_FAIL_MAX + Cardinality(Conn) - 1
        BY <2>2 DEF ServersTyped, TriesBounded
      <4> QED BY <3>3, <4>2, <4>3, <4>4, AskingFinite, LoginAssumption DEF TriesBounded
    <3>6. \A r \in Process \ {p} : TriesBounded(r)'
      BY <3>3, <3>4, FewerTries DEF ServersTyped
    <3>7. \A u \in Conn : conn'[u] # NoConn => conn'[u].at \in listener /\ conn'[u].code \in 0..codes
      BY <3>2 DEF ServersTyped
    <3> QED BY <2>1, <3>3, <3>5, <3>6, <3>7 DEF ServersTyped
  <2> QED BY <2>3, <2>4
<1>8. ASSUME NEW p \in Process, NEW new \in SUBSET Codes, PutSessions(p, new)
      PROVE  sessions' \in [Process -> SUBSET Codes] /\ stored' \subseteq Codes
  BY <1>8 DEF PutSessions, Persisted, ServersTyped
<1>9. ASSUME NEW t \in Conn, Admit(t)
      PROVE  ServersTyped'
  <2> DEFINE c == conn[t].code
             p == conn[t].at
  <2>1. /\ Admitting(t) /\ PutSessions(p, sessions[p] \cup {c})
        /\ conn' = [conn EXCEPT ![t] = NoConn]
        /\ UNCHANGED <<awake, listener, stale, failures, codes>>
    BY <1>9 DEF Admit, Admitting
  <2>2. p \in Process /\ c \in Codes
    BY <2>1, LoginAssumption DEF CodesInv, CodesTyped, OnePlace, Codes, Connections, Admitting
  <2>3. sessions[p] \cup {c} \in SUBSET Codes
    BY <2>2 DEF ServersTyped
  <2> HIDE DEF p, c
  <2>4. sessions' \in [Process -> SUBSET Codes] /\ stored' \subseteq Codes
    BY <1>8, <2>1, <2>2, <2>3
  <2>5. \A u \in Conn : conn'[u] # NoConn => conn'[u] = conn[u]
    BY <2>1 DEF CodesInv, CodesTyped
  <2> QED BY <1>0, <2>1, <2>4, <2>5, ServersStay DEF ServersTyped, CodesTyped
<1>10. ASSUME NEW p \in Process, NEW c \in Codes, Revoke(p, c)
       PROVE  ServersTyped'
  <2>1. PutSessions(p, sessions[p] \ {c}) /\ UNCHANGED <<awake, listener, stale, failures, conn, codes>>
    BY <1>10 DEF Revoke
  <2>2. sessions[p] \ {c} \in SUBSET Codes
    BY DEF ServersTyped
  <2>3. sessions' \in [Process -> SUBSET Codes] /\ stored' \subseteq Codes
    BY <1>8, <2>1, <2>2
  <2> QED BY <1>0, <2>1, <2>3, ServersStay DEF ServersTyped, CodesTyped
<1> QED BY <1>1, <1>2, <1>3, <1>4, <1>5, <1>6, <1>7, <1>9, <1>10 DEF WebNext

LEMMA ServersGive ==
  ASSUME CodesInv, ServersTyped
  PROVE  WebTypeOK
<1>1. Cardinality(listener) <= 1
  <2>1. CASE listener = {}
    BY <2>1, FS_EmptySet
  <2>2. CASE listener # {}
    <3>1. PICK p \in listener : listener = {p}
      BY <2>2 DEF ServersTyped
    <3> QED BY <3>1, FS_Singleton
  <2> QED BY <2>1, <2>2
<1>2. failures \in [Process -> 0..(PAIR_FAIL_MAX + Cardinality(Conn) - 1)]
  <2> SUFFICES ASSUME NEW p \in Process
               PROVE  failures[p] \in 0..(PAIR_FAIL_MAX + Cardinality(Conn) - 1)
    BY DEF ServersTyped
  <2>1. failures[p] \in Nat /\ TriesBounded(p)
    BY DEF ServersTyped
  <2> QED BY <2>1, AskingFinite, LoginAssumption DEF TriesBounded
<1>3. \A t \in Conn : conn[t] # NoConn =>
        conn[t].pc \in {"checked", "admitted"} /\ conn[t].at \in listener /\ conn[t].code \in 0..codes
  BY DEF ServersTyped, CodesInv, CodesTyped, Connections
<1> QED BY <1>1, <1>2, <1>3 DEF WebTypeOK, ServersTyped, CodesInv, CodesTyped

\* WebTypeOK: at most one process listens, a connection is served by it, and however many
\* threads present wrong codes at once, no more than PAIR_FAIL_MAX and one less than there
\* are threads are counted before a code is refused (pairing_blocked is asked before the
\* code is judged, record_failure counts after it).
THEOREM WrongCodesBounded == WebSpec => []WebTypeOK
<1> DEFINE Inv == CodesInv /\ ServersTyped
<1>1. WebInit => Inv
  BY CodesInit, ServersInit
<1>2. Inv /\ [WebNext]_webVars => Inv'
  <2> SUFFICES ASSUME Inv, [WebNext]_webVars
               PROVE  Inv'
    OBVIOUS
  <2>1. CASE WebNext
    BY <2>1, CodesStep, ServersStep
  <2>2. CASE UNCHANGED webVars
    <3>1. CodesInv'
      BY <2>2 DEF webVars, CodesInv, CodesTyped, OnePlace, FileKept, Admitting
    <3>2. \A p \in Process : TriesBounded(p)'
      BY <2>2 DEF webVars, ServersTyped, TriesBounded, Asking
    <3> QED BY <2>2, <3>1, <3>2 DEF webVars, ServersTyped
  <2> QED BY <2>1, <2>2
<1>3. Inv => WebTypeOK
  BY ServersGive
<1> QED BY <1>1, <1>2, <1>3, PTL DEF WebSpec

-----------------------------------------------------------------------------
(* Discovery: the invariant.  The daemon that settles is told apart before *)
(* the elections end; two masters are ordered by their starts and ids.     *)

Reasons == {"start", "forced", "election", "older", "yield"}
DaemonType == [pc: {"off", "electing", "loop"}, role: Roles, at: 0..MaxTime,
               forced: BOOLEAN, beat: 0..MaxTime, why: Reasons, met: SUBSET Dev]

\* A daemon that is master, or was and has yielded.
Led(m) == daemon[m].pc = "loop" /\ (daemon[m].role = "master" \/ daemon[m].why = "yield")

\* The order in which two masters settle: the older one wins, then the smaller id.
Before(o, m) ==
  daemon[o].at < daemon[m].at \/ (daemon[o].at = daemon[m].at /\ o < m)

AirTyped ==
  \A p \in air : /\ p.from \in Dev /\ p.to \in Dev /\ p.to # p.from
                 /\ p.at \in 0..MaxTime /\ p.up \in 0..MaxTime

DiscTyped ==
  /\ daemon \in [Dev -> DaemonType] /\ ticks \in 0..MaxTime /\ AirTyped
  /\ odds.stops \in Nat /\ odds.toggles \in Nat
  /\ odds.want \in [Dev -> {"none", "master", "slave"}]
  /\ odds = [stops |-> odds.stops, toggles |-> odds.toggles, want |-> odds.want]
  /\ \A m \in Dev : daemon[m].pc # "loop" =>
       daemon[m].role = "undecided" /\ daemon[m].why = "start" /\ daemon[m].met = {}

\* Who has set no role forces none.
Unforced ==
  odds.toggles = 0 =>
    \A m \in Dev : odds.want[m] = "none" /\ ~daemon[m].forced /\ daemon[m].why # "forced"

\* Packets are not older than MAX_DELAY, and what they say of their sender is not younger than
\* the daemon that runs there now.
Timely ==
  /\ \A m \in Dev : daemon[m].pc # "off" => daemon[m].at <= ticks
  /\ \A p \in air : /\ p.at <= ticks /\ ticks <= p.at + MAX_DELAY
                    /\ daemon[p.from].pc # "off" => p.at <= p.up + daemon[p.from].at

\* As long as no daemon has stopped, a master has yielded to one before it.
Ranked ==
  odds.toggles = 0 /\ odds.stops = 0 =>
    /\ \A p \in air : p.role = "master" => Led(p.from) /\ p.at = p.up + daemon[p.from].at
    /\ \A m \in Dev : daemon[m].why = "yield" => \E o \in Dev : Led(o) /\ Before(o, m)

\* A daemon that RolesSettle names, or one that is not told of a master before its election ends.
Settles(m) ==
  \/ daemon[m].role = "master" \/ daemon[m].why = "older"
  \/ daemon[m].why = "yield" /\ odds.stops > 0
  \/ daemon[m].pc # "loop" /\ \A p \in air : p.to = m => p.role # "master"

Settling == odds.toggles = 0 => \E m \in Dev : Settles(m)

\* A master that has won against another one is not much younger.
MetClose ==
  \A m, o \in Dev : o \in daemon[m].met /\ daemon[o].pc # "off"
                      => daemon[m].at <= daemon[o].at + MAX_DELAY

DiscInv == DiscTyped /\ Unforced /\ Timely /\ Ranked /\ Settling /\ MetClose

\* What daemon m sends in a step.
Fresh(p, m) ==
  /\ p.from = m /\ p.to \in Dev /\ p.to # m /\ p.at = ticks /\ p.up = ticks - daemon'[m].at
  /\ p.role \in {"undecided", daemon'[m].role}

Unmoved(m) == daemon' = [n \in Dev |-> daemon'[n]] /\ \A n \in Dev : n # m => daemon'[n] = daemon[n]
OnlyOne(m) == ticks' = ticks /\ Unmoved(m)
Adds(m) == \A p \in air' : p \in air \/ Fresh(p, m)
SameOdds == odds' = odds

\* The daemon m after a step, its timers left out.
Now(m, pc, role, at, forced, why, met) ==
  /\ daemon'[m] \in DaemonType
  /\ daemon'[m].pc = pc /\ daemon'[m].role = role /\ daemon'[m].at = at
  /\ daemon'[m].forced = forced /\ daemon'[m].why = why /\ daemon'[m].met = met

Quiet == daemon' = daemon /\ ticks' = ticks /\ odds' = odds /\ air' \subseteq air

\* What is sent says when its sender has started.
LEMMA SentFresh ==
  ASSUME DiscTyped, NEW m \in Dev, NEW role \in {"undecided", daemon'[m].role}, daemon'[m].at = daemon[m].at
  PROVE  \A p \in Sent(m, role) : Fresh(p, m)
BY DEF Sent, BeaconTo, Packet, Fresh, Rivals, Uptime

LEMMA SendAdds ==
  ASSUME NEW m \in Dev, NEW packets, Send(packets), \A p \in packets : Fresh(p, m)
  PROVE  Adds(m)
BY DEF Send, Adds

LEMMA DaemonNames ==
  /\ \A r \in {"undecided", "master", "slave"} : r \in Roles
  /\ \A y \in {"start", "forced", "election", "older", "yield"} : y \in Reasons
  /\ Stopped \in DaemonType
BY DiscAssumption DEF Roles, Reasons, Stopped, DaemonType

-----------------------------------------------------------------------------
(* Discovery: what each action does to the daemon it is about. *)

LEMMA StartDoes ==
  ASSUME DiscTyped, NEW m \in Dev, start(m)
  PROVE  /\ OnlyOne(m) /\ Adds(m) /\ SameOdds /\ daemon[m].pc = "off"
         /\ \/ Now(m, "electing", "undecided", ticks, FALSE, "start", {})
            \/ odds.want[m] # "none" /\ Now(m, "loop", odds.want[m], ticks, TRUE, "forced", {})
<1>1. /\ daemon \in [Dev -> DaemonType] /\ ticks \in 0..MaxTime
      /\ odds.want[m] \in {"none", "master", "slave"}
  BY DEF DiscTyped
<1>2. daemon[m].pc = "off" /\ ticks' = ticks /\ odds' = odds
  BY DEF start
<1>3. CASE odds.want[m] = "none"
  <2> DEFINE r == [Stopped EXCEPT !.pc = "electing", !.at = ticks]
             sent == {DiscoverTo(m, o) : o \in Rivals(m)} \cup {BeaconTo(m, o, "undecided", 0) : o \in Rivals(m)}
  <2>1. daemon' = [daemon EXCEPT ![m] = r] /\ Send(sent)
    BY <1>3 DEF start
  <2>2. /\ r.pc = "electing" /\ r.role = "undecided" /\ r.at = ticks /\ r.forced = FALSE
        /\ r.why = "start" /\ r.met = {}
    BY DEF Stopped
  <2>3. r \in DaemonType
    BY <1>1, DaemonNames DEF DaemonType
  <2>4. daemon'[m] = r /\ Unmoved(m)
    BY <1>1, <2>1 DEF Unmoved
  <2>5. ticks - ticks = 0
    BY <1>1, DiscAssumption
  <2>6. \A p \in sent : Fresh(p, m)
    BY <2>2, <2>4, <2>5 DEF DiscoverTo, BeaconTo, Packet, Fresh, Rivals
  <2>7. Adds(m)
    <3> HIDE DEF sent
    <3> QED BY <2>1, <2>6, SendAdds
  <2>8. Now(m, "electing", "undecided", ticks, FALSE, "start", {})
    BY <2>2, <2>3, <2>4 DEF Now
  <2> QED BY <1>2, <2>4, <2>7, <2>8 DEF OnlyOne, SameOdds
<1>4. CASE odds.want[m] # "none"
  <2> DEFINE w == odds.want[m]
             r == [Stopped EXCEPT !.pc = "loop", !.at = ticks, !.role = w, !.forced = TRUE, !.beat = ticks,
                                  !.why = "forced"]
             sent == {DiscoverTo(m, o) : o \in Rivals(m)} \cup {BeaconTo(m, o, w, 0) : o \in Rivals(m)}
  <2>1. daemon' = [daemon EXCEPT ![m] = r] /\ Send(sent)
    BY <1>4 DEF start
  <2>2. r.pc = "loop" /\ r.role = w /\ r.at = ticks /\ r.forced = TRUE /\ r.why = "forced" /\ r.met = {}
    BY DEF Stopped
  <2>3. w \in Roles /\ ticks \in 0..MaxTime /\ "forced" \in Reasons /\ Stopped \in DaemonType
    BY <1>1, <1>4, DaemonNames
  <2>9. r \in DaemonType
    BY <2>3 DEF DaemonType
  <2>4. daemon'[m] = r /\ Unmoved(m)
    BY <1>1, <2>1 DEF Unmoved
  <2>5. ticks - ticks = 0
    BY <1>1, DiscAssumption
  <2>6. \A p \in sent : Fresh(p, m)
    BY <2>2, <2>4, <2>5 DEF DiscoverTo, BeaconTo, Packet, Fresh, Rivals
  <2>7. Adds(m)
    <3> HIDE DEF sent
    <3> QED BY <2>1, <2>6, SendAdds
  <2>8. Now(m, "loop", w, ticks, TRUE, "forced", {})
    BY <2>2, <2>9, <2>4 DEF Now
  <2> QED BY <1>2, <1>4, <2>4, <2>7, <2>8 DEF OnlyOne, SameOdds
<1> QED BY <1>3, <1>4

LEMMA HearsDoes ==
  ASSUME DiscTyped, NEW p \in air, ElectionHears(p.to, p)
  PROVE  \/ Quiet
         \/ /\ OnlyOne(p.to) /\ Adds(p.to) /\ SameOdds /\ daemon[p.to].pc = "electing"
            /\ Now(p.to, "loop", "slave", daemon[p.to].at, daemon[p.to].forced, "election", daemon[p.to].met)
<1> DEFINE m == p.to
<1>1. daemon \in [Dev -> DaemonType] /\ ticks \in 0..MaxTime /\ m \in Dev
  BY DEF DiscTyped, AirTyped
<1>2. daemon[m].pc = "electing" /\ ticks' = ticks /\ odds' = odds
  BY DEF ElectionHears
<1>3. CASE p.type = "beacon" /\ p.role = "master"
  <2>1. daemon' = [daemon EXCEPT ![m].pc = "loop", ![m].role = "slave", ![m].why = "election", ![m].beat = ticks]
    BY <1>3 DEF ElectionHears
  <2>2. PICK s \in SUBSET Sent(m, "slave") : air' = (air \ {p}) \cup s
    BY <1>3 DEF ElectionHears
  <2>3. Unmoved(m)
    BY <1>1, <2>1 DEF Unmoved
  <2>4. daemon'[m] = [daemon[m] EXCEPT !.pc = "loop", !.role = "slave", !.why = "election", !.beat = ticks]
    BY <1>1, <2>1
  <2>5. Now(m, "loop", "slave", daemon[m].at, daemon[m].forced, "election", daemon[m].met)
    <3>1. daemon[m] \in DaemonType /\ "slave" \in Roles /\ "election" \in Reasons /\ ticks \in 0..MaxTime
      BY <1>1, DaemonNames
    <3>2. daemon'[m] \in DaemonType
      BY <2>4, <3>1 DEF DaemonType
    <3>3. /\ daemon'[m].pc = "loop" /\ daemon'[m].role = "slave" /\ daemon'[m].at = daemon[m].at
          /\ daemon'[m].forced = daemon[m].forced /\ daemon'[m].why = "election"
          /\ daemon'[m].met = daemon[m].met
      BY <2>4, <3>1 DEF DaemonType
    <3> QED BY <3>2, <3>3 DEF Now
  <2>6. \A q \in Sent(m, "slave") : Fresh(q, m)
    BY <1>1, <2>5, SentFresh DEF Now
  <2>7. Adds(m)
    BY <2>2, <2>6 DEF Adds
  <2> QED BY <1>2, <2>3, <2>5, <2>7 DEF OnlyOne, SameOdds
<1>4. CASE ~(p.type = "beacon" /\ p.role = "master")
  BY <1>2, <1>4 DEF ElectionHears, Quiet
<1> QED BY <1>3, <1>4

LEMMA EndsDoes ==
  ASSUME DiscTyped, NEW m \in Dev, ElectionEnds(m)
  PROVE  /\ OnlyOne(m) /\ Adds(m) /\ SameOdds /\ daemon[m].pc = "electing"
         /\ \/ Now(m, "loop", "master", daemon[m].at, daemon[m].forced, "election", daemon[m].met)
            \/ Now(m, "loop", "slave", daemon[m].at, daemon[m].forced, "older", daemon[m].met)
<1>1. daemon \in [Dev -> DaemonType] /\ ticks \in 0..MaxTime
  BY DEF DiscTyped
<1>2. daemon[m].pc = "electing" /\ ticks' = ticks /\ odds' = odds
  BY DEF ElectionEnds
<1>3. PICK r \in {"slave", "master"} :
        /\ daemon' = [daemon EXCEPT ![m].pc = "loop", ![m].role = r, ![m].beat = ticks,
                                    ![m].why = IF r = "slave" THEN "older" ELSE "election"]
        /\ Send(Sent(m, r))
  BY DEF ElectionEnds
<1>4. Unmoved(m)
  BY <1>1, <1>3 DEF Unmoved
<1> DEFINE w == IF r = "slave" THEN "older" ELSE "election"
<1>5. daemon'[m] = [daemon[m] EXCEPT !.pc = "loop", !.role = r, !.beat = ticks, !.why = w]
  BY <1>1, <1>3
<1>9. w \in Reasons /\ r \in Roles
  BY DaemonNames
<1>6. Now(m, "loop", r, daemon[m].at, daemon[m].forced, w, daemon[m].met)
  <2> HIDE DEF w
  <2>1. daemon[m] \in DaemonType
    BY <1>1
  <2>2. daemon'[m] \in DaemonType
    BY <1>1, <1>5, <1>9, <2>1 DEF DaemonType
  <2>3. /\ daemon'[m].pc = "loop" /\ daemon'[m].role = r /\ daemon'[m].at = daemon[m].at
        /\ daemon'[m].forced = daemon[m].forced /\ daemon'[m].why = w /\ daemon'[m].met = daemon[m].met
    BY <1>5, <2>1 DEF DaemonType
  <2> QED BY <2>2, <2>3 DEF Now
<1>7. \A q \in Sent(m, r) : Fresh(q, m)
  BY <1>6, SentFresh DEF Now
<1>8. Adds(m)
  BY <1>3, <1>7, SendAdds
<1> QED BY <1>2, <1>3, <1>4, <1>6, <1>8 DEF OnlyOne, SameOdds

LEMMA BeaconDoes ==
  ASSUME DiscTyped, NEW p \in air, handle_beacon(p.to, p)
  PROVE  /\ OnlyOne(p.to) /\ air' \subseteq air /\ SameOdds /\ daemon[p.to].pc = "loop"
         /\ \/ /\ daemon[p.to].role = "master" /\ p.role = "master" /\ ~WinsElection(p.to, p)
               /\ Now(p.to, "loop", "slave", daemon[p.to].at, daemon[p.to].forced, "yield", {})
            \/ /\ daemon[p.to].role = "master" /\ p.role = "master" /\ WinsElection(p.to, p)
               /\ Now(p.to, "loop", "master", daemon[p.to].at, daemon[p.to].forced, daemon[p.to].why,
                      daemon[p.to].met \cup {p.from})
            \/ daemon' = daemon
<1> DEFINE m == p.to
<1>1. daemon \in [Dev -> DaemonType] /\ m \in Dev /\ p.from \in Dev
  BY DEF DiscTyped, AirTyped
<1>2. daemon[m].pc = "loop" /\ ticks' = ticks /\ odds' = odds /\ air' \subseteq air
  BY DEF handle_beacon
<1> DEFINE c == ~daemon[m].forced /\ daemon[m].role = "master" /\ p.role = "master"
<1>3. daemon' = IF c /\ ~WinsElection(m, p)
                THEN [daemon EXCEPT ![m].role = "slave", ![m].why = "yield", ![m].met = {}]
                ELSE [daemon EXCEPT ![m].met = IF c THEN @ \cup {p.from} ELSE @]
  BY DEF handle_beacon
<1>4. Unmoved(m)
  BY <1>1, <1>3 DEF Unmoved
<1>5. CASE c /\ ~WinsElection(m, p)
  <2>1. daemon'[m] = [daemon[m] EXCEPT !.role = "slave", !.why = "yield", !.met = {}]
    BY <1>1, <1>3, <1>5
  <2>2. Now(m, "loop", "slave", daemon[m].at, daemon[m].forced, "yield", {})
    BY <1>1, <1>2, <2>1, DaemonNames DEF Now, DaemonType
  <2> QED BY <1>2, <1>4, <1>5, <2>2 DEF OnlyOne, SameOdds
<1>6. CASE c /\ WinsElection(m, p)
  <2>1. daemon'[m] = [daemon[m] EXCEPT !.met = daemon[m].met \cup {p.from}]
    BY <1>1, <1>3, <1>6
  <2>2. Now(m, "loop", "master", daemon[m].at, daemon[m].forced, daemon[m].why, daemon[m].met \cup {p.from})
    BY <1>1, <1>2, <1>6, <2>1 DEF Now, DaemonType
  <2> QED BY <1>2, <1>4, <1>6, <2>2 DEF OnlyOne, SameOdds
<1>7. CASE ~c
  <2>1. daemon' = [daemon EXCEPT ![m].met = daemon[m].met]
    BY <1>3, <1>7
  <2>2. [daemon[m] EXCEPT !.met = daemon[m].met] = daemon[m]
    BY <1>1 DEF DaemonType
  <2>3. daemon' = daemon
    BY <1>1, <2>1, <2>2
  <2> QED BY <1>2, <1>4, <2>3 DEF OnlyOne, SameOdds
<1> QED BY <1>5, <1>6, <1>7

LEMMA DiscoverDoes ==
  ASSUME DiscTyped, NEW p \in air, handle_discover(p.to, p)
  PROVE  daemon' = daemon /\ OnlyOne(p.to) /\ Adds(p.to) /\ SameOdds /\ daemon[p.to].pc = "loop"
<1> DEFINE m == p.to
<1>1. m \in Dev /\ p.from \in Dev /\ p.from # m /\ daemon \in [Dev -> DaemonType]
  BY DEF DiscTyped, AirTyped
<1>2. daemon' = daemon /\ daemon[m].pc = "loop" /\ ticks' = ticks /\ odds' = odds
  BY DEF handle_discover
<1>3. Fresh(BeaconTo(m, p.from, daemon[m].role, Uptime(m)), m)
  BY <1>1, <1>2 DEF Fresh, BeaconTo, Packet, Uptime
<1>4. Adds(m)
  BY <1>3 DEF handle_discover, Adds
<1>5. Unmoved(m)
  BY <1>1, <1>2 DEF Unmoved
<1> QED BY <1>2, <1>4, <1>5 DEF OnlyOne, SameOdds

LEMMA ScanDoes ==
  ASSUME DiscTyped, NEW m \in Dev, BeaconAndScan(m)
  PROVE  /\ OnlyOne(m) /\ Adds(m) /\ SameOdds /\ daemon[m].pc = "loop"
         /\ Now(m, "loop", daemon[m].role, daemon[m].at, daemon[m].forced, daemon[m].why, daemon[m].met)
<1>1. daemon \in [Dev -> DaemonType] /\ ticks \in 0..MaxTime
  BY DEF DiscTyped
<1>2. /\ daemon[m].pc = "loop" /\ ticks' = ticks /\ odds' = odds
      /\ daemon' = [daemon EXCEPT ![m].beat = ticks] /\ Send(Sent(m, daemon[m].role))
  BY DEF BeaconAndScan
<1>3. Unmoved(m)
  BY <1>1, <1>2 DEF Unmoved
<1>4. daemon'[m] = [daemon[m] EXCEPT !.beat = ticks]
  BY <1>1, <1>2
<1>5. Now(m, "loop", daemon[m].role, daemon[m].at, daemon[m].forced, daemon[m].why, daemon[m].met)
  BY <1>1, <1>2, <1>4 DEF Now, DaemonType
<1>6. \A q \in Sent(m, daemon[m].role) : Fresh(q, m)
  BY <1>5, SentFresh DEF Now
<1>7. Adds(m)
  BY <1>2, <1>6, SendAdds
<1> QED BY <1>2, <1>3, <1>5, <1>7 DEF OnlyOne, SameOdds

LEMMA ReloadDoes ==
  ASSUME DiscTyped, Unforced, NEW m \in Dev, reload_settings(m)
  PROVE  /\ OnlyOne(m) /\ air' = air /\ SameOdds /\ daemon[m].pc = "loop" /\ odds.toggles # 0
         /\ daemon'[m] \in DaemonType /\ daemon'[m].pc = "loop" /\ daemon'[m].at = daemon[m].at
         /\ daemon'[m].met \subseteq daemon[m].met
<1>1. daemon \in [Dev -> DaemonType] /\ odds.want[m] \in {"none", "master", "slave"}
  BY DEF DiscTyped
<1> DEFINE w == odds.want[m]
           r == IF w = "none" THEN daemon[m].role ELSE w
           y == IF r = daemon[m].role THEN daemon[m].why ELSE "forced"
           s == IF r = "master" THEN daemon[m].met ELSE {}
<1>2. /\ daemon[m].pc = "loop" /\ ticks' = ticks /\ odds' = odds /\ air' = air
      /\ r # daemon[m].role \/ daemon[m].forced # (w # "none")
      /\ daemon' = [daemon EXCEPT ![m].role = r, ![m].forced = (w # "none"), ![m].why = y, ![m].met = s]
  BY DEF reload_settings
<1>3. Unmoved(m)
  BY <1>1, <1>2 DEF Unmoved
<1>4. /\ r \in Roles /\ y \in Reasons /\ s \in SUBSET Dev /\ s \subseteq daemon[m].met
      /\ (w # "none") \in BOOLEAN
  BY <1>1 DEF DaemonType, Roles, Reasons
<1>5. daemon'[m] = [daemon[m] EXCEPT !.role = r, !.forced = (w # "none"), !.why = y, !.met = s]
  BY <1>1, <1>2
<1>6. /\ daemon'[m] \in DaemonType /\ daemon'[m].pc = "loop" /\ daemon'[m].at = daemon[m].at
      /\ daemon'[m].met \subseteq daemon[m].met
  <2> DEFINE f == (w # "none")
  <2>1. f \in BOOLEAN /\ daemon'[m] = [daemon[m] EXCEPT !.role = r, !.forced = f, !.why = y, !.met = s]
    BY <1>4, <1>5
  <2> HIDE DEF r, y, s, w, f
  <2>2. daemon[m] \in DaemonType
    BY <1>1
  <2>3. daemon'[m] \in DaemonType
    BY <1>4, <2>1, <2>2 DEF DaemonType
  <2>4. daemon[m].pc = "loop" /\ s \subseteq daemon[m].met
    BY <1>2, <1>4
  <2>5. daemon'[m].pc = daemon[m].pc /\ daemon'[m].at = daemon[m].at /\ daemon'[m].met = s
    BY <2>1, <2>2 DEF DaemonType
  <2> QED BY <2>3, <2>4, <2>5
<1>7. odds.toggles # 0
  BY <1>1, <1>2 DEF Unforced, DaemonType
<1> QED BY <1>2, <1>3, <1>6, <1>7 DEF OnlyOne, SameOdds

LEMMA StopDoes ==
  ASSUME DiscTyped, NEW m \in Dev, StopDaemon(m)
  PROVE  /\ OnlyOne(m) /\ air' = {p \in air : p.to # m}
         /\ odds'.want = odds.want /\ odds'.toggles = odds.toggles /\ odds'.stops = odds.stops + 1
         /\ odds' = [stops |-> odds'.stops, toggles |-> odds'.toggles, want |-> odds'.want]
         /\ Now(m, "off", "undecided", 0, FALSE, "start", {})
<1>1. daemon \in [Dev -> DaemonType]
  BY DEF DiscTyped
<1>2. ticks' = ticks /\ air' = {p \in air : p.to # m} /\ daemon' = [daemon EXCEPT ![m] = Stopped]
  BY DEF StopDaemon
<1>3. Stopped \in DaemonType
  BY DiscAssumption DEF Stopped, DaemonType, Roles, Reasons
<1>4. daemon'[m] = Stopped /\ Unmoved(m)
  BY <1>1, <1>2 DEF Unmoved
<1>5. Now(m, "off", "undecided", 0, FALSE, "start", {})
  BY <1>3, <1>4 DEF Now, Stopped
<1>6. /\ odds'.want = odds.want /\ odds'.toggles = odds.toggles /\ odds'.stops = odds.stops + 1
      /\ odds' = [stops |-> odds'.stops, toggles |-> odds'.toggles, want |-> odds'.want]
  BY DEF StopDaemon, DiscTyped
<1> QED BY <1>2, <1>4, <1>5, <1>6 DEF OnlyOne

LEMMA ForceDoes ==
  ASSUME DiscTyped, NEW m \in Dev, ForceRole(m)
  PROVE  /\ daemon' = daemon /\ air' = air /\ ticks' = ticks
         /\ odds'.stops = odds.stops /\ odds'.toggles = odds.toggles + 1
         /\ odds'.want \in [Dev -> {"none", "master", "slave"}]
         /\ odds' = [stops |-> odds'.stops, toggles |-> odds'.toggles, want |-> odds'.want]
<1>1. PICK w \in {"none", "master", "slave"} :
        odds' = [odds EXCEPT !.toggles = odds.toggles + 1, !.want = [odds.want EXCEPT ![m] = w]]
  BY DEF ForceRole
<1>2. daemon' = daemon /\ air' = air /\ ticks' = ticks
  BY DEF ForceRole
<1> QED BY <1>1, <1>2 DEF DiscTyped

-----------------------------------------------------------------------------
(* Discovery: the kinds of steps. *)

Passes ==
  /\ daemon' = daemon /\ air' = air /\ odds' = odds /\ ticks < MaxTime /\ ticks' = ticks + 1
  /\ \A p \in air : ticks - p.at < MAX_DELAY

Starts(m) ==
  /\ OnlyOne(m) /\ Adds(m) /\ SameOdds /\ daemon[m].pc = "off"
  /\ \/ Now(m, "electing", "undecided", ticks, FALSE, "start", {})
     \/ odds.want[m] # "none" /\ Now(m, "loop", odds.want[m], ticks, TRUE, "forced", {})

\* A daemon that elects hears of a master.
Follows(m) ==
  /\ OnlyOne(m) /\ Adds(m) /\ SameOdds /\ daemon[m].pc = "electing"
  /\ Now(m, "loop", "slave", daemon[m].at, daemon[m].forced, "election", daemon[m].met)
  /\ \E p \in air : p.to = m /\ p.role = "master"

Elects(m) ==
  /\ OnlyOne(m) /\ Adds(m) /\ SameOdds /\ daemon[m].pc = "electing"
  /\ \/ Now(m, "loop", "master", daemon[m].at, daemon[m].forced, "election", daemon[m].met)
     \/ Now(m, "loop", "slave", daemon[m].at, daemon[m].forced, "older", daemon[m].met)

Meets(m, p) ==
  /\ OnlyOne(m) /\ air' \subseteq air /\ SameOdds /\ daemon[m].pc = "loop"
  /\ daemon[m].role = "master" /\ p.role = "master" /\ p.to = m

Yields(m) ==
  \E p \in air :
    /\ Meets(m, p) /\ ~WinsElection(m, p)
    /\ Now(m, "loop", "slave", daemon[m].at, daemon[m].forced, "yield", {})

Wins(m) ==
  \E p \in air :
    /\ Meets(m, p) /\ WinsElection(m, p)
    /\ Now(m, "loop", "master", daemon[m].at, daemon[m].forced, daemon[m].why, daemon[m].met \cup {p.from})

Speaks(m) ==
  /\ OnlyOne(m) /\ Adds(m) /\ SameOdds /\ daemon[m].pc = "loop"
  /\ Now(m, "loop", daemon[m].role, daemon[m].at, daemon[m].forced, daemon[m].why, daemon[m].met)

Obeys(m) ==
  /\ OnlyOne(m) /\ air' = air /\ SameOdds /\ daemon[m].pc = "loop" /\ odds.toggles # 0
  /\ daemon'[m] \in DaemonType /\ daemon'[m].pc = "loop" /\ daemon'[m].at = daemon[m].at
  /\ daemon'[m].met \subseteq daemon[m].met

SameShape == odds' = [stops |-> odds'.stops, toggles |-> odds'.toggles, want |-> odds'.want]

Stops(m) ==
  /\ OnlyOne(m) /\ air' = {p \in air : p.to # m} /\ SameShape
  /\ odds'.want = odds.want /\ odds'.toggles = odds.toggles /\ odds'.stops = odds.stops + 1
  /\ Now(m, "off", "undecided", 0, FALSE, "start", {})

Forces ==
  /\ daemon' = daemon /\ air' = air /\ ticks' = ticks /\ SameShape
  /\ odds'.stops = odds.stops /\ odds'.toggles = odds.toggles + 1
  /\ odds'.want \in [Dev -> {"none", "master", "slave"}]

Acts(m) ==
  Starts(m) \/ Follows(m) \/ Elects(m) \/ Yields(m) \/ Wins(m) \/ Speaks(m) \/ Obeys(m) \/ Stops(m)

\* Every step is of one of these kinds.
LEMMA DiscKinds ==
  ASSUME DiscTyped, Unforced, [DiscNext]_discVars
  PROVE  Quiet \/ Passes \/ Forces \/ \E m \in Dev : Acts(m)
<1>1. CASE UNCHANGED discVars
  BY <1>1 DEF discVars, Quiet
<1>2. CASE TickDiscovery
  BY <1>2 DEF TickDiscovery, Passes
<1>3. ASSUME NEW p \in air, Unheard(p.to, p) \/ ElectionHears(p.to, p)
                            \/ handle_beacon(p.to, p) \/ handle_discover(p.to, p)
      PROVE  Quiet \/ Acts(p.to)
  <2>1. p.to \in Dev /\ daemon \in [Dev -> DaemonType]
    BY DEF DiscTyped, AirTyped
  <2>2. CASE Unheard(p.to, p)
    BY <2>2 DEF Unheard, Quiet
  <2>3. CASE ElectionHears(p.to, p)
    <3>1. Quiet \/ p.role = "master"
      BY <2>3 DEF ElectionHears, Quiet
    <3> QED BY <2>3, <3>1, HearsDoes DEF Follows, Acts
  <2>4. CASE handle_beacon(p.to, p)
    <3>1. daemon' = daemon => Quiet
      BY <2>4, BeaconDoes DEF Quiet, OnlyOne, SameOdds
    <3>2. Quiet \/ Yields(p.to) \/ Wins(p.to)
      BY <2>4, <3>1, BeaconDoes DEF Yields, Wins, Meets
    <3> QED BY <3>2 DEF Acts
  <2>5. CASE handle_discover(p.to, p)
    <3>1. /\ OnlyOne(p.to) /\ Adds(p.to) /\ SameOdds /\ daemon[p.to].pc = "loop" /\ daemon' = daemon
      BY <2>5, DiscoverDoes
    <3>2. Now(p.to, "loop", daemon[p.to].role, daemon[p.to].at, daemon[p.to].forced, daemon[p.to].why, daemon[p.to].met)
      BY <2>1, <3>1 DEF Now
    <3> QED BY <3>1, <3>2 DEF Speaks, Acts
  <2> QED BY <1>3, <2>2, <2>3, <2>4, <2>5
<1>4. ASSUME NEW m \in Dev, start(m) \/ ElectionEnds(m) \/ BeaconAndScan(m) \/ reload_settings(m)
                            \/ ExpirePeers(m) \/ StopDaemon(m) \/ ForceRole(m)
      PROVE  Quiet \/ Forces \/ Acts(m)
  <2>1. CASE start(m)
    BY <2>1, StartDoes DEF Starts, Acts
  <2>2. CASE ElectionEnds(m)
    BY <2>2, EndsDoes DEF Elects, Acts
  <2>3. CASE BeaconAndScan(m)
    BY <2>3, ScanDoes DEF Speaks, Acts
  <2>4. CASE reload_settings(m)
    BY <2>4, ReloadDoes DEF Obeys, Acts
  <2>5. CASE ExpirePeers(m)
    BY <2>5 DEF ExpirePeers, Quiet
  <2>6. CASE StopDaemon(m)
    BY <2>6, StopDoes DEF Stops, Acts, SameShape
  <2>7. CASE ForceRole(m)
    BY <2>7, ForceDoes DEF Forces, SameShape
  <2> QED BY <1>4, <2>1, <2>2, <2>3, <2>4, <2>5, <2>6, <2>7
<1>5. ASSUME DiscNext
      PROVE  Quiet \/ Passes \/ Forces \/ \E m \in Dev : Acts(m)
  <2>1. \A p \in air : p.to \in Dev
    BY DEF DiscTyped, AirTyped
  <2> QED BY <1>2, <1>3, <1>4, <1>5, <2>1 DEF DiscNext
<1> QED BY <1>1, <1>5

-----------------------------------------------------------------------------
(* Discovery: what every act of a daemon keeps. *)

\* A daemon keeps its start until it starts again.
Aged(m) ==
  daemon'[m].pc # "off" =>
    /\ daemon'[m].at <= ticks
    /\ \/ daemon[m].pc # "off" /\ daemon'[m].at = daemon[m].at
       \/ daemon[m].pc = "off" /\ daemon'[m].at = ticks

Calm(m) ==
  odds'.toggles = 0 =>
    /\ odds.toggles = 0 /\ odds'.want = odds.want
    /\ ~daemon'[m].forced /\ daemon'[m].why # "forced"

Moves(m) ==
  /\ OnlyOne(m) /\ daemon'[m] \in DaemonType
  /\ daemon'[m].pc # "loop" =>
       daemon'[m].role = "undecided" /\ daemon'[m].why = "start" /\ daemon'[m].met = {}
  /\ Aged(m) /\ Calm(m)
  /\ \A p \in air' : p \in air \/ (Fresh(p, m) /\ daemon'[m].pc # "off")

\* The types of what is counted.
Tallied ==
  /\ odds'.stops \in Nat /\ odds'.toggles \in Nat /\ odds'.want \in [Dev -> {"none", "master", "slave"}]
  /\ SameShape

LEMMA ActsMove ==
  ASSUME DiscTyped, Unforced, Timely, NEW m \in Dev, Acts(m)
  PROVE  Moves(m) /\ Tallied
<1>1. daemon[m] \in DaemonType /\ ticks \in 0..MaxTime
  BY DEF DiscTyped
<1>2. /\ daemon[m].pc # "off" => daemon[m].at <= ticks
      /\ odds.toggles = 0 => odds.want[m] = "none" /\ ~daemon[m].forced /\ daemon[m].why # "forced"
  BY DEF Timely, Unforced
<1>3. SameOdds => Tallied
  BY DEF SameOdds, Tallied, DiscTyped, SameShape
<1>4. ticks <= ticks
  BY <1>1, DiscAssumption
<1>5. CASE Starts(m)
  BY <1>1, <1>2, <1>3, <1>4, <1>5 DEF Starts, Moves, Aged, Calm, Now, Adds, SameOdds
<1>6. CASE Follows(m)
  BY <1>1, <1>2, <1>3, <1>6 DEF Follows, Moves, Aged, Calm, Now, Adds, SameOdds
<1>7. CASE Elects(m)
  BY <1>1, <1>2, <1>3, <1>7 DEF Elects, Moves, Aged, Calm, Now, Adds, SameOdds
<1>8. CASE Yields(m)
  BY <1>1, <1>2, <1>3, <1>8 DEF Yields, Meets, Moves, Aged, Calm, Now, SameOdds
<1>9. CASE Wins(m)
  BY <1>1, <1>2, <1>3, <1>9 DEF Wins, Meets, Moves, Aged, Calm, Now, SameOdds
<1>10. CASE Speaks(m)
  BY <1>1, <1>2, <1>3, <1>10 DEF Speaks, Moves, Aged, Calm, Now, Adds, SameOdds
<1>11. CASE Obeys(m)
  BY <1>1, <1>2, <1>3, <1>11 DEF Obeys, Moves, Aged, Calm, SameOdds
<1>12. CASE Stops(m)
  <2>1. Tallied
    BY <1>12 DEF Stops, Tallied, DiscTyped
  <2> QED BY <1>1, <1>2, <1>12, <2>1 DEF Stops, Moves, Aged, Calm, Now
<1> QED BY <1>5, <1>6, <1>7, <1>8, <1>9, <1>10, <1>11, <1>12 DEF Acts

\* What daemons are and when, after an act.
LEMMA MovesTyped ==
  ASSUME DiscTyped, Unforced, Timely, NEW m \in Dev, Moves(m), Tallied
  PROVE  DiscTyped' /\ Unforced' /\ Timely'
<1>1. /\ daemon \in [Dev -> DaemonType] /\ ticks \in 0..MaxTime /\ ticks' = ticks
      /\ daemon' = [n \in Dev |-> daemon'[n]] /\ \A n \in Dev : n # m => daemon'[n] = daemon[n]
      /\ daemon'[m] \in DaemonType
  BY DEF DiscTyped, Moves, OnlyOne, Unmoved
<1>2. daemon' \in [Dev -> DaemonType]
  BY <1>1
<1>3. /\ daemon'[m].at \in 0..MaxTime
      /\ daemon'[m].pc # "off" => daemon'[m].at <= ticks /\ ticks - daemon'[m].at \in 0..MaxTime
  BY <1>1, DiscAssumption DEF Moves, Aged, DaemonType
<1>4. AirTyped'
  <2> SUFFICES ASSUME NEW p \in air'
               PROVE  /\ p.from \in Dev /\ p.to \in Dev /\ p.to # p.from
                      /\ p.at \in 0..MaxTime /\ p.up \in 0..MaxTime
    BY DEF AirTyped
  <2> QED BY <1>1, <1>3 DEF DiscTyped, AirTyped, Moves, Fresh
<1>5. \A n \in Dev : daemon'[n].pc # "loop" =>
        daemon'[n].role = "undecided" /\ daemon'[n].why = "start" /\ daemon'[n].met = {}
  BY <1>1 DEF Moves, DiscTyped
<1>6. DiscTyped'
  BY <1>1, <1>2, <1>4, <1>5 DEF DiscTyped, Tallied, SameShape
<1>7. Unforced'
  BY <1>1 DEF Unforced, Moves, Calm
<1>8. \A n \in Dev : daemon'[n].pc # "off" => daemon'[n].at <= ticks
  BY <1>1, <1>3 DEF Timely
<1>9. ASSUME NEW p \in air'
      PROVE  /\ p.at <= ticks /\ ticks <= p.at + MAX_DELAY
             /\ daemon'[p.from].pc # "off" => p.at <= p.up + daemon'[p.from].at
  <2>1. CASE p \in air
    <3>1. /\ p.from \in Dev /\ p.at \in 0..MaxTime /\ p.up \in 0..MaxTime /\ p.at <= ticks
          /\ ticks <= p.at + MAX_DELAY
          /\ daemon[p.from].pc # "off" => p.at <= p.up + daemon[p.from].at
      BY <2>1 DEF DiscTyped, AirTyped, Timely
    <3>2. CASE p.from # m
      <4>1. daemon'[p.from].pc # "off" => p.at <= p.up + daemon'[p.from].at
        BY <1>1, <3>1, <3>2
      <4> QED BY <3>1, <4>1
    <3>3. CASE p.from = m
      <4>1. daemon'[m].pc # "off" => \/ daemon[m].pc # "off" /\ daemon'[m].at = daemon[m].at
                                    \/ daemon'[m].at = ticks
        BY DEF Moves, Aged
      <4>2. p.at <= ticks /\ p.up >= 0 /\ p.up \in Nat /\ p.at \in Nat /\ ticks \in Nat
        BY <1>1, <3>1, DiscAssumption
      <4>3. p.at <= p.up + ticks
        BY <4>2
      <4>4. daemon'[m].pc # "off" => p.at <= p.up + daemon'[m].at
        BY <3>1, <3>3, <4>1, <4>3
      <4> QED BY <3>1, <3>3, <4>4
    <3> QED BY <3>2, <3>3
  <2>2. CASE Fresh(p, m) /\ daemon'[m].pc # "off"
    BY <1>1, <1>3, <2>2, DiscAssumption DEF Fresh
  <2> QED BY <2>1, <2>2 DEF Moves
<1>10. Timely'
  BY <1>1, <1>8, <1>9 DEF Timely
<1> QED BY <1>6, <1>7, <1>10

LEMMA MovesClose ==
  ASSUME DiscTyped, Unforced, Timely, MetClose, NEW m \in Dev, Acts(m)
  PROVE  MetClose'
<1>1. Moves(m)
  BY ActsMove
<1>2. /\ daemon \in [Dev -> DaemonType] /\ ticks \in 0..MaxTime
      /\ \A n \in Dev : n # m => daemon'[n] = daemon[n]
  BY <1>1 DEF DiscTyped, Moves, OnlyOne, Unmoved
<1>3. \A n \in Dev : daemon'[n].at \in 0..MaxTime /\ daemon[n].at \in 0..MaxTime
  BY <1>1, <1>2 DEF Moves, DaemonType
<1> SUFFICES ASSUME NEW n \in Dev, NEW o \in Dev, o \in daemon'[n].met, daemon'[o].pc # "off"
             PROVE  daemon'[n].at <= daemon'[o].at + MAX_DELAY
  BY DEF MetClose
<1>4. daemon'[n].pc = "loop" /\ daemon'[n].at <= ticks
  BY <1>1, <1>2 DEF Moves, Aged, Timely, DiscTyped
<1>5. CASE o \in daemon[n].met
  <2>1. daemon[n].pc = "loop"
    BY <1>5 DEF DiscTyped
  <2>2. daemon'[n].at = daemon[n].at
    BY <1>1, <1>2, <1>4, <2>1 DEF Moves, Aged
  <2>3. CASE daemon[o].pc # "off"
    <3>1. daemon'[o].at = daemon[o].at
      BY <1>1, <1>2, <2>3 DEF Moves, Aged
    <3> QED BY <1>5, <2>2, <2>3, <3>1 DEF MetClose
  <2>4. CASE daemon[o].pc = "off"
    <3>1. daemon'[o].at = ticks
      BY <1>1, <1>2, <2>4 DEF Moves, Aged
    <3> QED BY <1>2, <1>3, <1>4, <3>1, DiscAssumption
  <2> QED BY <2>3, <2>4
<1>6. CASE o \notin daemon[n].met
  <2>1. n = m
    BY <1>2, <1>6
  <2>2. Wins(m)
    BY <1>6, <2>1 DEF Acts, Starts, Follows, Elects, Yields, Speaks, Obeys, Stops, Now
  <2>3. PICK p \in air : Meets(m, p) /\ WinsElection(m, p) /\ daemon'[m].at = daemon[m].at
                         /\ daemon'[m].met = daemon[m].met \cup {p.from}
    BY <2>2 DEF Wins, Now
  <2>4. o = p.from /\ o # m /\ daemon'[o] = daemon[o]
    BY <1>2, <1>6, <2>1, <2>3 DEF Meets, DiscTyped, AirTyped
  <2>5. /\ p.at \in 0..MaxTime /\ p.up \in 0..MaxTime /\ p.at <= ticks /\ ticks <= p.at + MAX_DELAY
        /\ p.at <= p.up + daemon[o].at
    BY <2>4 DEF DiscTyped, AirTyped, Timely
  <2>6. ticks - daemon[m].at >= p.up
    BY <1>2, <1>3, <2>3, <2>5, DiscAssumption DEF WinsElection, Uptime
  <2> QED BY <1>2, <1>3, <2>1, <2>3, <2>4, <2>5, <2>6, DiscAssumption
<1> QED BY <1>5, <1>6

\* As long as nothing is forced, a daemon that was master stays one, or has yielded.
LEMMA LedStays ==
  ASSUME DiscTyped, Unforced, Timely, NEW m \in Dev, Acts(m), odds'.toggles = 0, odds'.stops = 0,
         NEW o \in Dev, Led(o)
  PROVE  Led(o)' /\ daemon'[o].at = daemon[o].at
<1>1. CASE o # m
  <2>1. daemon'[o] = daemon[o]
    BY <1>1, ActsMove DEF Moves, OnlyOne, Unmoved
  <2> QED BY <2>1 DEF Led
<1>2. CASE o = m
  <2>1. odds.stops \in Nat /\ daemon[m].pc = "loop" /\ (daemon[m].role = "master" \/ daemon[m].why = "yield")
    BY <1>2 DEF DiscTyped, Led
  <2>2. ~Starts(m) /\ ~Follows(m) /\ ~Elects(m)
    BY <2>1 DEF Starts, Follows, Elects
  <2>3. ~Stops(m)
    <3>1. Stops(m) => odds'.stops = odds.stops + 1
      BY DEF Stops
    <3> QED BY <2>1, <3>1
  <2>4. ~Obeys(m)
    BY DEF Obeys, SameOdds
  <2>5. Yields(m) \/ Wins(m) \/ Speaks(m)
    BY <2>2, <2>3, <2>4 DEF Acts
  <2> QED BY <1>2, <2>1, <2>5 DEF Yields, Wins, Speaks, Now, Led
<1> QED BY <1>1, <1>2

\* The packets of masters.
LEMMA RankedPackets ==
  ASSUME DiscTyped, Unforced, Timely, Ranked, NEW m \in Dev, Acts(m), odds'.toggles = 0, odds'.stops = 0,
         odds.stops = 0, NEW p \in air', p.role = "master"
  PROVE  Led(p.from)' /\ p.at = p.up + daemon'[p.from].at
<1>1. Moves(m) /\ odds.toggles = 0
  BY ActsMove DEF Moves, Calm
<1>2. CASE p \in air
  <2>1. Led(p.from) /\ p.at = p.up + daemon[p.from].at /\ p.from \in Dev
    BY <1>1, <1>2 DEF Ranked, DiscTyped, AirTyped
  <2> QED BY <2>1, LedStays
<1>3. CASE Fresh(p, m) /\ daemon'[m].pc # "off"
  <2>1. p.from = m /\ p.at = ticks /\ p.up = ticks - daemon'[m].at /\ daemon'[m].role = "master"
    BY <1>3 DEF Fresh
  <2>2. daemon'[m].at \in 0..MaxTime /\ ticks \in 0..MaxTime
    BY <1>1 DEF Moves, DaemonType, DiscTyped
  <2>3. Led(m)'
    BY <1>1, <2>1 DEF Moves, Led
  <2> QED BY <2>1, <2>2, <2>3, DiscAssumption
<1> QED BY <1>1, <1>2, <1>3 DEF Moves

\* Who yields has met one before it.
LEMMA RankedYield ==
  ASSUME DiscTyped, Timely, Ranked, odds.toggles = 0, odds.stops = 0, NEW m \in Dev, Yields(m)
  PROVE  Led(m) /\ \E o \in Dev : Led(o) /\ o # m /\ Before(o, m)
<1>1. PICK p \in air : Meets(m, p) /\ ~WinsElection(m, p)
  BY DEF Yields
<1>2. p.role = "master" /\ p.to = m /\ daemon[m].pc = "loop" /\ daemon[m].role = "master"
  BY <1>1 DEF Meets
<1> DEFINE o == p.from
<1>3. /\ o \in Dev /\ o # m /\ Led(o) /\ p.at = p.up + daemon[o].at /\ p.at <= ticks
      /\ p.at \in 0..MaxTime /\ p.up \in 0..MaxTime
  BY <1>2 DEF DiscTyped, AirTyped, Ranked, Timely
<1>4. ticks \in Nat /\ daemon[m].at \in Nat /\ daemon[o].at \in Nat /\ p.at \in Nat /\ p.up \in Nat
      /\ m \in Nat /\ o \in Nat
  BY <1>3, DiscAssumption DEF DiscTyped, DaemonType
<1>5. ~(ticks - daemon[m].at > p.up \/ (ticks - daemon[m].at = p.up /\ m < o))
  BY <1>1 DEF WinsElection, Uptime
<1>6. Before(o, m)
  <2> HIDE DEF o
  <2> QED BY <1>3, <1>4, <1>5 DEF Before
<1>7. Led(m)
  BY <1>2 DEF Led
<1> QED BY <1>3, <1>6, <1>7

LEMMA MovesRanked ==
  ASSUME DiscTyped, Unforced, Timely, Ranked, NEW m \in Dev, Acts(m)
  PROVE  Ranked'
<1> SUFFICES ASSUME odds'.toggles = 0, odds'.stops = 0
             PROVE  /\ \A p \in air' : p.role = "master" => Led(p.from)' /\ p.at = p.up + daemon'[p.from].at
                    /\ \A n \in Dev : daemon'[n].why = "yield" => \E o \in Dev : Led(o)' /\ Before(o, n)'
  BY DEF Ranked
<1>1. Moves(m) /\ odds.toggles = 0
  BY ActsMove DEF Moves, Calm
<1>2. odds.stops = 0 /\ ~Stops(m) /\ ~Obeys(m)
  <2>1. odds.stops \in Nat
    BY DEF DiscTyped
  <2>2. ~Stops(m)
    <3>1. Stops(m) => odds'.stops = odds.stops + 1
      BY DEF Stops
    <3> QED BY <2>1, <3>1
  <2>3. ~Obeys(m)
    BY <1>1 DEF Obeys
  <2> QED BY <2>2, <2>3 DEF Acts, Starts, Follows, Elects, Yields, Wins, Meets, Speaks, SameOdds
<1>3. \A p \in air' : p.role = "master" => Led(p.from)' /\ p.at = p.up + daemon'[p.from].at
  BY <1>2, RankedPackets
<1>4. ASSUME NEW n \in Dev, daemon'[n].why = "yield"
      PROVE  \E o \in Dev : Led(o)' /\ Before(o, n)'
  <2>1. \E o \in Dev : Led(o) /\ Before(o, n) /\ daemon'[n].at = daemon[n].at
    <3>1. CASE n # m
      BY <1>1, <1>2, <1>4, <3>1 DEF Ranked, Moves, OnlyOne, Unmoved
    <3>2. CASE n = m /\ Yields(m)
      BY <1>1, <1>2, <3>2, RankedYield DEF Yields, Now
    <3>3. CASE n = m /\ ~Yields(m)
      <4>1. Wins(m) \/ Speaks(m)
        BY <1>2, <1>4, <3>3 DEF Acts, Starts, Follows, Elects, Now
      <4>2. daemon[m].why = "yield" /\ daemon'[m].at = daemon[m].at
        BY <1>4, <3>3, <4>1 DEF Wins, Speaks, Now
      <4> QED BY <1>1, <1>2, <3>3, <4>2 DEF Ranked
    <3> QED BY <3>1, <3>2, <3>3
  <2>2. PICK o \in Dev : Led(o) /\ Before(o, n) /\ daemon'[n].at = daemon[n].at
    BY <2>1
  <2>3. Led(o)' /\ daemon'[o].at = daemon[o].at
    BY <2>2, LedStays
  <2>4. Before(o, n)'
    BY <2>2, <2>3 DEF Before
  <2> QED BY <2>3, <2>4
<1> QED BY <1>3, <1>4

LessThan == {p \in Nat \X Nat : p[1] < p[2]}

\* Every set of numbers that is not empty has a least one.
LEMMA LeastNumber ==
  ASSUME NEW S \in SUBSET Nat, S # {}
  PROVE  \E i \in S : \A k \in S : i <= k
<1>1. LessThan = OpToRel(<, Nat)
  BY DEF LessThan, OpToRel
<1>2. PICK i \in S : \A k \in S : <<k, i>> \notin LessThan
  <2>1. IsWellFoundedOn(LessThan, Nat)
    BY <1>1, NatLessThanWellFounded
  <2> QED BY <2>1, WFMin
<1>4. ASSUME NEW k \in S
      PROVE  i <= k
  <2>1. i \in Nat /\ k \in Nat /\ <<k, i>> \in Nat \X Nat /\ <<k, i>> \notin LessThan
    BY <1>2
  <2> QED BY <2>1 DEF LessThan
<1> QED BY <1>4

\* If a daemon was master and no daemon has stopped, one is: the first of them in the order.
LEMMA FirstLeads ==
  ASSUME DiscTyped, Ranked, odds.toggles = 0, odds.stops = 0, NEW l \in Dev, Led(l)
  PROVE  \E m \in Dev : daemon[m].role = "master" /\ \A o \in Dev : Led(o) => ~Before(o, m)
<1> DEFINE Times == {daemon[o].at : o \in {o \in Dev : Led(o)}}
<1>1. \A o \in Dev : daemon[o].at \in Nat /\ o \in Nat
  BY DiscAssumption DEF DiscTyped, DaemonType
<1>2. Times \in SUBSET Nat /\ Times # {}
  BY <1>1
<1>3. PICK t \in Times : \A u \in Times : t <= u
  BY <1>2, LeastNumber
<1> DEFINE Oldest == {o \in Dev : Led(o) /\ daemon[o].at = t}
<1>4. Oldest \in SUBSET Nat /\ Oldest # {}
  BY <1>1, <1>3
<1>5. PICK m \in Oldest : \A o \in Oldest : m <= o
  <2> HIDE DEF Oldest
  <2> QED BY <1>4, LeastNumber
<1>6. m \in Dev /\ Led(m) /\ daemon[m].at = t
  BY <1>5
<1>7. ASSUME NEW o \in Dev, Led(o)
      PROVE  ~Before(o, m)
  <2>1. t <= daemon[o].at /\ (daemon[o].at = t => m <= o)
    BY <1>3, <1>5, <1>7
  <2> QED BY <1>1, <1>6, <2>1 DEF Before
<1>8. daemon[m].why # "yield"
  BY <1>6, <1>7 DEF Ranked
<1> QED BY <1>6, <1>7, <1>8 DEF Led

\* Some daemon settles after every act: the one before it, or the one that acts.
LEMMA MovesSettling ==
  ASSUME DiscTyped, Unforced, Timely, Ranked, Settling, NEW m \in Dev, Acts(m)
  PROVE  Settling'
<1> SUFFICES ASSUME odds'.toggles = 0
             PROVE  \E n \in Dev : Settles(n)'
  BY DEF Settling
<1>1. Moves(m) /\ odds.toggles = 0 /\ Tallied
  BY ActsMove DEF Moves, Calm
<1>2. PICK w \in Dev : Settles(w)
  BY <1>1 DEF Settling
<1>3. \A n \in Dev : n # m => daemon'[n] = daemon[n]
  BY <1>1 DEF Moves, OnlyOne, Unmoved
<1>4. odds'.stops >= odds.stops /\ odds.stops \in Nat /\ odds'.stops \in Nat
  <2>1. odds.stops \in Nat
    BY DEF DiscTyped
  <2>2. odds' = odds \/ odds'.stops = odds.stops + 1
    BY DEF Acts, Starts, Follows, Elects, Yields, Wins, Meets, Speaks, Obeys, Stops, SameOdds
  <2> QED BY <2>1, <2>2
<1>5. CASE daemon'[m].role = "master"
  BY <1>5 DEF Settles
<1>6. CASE Stops(m)
  BY <1>6 DEF Stops, Now, Settles
<1>7. CASE Elects(m)
  BY <1>7 DEF Elects, Now, Settles
<1>8. CASE Yields(m)
  <2>1. daemon'[m].why = "yield" /\ daemon'[m].pc = "loop" /\ odds' = odds
    BY <1>8 DEF Yields, Meets, Now, SameOdds
  <2>2. CASE odds.stops > 0
    BY <2>1, <2>2 DEF Settles
  <2>3. CASE odds.stops = 0
    <3>1. PICK o \in Dev : Led(o) /\ Before(o, m)
      BY <1>1, <1>8, <2>3, RankedYield
    <3>2. PICK n \in Dev : daemon[n].role = "master" /\ ~Before(o, n)
      BY <1>1, <2>3, <3>1, FirstLeads
    <3>3. n # m
      BY <3>1, <3>2
    <3> QED BY <1>3, <3>2, <3>3 DEF Settles
  <2> QED BY <1>4, <2>2, <2>3
<1>9. CASE (Starts(m) \/ Follows(m) \/ Wins(m) \/ Speaks(m) \/ Obeys(m)) /\ daemon'[m].role # "master"
  <2>1. \A p \in air' : p \in air \/ p.role # "master"
    BY <1>1, <1>9 DEF Moves, Fresh
  <2>2. CASE w # m
    BY <1>2, <1>3, <1>4, <2>1, <2>2 DEF Settles
  <2>3. CASE w = m
    <3>1. CASE Starts(m)
      <4>1. daemon[m].role = "undecided" /\ daemon[m].why = "start" /\ odds.want[m] = "none"
        BY <1>1, <3>1 DEF Starts, DiscTyped, Unforced
      <4>2. daemon'[m].pc = "electing"
        BY <3>1, <4>1 DEF Starts, Now
      <4> QED BY <1>2, <2>1, <2>3, <4>1, <4>2 DEF Settles
    <3>2. CASE Follows(m)
      <4>1. daemon[m].role = "undecided" /\ daemon[m].why = "start" /\ \E p \in air : p.to = m /\ p.role = "master"
        BY <3>2 DEF Follows, DiscTyped
      <4> QED BY <1>2, <2>3, <4>1 DEF Settles
    <3>3. CASE Wins(m)
      BY <1>9, <3>3 DEF Wins, Now
    <3>4. CASE Speaks(m)
      <4>1. daemon'[m].role = daemon[m].role /\ daemon'[m].why = daemon[m].why /\ daemon[m].pc = "loop"
            /\ odds' = odds
        BY <3>4 DEF Speaks, Now, SameOdds
      <4> QED BY <1>2, <2>3, <4>1 DEF Settles
    <3>5. CASE Obeys(m)
      BY <1>1, <3>5 DEF Obeys
    <3> QED BY <1>9, <3>1, <3>2, <3>3, <3>4, <3>5
  <2> QED BY <2>2, <2>3
<1> QED BY <1>5, <1>6, <1>7, <1>8, <1>9 DEF Acts

-----------------------------------------------------------------------------
(* Discovery: the invariant holds, and the roles settle. *)

LEMMA DiscStarts == DiscInit => DiscInv
<1> SUFFICES ASSUME DiscInit PROVE DiscInv
  OBVIOUS
<1>1. /\ daemon = [m \in Dev |-> Stopped] /\ air = {} /\ ticks = 0
      /\ odds = [stops |-> 0, toggles |-> 0, want |-> [m \in Dev |-> "none"]]
  BY DEF DiscInit
<1>2. /\ \A m \in Dev : daemon[m].pc = "off" /\ daemon[m].role = "undecided" /\ daemon[m].why = "start"
                        /\ daemon[m].met = {} /\ daemon[m].forced = FALSE
      /\ odds.stops = 0 /\ odds.toggles = 0 /\ odds.want = [m \in Dev |-> "none"]
  BY <1>1 DEF Stopped
<1>3. DiscTyped
  <2>1. daemon \in [Dev -> DaemonType]
    BY <1>1, DaemonNames
  <2>2. 0 \in 0..MaxTime
    BY DiscAssumption
  <2>3. AirTyped
    BY <1>1 DEF AirTyped
  <2> QED BY <1>1, <1>2, <2>1, <2>2, <2>3 DEF DiscTyped
<1>4. PICK w \in Dev : TRUE
  BY DiscAssumption
<1>5. Settles(w)
  BY <1>1, <1>2 DEF Settles
<1> QED BY <1>1, <1>2, <1>3, <1>4, <1>5 DEF DiscInv, Unforced, Timely, Ranked, Settling, MetClose

LEMMA DiscStep == DiscInv /\ [DiscNext]_discVars => DiscInv'
<1> SUFFICES ASSUME DiscInv, [DiscNext]_discVars PROVE DiscInv'
  OBVIOUS
<1>1. DiscTyped /\ Unforced /\ Timely /\ Ranked /\ Settling /\ MetClose
  BY DEF DiscInv
<1>2. CASE Quiet
  <2>1. daemon' = daemon /\ ticks' = ticks /\ odds' = odds /\ \A p \in air' : p \in air
    BY <1>2 DEF Quiet
  <2>2. DiscTyped' /\ Unforced' /\ Timely'
    BY <1>1, <2>1 DEF DiscTyped, AirTyped, Unforced, Timely
  <2>3. \A m \in Dev : Settles(m) => Settles(m)'
    BY <2>1 DEF Settles
  <2>4. Ranked' /\ Settling' /\ MetClose'
    BY <1>1, <2>1, <2>3 DEF Ranked, Led, Before, Settling, MetClose
  <2> QED BY <2>2, <2>4 DEF DiscInv
<1>3. CASE Passes
  <2>1. daemon' = daemon /\ air' = air /\ odds' = odds
    BY <1>3 DEF Passes
  <2>2. ticks \in Nat /\ MaxTime \in Nat /\ ticks < MaxTime /\ ticks' = ticks + 1
    BY <1>1, <1>3, DiscAssumption DEF DiscTyped, Passes
  <2>3. ticks' \in 0..MaxTime /\ \A i \in 0..MaxTime : i <= ticks => i <= ticks'
    BY <2>2
  <2>4. DiscTyped' /\ Unforced'
    BY <1>1, <2>1, <2>3 DEF DiscTyped, AirTyped, Unforced
  <2>5. Timely'
    <3>1. \A m \in Dev : daemon[m].at \in 0..MaxTime
      BY <1>1 DEF DiscTyped, DaemonType
    <3>2. ASSUME NEW p \in air
          PROVE  p.at <= ticks' /\ ticks' <= p.at + MAX_DELAY
      <4>1. p.at \in Nat /\ p.at \in 0..MaxTime /\ p.at <= ticks /\ ticks - p.at < MAX_DELAY
        BY <1>1, <1>3, DiscAssumption DEF DiscTyped, AirTyped, Timely, Passes
      <4> QED BY <2>2, <4>1, DiscAssumption
    <3> QED BY <1>1, <2>1, <2>3, <3>1, <3>2 DEF Timely
  <2>6. Ranked' /\ Settling' /\ MetClose'
    BY <1>1, <2>1 DEF Ranked, Led, Before, Settling, Settles, MetClose
  <2> QED BY <2>4, <2>5, <2>6 DEF DiscInv
<1>4. CASE Forces
  <2>1. daemon' = daemon /\ air' = air /\ ticks' = ticks /\ odds'.toggles = odds.toggles + 1
        /\ odds'.stops = odds.stops
    BY <1>4 DEF Forces
  <2>2. odds.toggles \in Nat /\ odds.stops \in Nat
    BY <1>1 DEF DiscTyped
  <2>3. odds'.toggles # 0 /\ odds'.toggles \in Nat /\ odds'.stops \in Nat
    BY <2>1, <2>2
  <2>4. DiscTyped'
    BY <1>1, <1>4, <2>1, <2>3 DEF DiscTyped, AirTyped, Forces, SameShape
  <2>5. Unforced' /\ Ranked' /\ Settling'
    BY <2>3 DEF Unforced, Ranked, Settling
  <2>6. Timely' /\ MetClose'
    BY <1>1, <2>1 DEF Timely, MetClose
  <2> QED BY <2>4, <2>5, <2>6 DEF DiscInv
<1>5. ASSUME NEW m \in Dev, Acts(m)
      PROVE  DiscInv'
  <2>1. Moves(m) /\ Tallied
    BY <1>1, <1>5, ActsMove
  <2>2. DiscTyped' /\ Unforced' /\ Timely'
    BY <1>1, <2>1, MovesTyped
  <2>3. Ranked' /\ Settling' /\ MetClose'
    BY <1>1, <1>5, MovesRanked, MovesSettling, MovesClose
  <2> QED BY <2>2, <2>3 DEF DiscInv
<1> QED BY <1>1, <1>2, <1>3, <1>4, <1>5, DiscKinds

LEMMA DiscMeans == DiscInv => RolesSettle
<1> SUFFICES ASSUME DiscInv PROVE RolesSettle
  OBVIOUS
<1>1. ASSUME odds.toggles = 0, \A m \in Dev : daemon[m].pc = "loop"
      PROVE  \E m \in Dev : \/ daemon[m].role = "master" \/ daemon[m].why = "older"
                            \/ daemon[m].why = "yield" /\ odds.stops > 0
  BY <1>1 DEF DiscInv, Settling, Settles
<1>2. ASSUME NEW m \in Dev, NEW o \in Dev, o \in daemon[m].met, daemon[o].role = "master"
      PROVE  daemon[m].at <= daemon[o].at + MAX_DELAY
  <2>1. daemon[o].pc # "off"
    BY <1>2 DEF DiscInv, DiscTyped
  <2> QED BY <1>2, <2>1 DEF DiscInv, MetClose
<1> QED BY <1>1, <1>2 DEF RolesSettle

\* RolesSettle for any number of daemons, any delay of packets, any length of an election, with
\* packets lost and daemons stopped at any moment (lan_discovery.rs: run_discovery_loop): with no
\* role forced, the end of all elections leaves a master, or a slave that RolesSettle names; and two
\* masters that have met started within MAX_DELAY of each other.
THEOREM RolesTheorem == DiscSpec => []RolesSettle
<1>1. DiscInit => DiscInv
  BY DiscStarts
<1>2. DiscInv /\ [DiscNext]_discVars => DiscInv'
  BY DiscStep
<1>3. DiscInv => RolesSettle
  BY DiscMeans
<1> QED BY <1>1, <1>2, <1>3, PTL DEF DiscSpec
=============================================================================
