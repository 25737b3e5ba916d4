---------------------------- MODULE TrackerProofs ----------------------------
(***************************************************************************)
(* The tracker loses no credited second without a reason, credits no       *)
(* second twice and keeps sessions apart from absence: for any             *)
(* applications, lengths of a day, a session gap and a poll, and bounds.   *)
(* The invariant has three parts.  Ledger: what memory and the store hold  *)
(* of a day is what was credited to it.  Spans: an open session has seen   *)
(* no absence, and while the loop records, what is not open ended before   *)
(* the tick.  Counted: memory may fall behind the store when a day could   *)
(* not be loaded, so the larger of the two is summed up.                   *)
(***************************************************************************)
EXTENDS Tracker, FiniteSetTheorems, FunctionTheorems, WellFoundedInduction, TLAPS

\* The seconds of an application that the store holds of a day.
InStore(d, x) == IF store[d] = NoDay THEN 0 ELSE store[d].total[x]

\* The books: what memory and the store hold of a day is what was credited to it.
Ledger ==
  /\ mem.day = DayOf(clock)
  /\ \A d \in TrkDays : store[d] # NoDay => store[d].day = d
  /\ \A d \in TrkDays : d > mem.day => store[d] = NoDay /\ \A x \in Exes : credit[d][x] = 0
  /\ \A d \in TrkDays \ excuse : d # mem.day => \A x \in Exes : InStore(d, x) = credit[d][x]
  /\ mem.day \notin excuse => \A x \in Exes : mem.total[x] = credit[mem.day][x]
  /\ at = "stopped" /\ mem.day \notin excuse => store[mem.day] = mem

\* Sessions that do not overlap and do not run over a moment of A.
Orderly(spans, A) ==
  \A i \in 1..Len(spans) :
    /\ \A t \in A : ~(spans[i].s < t /\ t < spans[i].e)
    /\ \A j \in 1..(i - 1) : spans[j].e <= spans[i].s

Before(spans, t) == \A i \in 1..Len(spans) : spans[i].e <= t

\* The second up to which the loop has recorded.
Reached == IF at = "bottom" THEN clock - dt ELSE clock

\* The last session of an application that was last recorded at `last' is open.
Open(spans, last, A) ==
  last # NoExe => /\ spans # <<>> /\ spans[Len(spans)].e = last
                  /\ \A t \in A : t < last

Spans ==
  /\ \A d \in TrkDays : store[d] # NoDay =>
       \A x \in Exes : Orderly(store[d].spans[x], away) /\ Before(store[d].spans[x], clock)
  /\ \A x \in Exes : /\ Orderly(mem.spans[x], away) /\ Before(mem.spans[x], Reached)
                     /\ Open(mem.spans[x], active[x], away)
  /\ was_idle => active = NothingActive
  /\ \A t \in away : t <= Reached

\* The seconds that will count for the day once memory is saved, or loaded again.
InMemory(d, x) == IF d = mem.day THEN mem.total[x] ELSE 0
Most(d, x) == IF InStore(d, x) < InMemory(d, x) THEN InMemory(d, x) ELSE InStore(d, x)
Counted == \A x \in Exes : OverAllDays([d \in TrkDays |-> Most(d, x)]) <= used

Bounds == clock <= TrkEnd /\ (at = "bottom" => dt \in 1..clock)

TrkInv == TrkTypeOK /\ Bounds /\ Ledger /\ Spans /\ Counted

-----------------------------------------------------------------------------
(* Days and the sum over them. *)

\* A later second lies in the same day or a later one.
LEMMA DayOfGrows ==
  ASSUME NEW s \in Nat, NEW t \in Nat, s <= t
  PROVE  DayOf(s) \in Nat /\ DayOf(s) <= DayOf(t)
<1>1. DAY \in Nat \ {0}
  BY TrackerAssumption
<1>2. /\ DayOf(s) \in Nat /\ DAY * DayOf(s) <= s
      /\ DayOf(t) \in Nat /\ t < DAY * (DayOf(t) + 1)
  BY <1>1, Z3 DEF DayOf
<1>3. ASSUME DayOf(t) < DayOf(s)
      PROVE  FALSE
  <2>1. DAY * (DayOf(t) + 1) <= DAY * DayOf(s)
    BY <1>1, <1>2, <1>3, Z3
  <2> QED BY <1>1, <1>2, <2>1, Z3
<1> QED BY <1>2, <1>3

Numbered == {p \in Nat \X Nat : p[1] < p[2]}

\* Every set of numbers that is not empty has a least one.
LEMMA NumberedWellFounded == IsWellFoundedOn(Numbered, Nat)
<1>1. Numbered = OpToRel(<, Nat)
  BY DEF Numbered, OpToRel
<1> QED BY <1>1, NatLessThanWellFounded

\* T adds up f over the days up to n.
Adds(T, f, n) == T = [d \in 0..n |-> f[d] + (IF d = 0 THEN 0 ELSE T[d - 1])]

\* There is such a sum for every entry up to N.
LEMMA Adding ==
  ASSUME NEW N \in Nat, NEW f \in [0..N -> Nat], NEW n \in 0..N
  PROVE  \E T \in [0..n -> Nat] : Adds(T, f, n)
<1> DEFINE Fails == {k \in 0..N : ~ \E T \in [0..k -> Nat] : Adds(T, f, k)}
<1> SUFFICES ASSUME Fails # {}
             PROVE  FALSE
  BY Zenon
<1>1. PICK k \in Fails : \A j \in Fails : <<j, k>> \notin Numbered
  <2>1. Fails \in SUBSET Nat
    OBVIOUS
  <2> QED BY <2>1, NumberedWellFounded, WFMin
<1>2. CASE k = 0
  <2> DEFINE T == [d \in 0..0 |-> f[d]]
  <2>1. T \in [0..0 -> Nat]
    OBVIOUS
  <2>2. Adds(T, f, 0)
    BY DEF Adds
  <2> QED BY <1>2, <2>1, <2>2
<1>3. CASE k # 0
  <2>1. k - 1 \in 0..N /\ <<k - 1, k>> \in Numbered
    BY <1>3 DEF Numbered
  <2>2. PICK S \in [0..(k - 1) -> Nat] : Adds(S, f, k - 1)
    BY <1>1, <2>1
  <2> DEFINE T == [d \in 0..k |-> IF d = k THEN f[k] + S[k - 1] ELSE S[d]]
  <2>3. T \in [0..k -> Nat]
    <3>1. k \in 0..N /\ k - 1 \in 0..(k - 1) /\ f[k] \in Nat /\ S[k - 1] \in Nat
      BY <1>3
    <3>2. \A d \in 0..k : d # k => d \in 0..(k - 1)
      BY <3>1
    <3> QED BY <3>1, <3>2
  <2>4. \A d \in 0..k : T[d] = f[d] + (IF d = 0 THEN 0 ELSE T[d - 1])
    <3> TAKE d \in 0..k
    <3>1. CASE d = k
      BY <1>3, <3>1
    <3>2. CASE d # k
      <4>1. d \in 0..(k - 1) /\ T[d] = S[d]
        BY <3>2
      <4>2. S[d] = f[d] + (IF d = 0 THEN 0 ELSE S[d - 1])
        BY <2>2, <4>1 DEF Adds
      <4>3. d # 0 => T[d - 1] = S[d - 1]
        BY <3>2
      <4> QED BY <4>1, <4>2, <4>3
    <3> QED BY <3>1, <3>2
  <2>5. Adds(T, f, k)
    BY <2>3, <2>4 DEF Adds
  <2> QED BY <2>3, <2>5
<1> QED BY <1>2, <1>3

\* OverAllDays is such a sum.
LEMMA DaysAdded ==
  ASSUME NEW f \in [TrkDays -> Nat]
  PROVE  \E T \in [TrkDays -> Nat] :
           /\ \A d \in TrkDays : T[d] = f[d] + (IF d = 0 THEN 0 ELSE T[d - 1])
           /\ OverAllDays(f) = T[DayOf(TrkEnd)]
<1> DEFINE N == DayOf(TrkEnd)
           T == CHOOSE T : Adds(T, f, N)
<1>1. N \in Nat
  BY TrackerAssumption, DayOfGrows
<1>2. PICK S \in [0..N -> Nat] : Adds(S, f, N)
  BY <1>1, Adding DEF TrkDays
<1>3. Adds(T, f, N)
  BY <1>2
<1>4. T = [d \in 0..N |-> f[d] + (IF d = 0 THEN 0 ELSE T[d - 1])]
  BY <1>3 DEF Adds
<1>5. OverAllDays(f) = T[N]
  BY DEF OverAllDays, Adds, TrkDays
<1> HIDE DEF T
<1>6. \A d \in 0..N : T[d] = f[d] + (IF d = 0 THEN 0 ELSE T[d - 1])
  BY <1>4, Zenon
<1>7. DOMAIN T = 0..N
  BY <1>4
<1>8. \A d \in 0..N : T[d] \in Nat
  <2> DEFINE Fails == {k \in 0..N : T[k] \notin Nat}
  <2> SUFFICES ASSUME Fails # {}
               PROVE  FALSE
    OBVIOUS
  <2>1. Fails \in SUBSET Nat
    OBVIOUS
  <2>2. PICK k \in Fails : \A j \in Fails : <<j, k>> \notin Numbered
    BY <2>1, NumberedWellFounded, WFMin
  <2>3. k \in 0..N /\ T[k] \notin Nat /\ f[k] \in Nat
    BY DEF TrkDays
  <2>4. ASSUME k # 0
        PROVE  k - 1 \in 0..N /\ T[k - 1] \in Nat
    <3>1. k - 1 \in 0..N /\ <<k - 1, k>> \in Numbered
      BY <1>1, <2>3, <2>4 DEF Numbered
    <3> QED BY <2>2, <3>1
  <2> QED BY <1>6, <2>3, <2>4
<1>9. T \in [0..N -> Nat]
  BY <1>4, <1>7, <1>8
<1> QED BY <1>5, <1>6, <1>9 DEF TrkDays

\* A sum grows at most by what a single entry grows by.
LEMMA SumGrows ==
  ASSUME NEW f \in [TrkDays -> Nat], NEW g \in [TrkDays -> Nat],
         NEW k \in TrkDays, NEW n \in Nat,
         \A d \in TrkDays : IF d = k THEN g[d] <= f[d] + n ELSE g[d] <= f[d]
  PROVE  /\ OverAllDays(f) \in Nat /\ OverAllDays(g) \in Nat
         /\ OverAllDays(g) <= OverAllDays(f) + n
<1> DEFINE N == DayOf(TrkEnd)
<1>1. N \in Nat /\ TrkDays = 0..N
  BY TrackerAssumption, DayOfGrows DEF TrkDays
<1>2. PICK F \in [TrkDays -> Nat] :
        /\ \A d \in TrkDays : F[d] = f[d] + (IF d = 0 THEN 0 ELSE F[d - 1])
        /\ OverAllDays(f) = F[N]
  BY DaysAdded
<1>3. PICK G \in [TrkDays -> Nat] :
        /\ \A d \in TrkDays : G[d] = g[d] + (IF d = 0 THEN 0 ELSE G[d - 1])
        /\ OverAllDays(g) = G[N]
  BY DaysAdded
<1> DEFINE Slack(d) == IF d < k THEN 0 ELSE n
           Fails == {d \in TrkDays : ~ (G[d] <= F[d] + Slack(d))}
<1>4. Fails = {}
  <2> SUFFICES ASSUME Fails # {}
               PROVE  FALSE
    OBVIOUS
  <2>1. Fails \in SUBSET Nat
    BY <1>1
  <2>2. PICK d \in Fails : \A j \in Fails : <<j, d>> \notin Numbered
    BY <2>1, NumberedWellFounded, WFMin
  <2>3. /\ d \in 0..N /\ k \in 0..N /\ f[d] \in Nat /\ g[d] \in Nat
        /\ F[d] \in Nat /\ G[d] \in Nat
    BY <1>1
  <2>4. ASSUME d # 0
        PROVE  /\ d - 1 \in 0..N /\ F[d - 1] \in Nat /\ G[d - 1] \in Nat
               /\ G[d - 1] <= F[d - 1] + Slack(d - 1)
    <3>1. d - 1 \in 0..N /\ <<d - 1, d>> \in Numbered
      BY <1>1, <2>3, <2>4, SMTT(30) DEF Numbered
    <3>2. d - 1 \notin Fails
      BY <2>2, <3>1
    <3> QED BY <1>1, <3>1, <3>2
  <2>5. /\ F[d] = f[d] + (IF d = 0 THEN 0 ELSE F[d - 1])
        /\ G[d] = g[d] + (IF d = 0 THEN 0 ELSE G[d - 1])
        /\ IF d = k THEN g[d] <= f[d] + n ELSE g[d] <= f[d]
        /\ ~ (G[d] <= F[d] + Slack(d))
    BY <1>2, <1>3
  <2>6. CASE d = 0
    BY <2>3, <2>5, <2>6
  <2>7. CASE d # 0
    BY <2>3, <2>4, <2>5, <2>7
  <2> QED BY <2>6, <2>7
<1>5. N \in TrkDays /\ ~(N < k) /\ G[N] \in Nat /\ F[N] \in Nat
  BY <1>1
<1> QED BY <1>2, <1>3, <1>4, <1>5

-----------------------------------------------------------------------------
(* Recording. *)

Rec == [mem: DayData, active: [Exes -> Nat \cup {NoExe}], credit: [TrkDays -> [Exes -> Nat]]]

\* q records of application x up to n seconds more than r, and credits as many.
Gains(q, r, x, n) ==
  \E k \in 0..n : /\ q.mem.total[x] = r.mem.total[x] + k
                  /\ q.credit[r.mem.day][x] = r.credit[r.mem.day][x] + k

SameDay(q, r) ==
  /\ q.mem.day = r.mem.day
  /\ \A d \in TrkDays : d # r.mem.day => q.credit[d] = r.credit[d]

SameApp(q, r, x) ==
  /\ q.mem.total[x] = r.mem.total[x] /\ q.mem.spans[x] = r.mem.spans[x]
  /\ q.active[x] = r.active[x] /\ q.credit[r.mem.day][x] = r.credit[r.mem.day][x]

NewSpans(spans, last, n) ==
  IF last # NoExe /\ clock - last < SESSION_GAP
  THEN IF spans = <<>> THEN spans ELSE [spans EXCEPT ![Len(spans)].e = clock]
  ELSE Append(spans, [s |-> clock - n, e |-> clock])

\* A session that begins n seconds ago began at a second, not before them all.
LEMMA NewSpansType ==
  ASSUME NEW spans \in Seq(Span), NEW last, NEW n \in Nat, clock \in Nat, n <= clock
  PROVE  NewSpans(spans, last, n) \in Seq(Span)
<1>1. [s |-> clock - n, e |-> clock] \in Span
  BY DEF Span
<1>2. Append(spans, [s |-> clock - n, e |-> clock]) \in Seq(Span)
  BY <1>1
<1>3. spans # <<>> => [spans EXCEPT ![Len(spans)].e = clock] \in Seq(Span)
  <2> HAVE spans # <<>>
  <2> DEFINE k == Len(spans)
  <2>1. k \in 1..Len(spans) /\ spans[k] \in Span
    OBVIOUS
  <2>2. [spans[k] EXCEPT !.e = clock] \in Span
    BY <2>1 DEF Span
  <2>3. [spans EXCEPT ![k] = [spans[k] EXCEPT !.e = clock]] \in Seq(Span)
    BY <2>1, <2>2
  <2> QED BY <2>3
<1> QED BY <1>2, <1>3 DEF NewSpans

\* A day's data with the seconds and the sessions of one application replaced.
LEMMA TwoUpdates ==
  ASSUME NEW m \in DayData, NEW x \in Exes, NEW n, NEW w
  PROVE  [m EXCEPT !.total[x] = @ + n, !.spans[x] = w] =
           [day |-> m.day, total |-> [m.total EXCEPT ![x] = @ + n],
            spans |-> [m.spans EXCEPT ![x] = w]]
<1> DEFINE t == [m EXCEPT !.total = [m.total EXCEPT ![x] = @ + n]]
<1>1. m = [day |-> m.day, total |-> m.total, spans |-> m.spans]
  BY DEF DayData
<1>2. t = [day |-> m.day, total |-> [m.total EXCEPT ![x] = @ + n], spans |-> m.spans]
  BY <1>1
<1>3. t.spans = m.spans
  BY <1>2
<1> HIDE DEF t
<1>4. [t EXCEPT !.spans = [t.spans EXCEPT ![x] = w]] =
        [day |-> m.day, total |-> [m.total EXCEPT ![x] = @ + n],
         spans |-> [m.spans EXCEPT ![x] = w]]
  BY <1>2, <1>3
<1> QED BY <1>4 DEF t

\* What record_app_activity changes, and what it leaves alone.
LEMMA Records ==
  ASSUME NEW r \in Rec, NEW x \in Exes, NEW n \in Nat, clock \in Nat, n <= clock
  PROVE  LET q == record_app_activity(r, x, n)
         IN /\ q \in Rec /\ SameDay(q, r)
            /\ \A y \in Exes : y # x => SameApp(q, r, y)
            /\ q.mem.total[x] = r.mem.total[x] + n
            /\ q.credit[r.mem.day][x] = r.credit[r.mem.day][x] + n
            /\ q.mem.spans[x] = NewSpans(r.mem.spans[x], r.active[x], n)
            /\ q.active[x] = clock
<1> DEFINE q == record_app_activity(r, x, n)
           new == NewSpans(r.mem.spans[x], r.active[x], n)
           m == [day |-> r.mem.day, total |-> [r.mem.total EXCEPT ![x] = @ + n],
                 spans |-> [r.mem.spans EXCEPT ![x] = new]]
           a == [r.active EXCEPT ![x] = clock]
           c == [r.credit EXCEPT ![r.mem.day] = [r.credit[r.mem.day] EXCEPT ![x] = @ + n]]
<1>1. /\ r = [mem |-> r.mem, active |-> r.active, credit |-> r.credit]
      /\ r.mem = [day |-> r.mem.day, total |-> r.mem.total, spans |-> r.mem.spans]
      /\ r.mem.day \in TrkDays /\ r.mem.total \in [Exes -> Nat]
      /\ r.mem.spans \in [Exes -> Seq(Span)] /\ r.active \in [Exes -> Nat \cup {NoExe}]
      /\ r.credit \in [TrkDays -> [Exes -> Nat]]
  BY DEF Rec, DayData
<1>2. new \in Seq(Span)
  BY <1>1, NewSpansType
<1>3. new = IF Extends(r, x)
            THEN IF r.mem.spans[x] = <<>> THEN r.mem.spans[x]
                 ELSE [r.mem.spans[x] EXCEPT ![Len(r.mem.spans[x])].e = clock]
            ELSE Append(r.mem.spans[x], [s |-> clock - n, e |-> clock])
  BY DEF NewSpans, Extends
<1> HIDE DEF new
<1>4. [r.mem EXCEPT !.total[x] = @ + n, !.spans[x] = new] = m
  <2>1. r.mem \in DayData
    BY DEF Rec
  <2> QED BY <2>1, TwoUpdates
<1>5. q = [mem |-> m, active |-> a, credit |-> c]
  BY <1>1, <1>3, <1>4 DEF record_app_activity
<1>6. m \in DayData
  BY <1>1, <1>2 DEF DayData
<1>7. a \in [Exes -> Nat \cup {NoExe}] /\ c \in [TrkDays -> [Exes -> Nat]]
  BY <1>1
<1>8. /\ m.day = r.mem.day /\ m.total[x] = r.mem.total[x] + n /\ m.spans[x] = new
      /\ \A y \in Exes : y # x => m.total[y] = r.mem.total[y] /\ m.spans[y] = r.mem.spans[y]
  BY <1>1
<1>9. /\ a[x] = clock /\ c[r.mem.day][x] = r.credit[r.mem.day][x] + n
      /\ \A y \in Exes : y # x => a[y] = r.active[y] /\ c[r.mem.day][y] = r.credit[r.mem.day][y]
      /\ \A d \in TrkDays : d # r.mem.day => c[d] = r.credit[d]
  BY <1>1
<1> HIDE DEF m, a, c
<1>10. q \in Rec /\ q.mem = m /\ q.active = a /\ q.credit = c
  BY <1>5, <1>6, <1>7 DEF Rec
<1> HIDE DEF q
<1>11. SameDay(q, r)
  BY <1>8, <1>9, <1>10 DEF SameDay
<1>12. \A y \in Exes : y # x => SameApp(q, r, y)
  BY <1>8, <1>9, <1>10 DEF SameApp
<1>13. /\ q.mem.total[x] = r.mem.total[x] + n /\ q.active[x] = clock
       /\ q.credit[r.mem.day][x] = r.credit[r.mem.day][x] + n /\ q.mem.spans[x] = new
  BY <1>8, <1>9, <1>10
<1> QED BY <1>10, <1>11, <1>12, <1>13 DEF q, new

\* The background records every application of S on its own.
LEMMA RecordsAll ==
  ASSUME NEW r \in Rec, NEW S \in SUBSET Exes, NEW n \in Nat, clock \in Nat, n <= clock
  PROVE  LET q == RECORDS(r, S, n)
         IN /\ q \in Rec /\ SameDay(q, r)
            /\ \A y \in Exes \ S : SameApp(q, r, y)
            /\ \A y \in S : /\ q.mem.total[y] = r.mem.total[y] + n
                            /\ q.credit[r.mem.day][y] = r.credit[r.mem.day][y] + n
                            /\ q.mem.spans[y] = NewSpans(r.mem.spans[y], r.active[y], n)
                            /\ q.active[y] = clock
<1> DEFINE q == RECORDS(r, S, n)
           tot == [y \in Exes |-> IF y \in S THEN r.mem.total[y] + n ELSE r.mem.total[y]]
           spn == [y \in Exes |-> IF y \in S THEN NewSpans(r.mem.spans[y], r.active[y], n)
                                ELSE r.mem.spans[y]]
           m == [day |-> r.mem.day, total |-> tot, spans |-> spn]
           a == [y \in Exes |-> IF y \in S THEN clock ELSE r.active[y]]
           c == [r.credit EXCEPT ![r.mem.day] =
                   [y \in Exes |-> IF y \in S THEN r.credit[r.mem.day][y] + n
                                   ELSE r.credit[r.mem.day][y]]]
<1>1. /\ r = [mem |-> r.mem, active |-> r.active, credit |-> r.credit]
      /\ r.mem = [day |-> r.mem.day, total |-> r.mem.total, spans |-> r.mem.spans]
      /\ r.mem.day \in TrkDays /\ r.mem.total \in [Exes -> Nat]
      /\ r.mem.spans \in [Exes -> Seq(Span)] /\ r.active \in [Exes -> Nat \cup {NoExe}]
      /\ r.credit \in [TrkDays -> [Exes -> Nat]]
  BY DEF Rec, DayData
<1>2. \A y \in Exes : NewSpans(r.mem.spans[y], r.active[y], n) \in Seq(Span)
  BY <1>1, NewSpansType
<1>3. tot = [y \in Exes |-> IF y \in S THEN record_app_activity(r, y, n).mem.total[y]
                            ELSE r.mem.total[y]]
  <2>1. \A y \in Exes : record_app_activity(r, y, n).mem.total[y] = r.mem.total[y] + n
    BY Records
  <2> QED BY <2>1
<1>4. spn = [y \in Exes |-> IF y \in S THEN record_app_activity(r, y, n).mem.spans[y]
                            ELSE r.mem.spans[y]]
  <2>1. \A y \in Exes : record_app_activity(r, y, n).mem.spans[y]
                           = NewSpans(r.mem.spans[y], r.active[y], n)
    BY Records
  <2> QED BY <2>1
<1>5. tot \in [Exes -> Nat] /\ spn \in [Exes -> Seq(Span)]
  BY <1>1, <1>2
<1>6. q.mem = [r.mem EXCEPT !.total = tot, !.spans = spn] /\ q.active = a /\ q.credit = c
  BY <1>3, <1>4 DEF RECORDS
<1>7. q = [mem |-> q.mem, active |-> q.active, credit |-> q.credit]
  BY DEF RECORDS
<1>8. /\ m.day = r.mem.day
      /\ \A y \in Exes \ S : m.total[y] = r.mem.total[y] /\ m.spans[y] = r.mem.spans[y]
      /\ \A y \in S : /\ m.total[y] = r.mem.total[y] + n
                      /\ m.spans[y] = NewSpans(r.mem.spans[y], r.active[y], n)
  BY <1>1
<1>9. /\ \A y \in Exes \ S : a[y] = r.active[y] /\ c[r.mem.day][y] = r.credit[r.mem.day][y]
      /\ \A y \in S : a[y] = clock /\ c[r.mem.day][y] = r.credit[r.mem.day][y] + n
      /\ \A d \in TrkDays : d # r.mem.day => c[d] = r.credit[d]
  BY <1>1
<1>10. a \in [Exes -> Nat \cup {NoExe}] /\ c \in [TrkDays -> [Exes -> Nat]]
  BY <1>1
<1> HIDE DEF tot, spn, a, c, q
<1>11. q.mem = m
  BY <1>1, <1>6
<1>12. m \in DayData
  BY <1>1, <1>5 DEF DayData
<1> HIDE DEF m
<1>13. q \in Rec
  BY <1>6, <1>7, <1>10, <1>11, <1>12 DEF Rec
<1>14. SameDay(q, r)
  BY <1>6, <1>8, <1>9, <1>11 DEF SameDay
<1>15. \A y \in Exes \ S : SameApp(q, r, y)
  BY <1>6, <1>8, <1>9, <1>11 DEF SameApp
<1> QED BY <1>6, <1>8, <1>9, <1>11, <1>13, <1>14, <1>15 DEF q

-----------------------------------------------------------------------------
(* A tick. *)

\* The sessions of an application, last recorded at `last', while the loop records.
Fits(spans, last) ==
  /\ Orderly(spans, away) /\ Before(spans, clock) /\ Open(spans, last, away)
  /\ Before(spans, Reached) \/ last = clock

Recording ==
  /\ at = "bottom" /\ clock \in Nat /\ dt \in 1..clock
  /\ away \subseteq Nat /\ \A t \in away : t <= Reached

\* Extending the last session, or opening one n seconds ago, keeps the sessions of an
\* application apart from each other and from the moments of absence: an open session
\* has seen no absence, and what is not open ended before this tick.
LEMMA NewSpansFit ==
  ASSUME NEW spans \in Seq(Span), NEW last \in Nat \cup {NoExe}, NEW n \in Nat,
         Recording, n <= dt, Fits(spans, last)
  PROVE  Fits(NewSpans(spans, last, n), clock)
<1> DEFINE new == NewSpans(spans, last, n)
<1>1. /\ SESSION_GAP \in Nat \ {0} /\ NoExe \notin Nat
      /\ clock \in Nat /\ dt \in 1..clock /\ Reached = clock - dt
      /\ \A t \in away : t \in Nat /\ t <= clock - dt
  BY TrackerAssumption DEF Recording, Reached
<1>2. \A i \in 1..Len(spans) : /\ spans[i].s \in Nat /\ spans[i].e \in Nat
                               /\ spans[i].e <= clock
                               /\ \A t \in away : ~(spans[i].s < t /\ t < spans[i].e)
                               /\ \A j \in 1..(i - 1) : spans[j].e <= spans[i].s
  <2>1. \A i \in 1..Len(spans) : spans[i] \in Span
    OBVIOUS
  <2> QED BY <2>1 DEF Span, Fits, Orderly, Before
<1>3. CASE last # NoExe /\ clock - last < SESSION_GAP
  <2> DEFINE k == Len(spans)
  <2>1. spans # <<>> /\ k \in 1..k /\ spans[k].e = last /\ \A t \in away : t < last
    BY <1>3 DEF Fits, Open
  <2>2. new = [spans EXCEPT ![k] = [spans[k] EXCEPT !.e = clock]]
    BY <1>3, <2>1 DEF NewSpans
  <2>3. /\ Len(new) = k /\ new[k].s = spans[k].s /\ new[k].e = clock
        /\ \A i \in 1..k : i # k => new[i] = spans[i]
    <3>1. spans[k] \in Span
      BY <2>1
    <3> QED BY <2>1, <2>2, <3>1 DEF Span
  <2> HIDE DEF new
  <2>4. Orderly(new, away)
    <3> SUFFICES ASSUME NEW i \in 1..k
                 PROVE  /\ \A t \in away : ~(new[i].s < t /\ t < new[i].e)
                        /\ \A j \in 1..(i - 1) : new[j].e <= new[i].s
      BY <2>3 DEF Orderly
    <3>1. \A j \in 1..(i - 1) : new[j] = spans[j] /\ spans[j].e <= spans[i].s
      BY <1>2, <2>3
    <3>2. CASE i # k
      BY <1>2, <2>3, <3>1, <3>2
    <3>3. CASE i = k
      <4>1. new[i].s = spans[k].s /\ new[i].e = clock
        BY <2>3, <3>3
      <4>2. \A t \in away : ~(spans[k].s < t /\ t < spans[k].e) /\ t < spans[k].e
        BY <1>2, <2>1
      <4> QED BY <1>1, <3>1, <3>3, <4>1, <4>2
    <3> QED BY <3>2, <3>3
  <2>5. Before(new, clock)
    BY <1>1, <1>2, <2>3 DEF Before
  <2>6. Open(new, clock, away)
    <3>1. new # <<>>
      BY <2>1, <2>3
    <3>2. \A t \in away : t < clock
      BY <1>1
    <3> QED BY <2>3, <3>1, <3>2 DEF Open
  <2> QED BY <2>4, <2>5, <2>6 DEF Fits, new
<1>4. CASE ~(last # NoExe /\ clock - last < SESSION_GAP)
  <2> DEFINE k == Len(spans) + 1
  <2>1. new = Append(spans, [s |-> clock - n, e |-> clock])
    BY <1>4 DEF NewSpans
  <2>2. /\ Len(new) = k /\ new[k].s = clock - n /\ new[k].e = clock
        /\ \A i \in 1..Len(spans) : new[i] = spans[i]
    BY <2>1
  <2>3. last # clock
    BY <1>1, <1>4
  <2>4. \A i \in 1..Len(spans) : spans[i].e <= clock - dt
    BY <1>1, <2>3 DEF Fits, Before
  <2> HIDE DEF new
  <2>5. Orderly(new, away)
    <3> SUFFICES ASSUME NEW i \in 1..k
                 PROVE  /\ \A t \in away : ~(new[i].s < t /\ t < new[i].e)
                        /\ \A j \in 1..(i - 1) : new[j].e <= new[i].s
      BY <2>2 DEF Orderly
    <3>1. CASE i # k
      <4>1. i \in 1..Len(spans) /\ new[i] = spans[i]
        BY <2>2, <3>1
      <4>2. \A j \in 1..(i - 1) : new[j] = spans[j]
        BY <2>2, <4>1
      <4> QED BY <1>2, <4>1, <4>2
    <3>2. CASE i = k
      <4>1. \A j \in 1..(i - 1) : new[j] = spans[j] /\ spans[j].e \in Nat /\ spans[j].e <= clock - dt
        BY <1>2, <2>2, <2>4, <3>2
      <4>2. clock - dt \in Nat /\ clock - n \in Nat /\ clock - dt <= clock - n
        BY <1>1
      <4>3. \A t \in away : ~(clock - n < t)
        BY <1>1, <4>2
      <4>4. new[i].s = clock - n
        BY <2>2, <3>2
      <4> QED BY <4>1, <4>2, <4>3, <4>4
    <3> QED BY <3>1, <3>2
  <2>6. Before(new, clock)
    <3> SUFFICES ASSUME NEW i \in 1..k
                 PROVE  new[i].e <= clock
      BY <2>2 DEF Before
    <3>1. i # k => i \in 1..Len(spans)
      OBVIOUS
    <3> QED BY <1>1, <1>2, <2>2, <3>1
  <2>7. Open(new, clock, away)
    <3>1. new # <<>> /\ Len(new) = k
      BY <2>1, <2>2 DEF new
    <3>2. \A t \in away : t < clock
      BY <1>1
    <3> QED BY <2>2, <3>1, <3>2 DEF Open
  <2> QED BY <2>5, <2>6, <2>7 DEF Fits, new
<1> QED BY <1>3, <1>4

\* q is r, with n seconds of application y recorded (or, when b is false, not).
Recorded1(b, q, r, y, n) ==
  IF b THEN /\ q.mem.total[y] = r.mem.total[y] + n
            /\ q.credit[r.mem.day][y] = r.credit[r.mem.day][y] + n
            /\ q.mem.spans[y] = NewSpans(r.mem.spans[y], r.active[y], n)
            /\ q.active[y] = clock
  ELSE SameApp(q, r, y)

\* The sessions of an application stay in order, whether it is recorded or not.
LEMMA RecordsFit ==
  ASSUME NEW r \in Rec, NEW q, NEW y \in Exes, NEW n \in Nat, NEW b \in BOOLEAN,
         Recording, n <= dt, Fits(r.mem.spans[y], r.active[y]), Recorded1(b, q, r, y, n)
  PROVE  Fits(q.mem.spans[y], q.active[y])
<1>1. CASE b
  <2>1. r.mem.spans[y] \in Seq(Span) /\ r.active[y] \in Nat \cup {NoExe}
    BY DEF Rec, DayData
  <2>2. Fits(NewSpans(r.mem.spans[y], r.active[y], n), clock)
    BY <2>1, NewSpansFit
  <2> QED BY <1>1, <2>2 DEF Recorded1
<1>2. CASE ~b
  BY <1>2 DEF Recorded1, SameApp
<1> QED BY <1>1, <1>2

\* What an iteration records with the user at the machine: every application gains
\* at most the seconds of the tick, and its sessions stay in order.
LEMMA TickRecords ==
  ASSUME TrkTypeOK, Recording, \A y \in Exes : Fits(mem.spans[y], active[y]),
         NEW x \in Exes \cup {NoExe}, NEW since \in Nat, NEW busy \in SUBSET Exes
  PROVE  LET q == Tick(FALSE, x, since, busy)
         IN /\ q \in Rec /\ SameDay(q, AsItWas)
            /\ \A y \in Exes : /\ Gains(q, AsItWas, y, Least(dt, MAX_ELAPSED))
                               /\ Fits(q.mem.spans[y], q.active[y])
<1> DEFINE n == Least(dt, MAX_ELAPSED)
           p == PrevElapsed(n, since)
           left == ~was_idle /\ p > 0 /\ fg # NoExe
           rest == IF was_idle THEN n ELSE n - p
           r0 == AsItWas
           r1 == RecordIf(left, r0, fg, p)
           r2 == RecordIf(x # NoExe, r1, x, rest)
           S == Background(busy, Recorded(x, n, since))
           q == RECORDS(r2, S, n)
<1>1. /\ clock \in Nat /\ dt \in 1..clock /\ was_idle \in BOOLEAN
      /\ n \in Nat /\ n <= dt /\ p \in 0..n /\ rest \in 0..n
      /\ (~was_idle => p + rest = n) /\ (was_idle => ~left)
  BY TrackerAssumption DEF Recording, TrkTypeOK, Least, PrevElapsed
<1>2. NoExe \notin Exes /\ (left => fg \in Exes) /\ (x # NoExe => x \in Exes) /\ left \in BOOLEAN
  BY TrackerAssumption DEF TrkTypeOK
<1>3. r0 \in Rec /\ r0.mem = mem /\ r0.active = active /\ r0.credit = credit
  BY DEF AsItWas, Rec, TrkTypeOK
<1>4. S \in SUBSET Exes /\ x \notin S /\ (left => fg \notin S)
  <2>1. Recorded(x, n, since) = {x, IF ~was_idle /\ p > 0 THEN fg ELSE NoExe} \ {NoExe}
    BY DEF Recorded
  <2>2. S \subseteq busy \ Recorded(x, n, since)
    BY DEF Background
  <2> QED BY <1>2, <2>1, <2>2
<1>5. q = Tick(FALSE, x, since, busy)
  BY DEF Tick, Foreground
<1> HIDE DEF n, p, left, rest, r0, S
<1>6. /\ r1 \in Rec /\ SameDay(r1, r0)
      /\ \A y \in Exes : Recorded1(left /\ y = fg, r1, r0, y, p)
  <2>1. CASE left
    <3>1. r1 = record_app_activity(r0, fg, p)
      BY <2>1 DEF RecordIf
    <3> HIDE DEF r1
    <3>2. fg \in Exes /\ p \in Nat /\ p <= clock /\ clock \in Nat
      BY <1>1, <1>2, <2>1
    <3>3. /\ r1 \in Rec /\ SameDay(r1, r0)
          /\ \A y \in Exes : y # fg => SameApp(r1, r0, y)
          /\ Recorded1(TRUE, r1, r0, fg, p)
      BY <1>3, <3>1, <3>2, Records DEF Recorded1
    <3> QED BY <2>1, <3>3 DEF Recorded1
  <2>2. CASE ~left
    BY <1>3, <2>2 DEF RecordIf, Recorded1, SameApp, SameDay
  <2> QED BY <2>1, <2>2
<1> HIDE DEF r1
<1>7. /\ r2 \in Rec /\ SameDay(r2, r1)
      /\ \A y \in Exes : Recorded1(y = x, r2, r1, y, rest)
  <2>1. CASE x # NoExe
    <3>1. r2 = record_app_activity(r1, x, rest)
      BY <2>1 DEF RecordIf
    <3> HIDE DEF r2
    <3>2. x \in Exes /\ rest \in Nat /\ rest <= clock /\ clock \in Nat
      BY <1>1, <1>2, <2>1
    <3> QED BY <1>6, <3>1, <3>2, Records DEF Recorded1
  <2>2. CASE x = NoExe
    BY <1>2, <1>6, <2>2 DEF RecordIf, Recorded1, SameApp, SameDay
  <2> QED BY <2>1, <2>2
<1> HIDE DEF r2
<1>8. /\ q \in Rec /\ SameDay(q, r2)
      /\ \A y \in Exes : Recorded1(y \in S, q, r2, y, n)
  <2>1. n \in Nat /\ n <= clock /\ clock \in Nat
    BY <1>1
  <2> QED BY <1>4, <1>7, <2>1, RecordsAll DEF Recorded1
<1> HIDE DEF q
<1>9. SameDay(q, r0)
  BY <1>6, <1>7, <1>8 DEF SameDay
<1>10. r1.mem.day = r0.mem.day /\ r2.mem.day = r0.mem.day
  BY <1>6, <1>7 DEF SameDay
<1>11. ASSUME NEW y \in Exes
       PROVE  Gains(q, r0, y, n) /\ Fits(q.mem.spans[y], q.active[y])
  <2>1. /\ Recorded1(left /\ y = fg, r1, r0, y, p) /\ Recorded1(y = x, r2, r1, y, rest)
        /\ Recorded1(y \in S, q, r2, y, n)
    BY <1>6, <1>7, <1>8
  <2>2. Fits(r0.mem.spans[y], r0.active[y])
    BY <1>3
  <2> DEFINE b1 == left /\ y = fg
             b2 == y = x
             b3 == y \in S
  <2>3. /\ b1 \in BOOLEAN /\ b2 \in BOOLEAN /\ b3 \in BOOLEAN
        /\ Recorded1(b1, r1, r0, y, p) /\ Recorded1(b2, r2, r1, y, rest) /\ Recorded1(b3, q, r2, y, n)
        /\ p \in Nat /\ p <= dt /\ rest \in Nat /\ rest <= dt /\ n \in Nat /\ n <= dt
    BY <1>1, <1>2, <2>1
  <2> HIDE DEF b1, b2, b3
  <2>4. Fits(r1.mem.spans[y], r1.active[y])
    BY <1>3, <2>2, <2>3, RecordsFit
  <2>5. Fits(r2.mem.spans[y], r2.active[y])
    BY <1>6, <2>4, <2>3, RecordsFit
  <2>6. Fits(q.mem.spans[y], q.active[y])
    BY <1>7, <2>5, <2>3, RecordsFit
  <2>7. /\ r0.mem.day \in TrkDays
        /\ r0.mem.total[y] \in Nat /\ r0.credit[r0.mem.day][y] \in Nat
    BY <1>3 DEF Rec, DayData
  <2> DEFINE k1 == IF left /\ y = fg THEN p ELSE 0
             k2 == IF y = x THEN rest ELSE 0
             k3 == IF y \in S THEN n ELSE 0
  <2>8. k1 + k2 + k3 \in 0..n
    BY <1>1, <1>4
  <2>9. /\ r1.mem.total[y] = r0.mem.total[y] + k1
        /\ r1.credit[r0.mem.day][y] = r0.credit[r0.mem.day][y] + k1
    BY <2>1, <2>7 DEF Recorded1, SameApp
  <2>10. /\ r2.mem.total[y] = r1.mem.total[y] + k2
        /\ r2.credit[r0.mem.day][y] = r1.credit[r0.mem.day][y] + k2
    BY <1>1, <1>10, <2>1, <2>7, <2>9 DEF Recorded1, SameApp
  <2>11. /\ q.mem.total[y] = r2.mem.total[y] + k3
         /\ q.credit[r0.mem.day][y] = r2.credit[r0.mem.day][y] + k3
    BY <1>1, <1>10, <2>1, <2>7, <2>9, <2>10 DEF Recorded1, SameApp
  <2>12. k1 \in Nat /\ k2 \in Nat /\ k3 \in Nat
    BY <1>1
  <2> HIDE DEF k1, k2, k3
  <2>13. /\ q.mem.total[y] = r0.mem.total[y] + (k1 + k2 + k3)
         /\ q.credit[r0.mem.day][y] = r0.credit[r0.mem.day][y] + (k1 + k2 + k3)
    BY <2>7, <2>9, <2>10, <2>11, <2>12
  <2> QED BY <2>6, <2>8, <2>13 DEF Gains
<1> QED BY <1>5, <1>8, <1>9, <1>11 DEF r0, n

-----------------------------------------------------------------------------
(* What a step does to the sums, to the sessions and to the store.           *)

\* The seconds of a day are numbers.
LEMMA MostType ==
  ASSUME TrkTypeOK
  PROVE  \A x \in Exes : [d \in TrkDays |-> Most(d, x)] \in [TrkDays -> Nat]
<1> SUFFICES ASSUME NEW x \in Exes, NEW d \in TrkDays
             PROVE  Most(d, x) \in Nat
  OBVIOUS
<1>1. mem.total[x] \in Nat
  BY DEF TrkTypeOK, DayData
<1>2. store[d] # NoDay => store[d].total[x] \in Nat
  BY DEF TrkTypeOK, DayData
<1> QED BY <1>1, <1>2 DEF Most, InStore, InMemory

\* The seconds of one day grow by n at most, and the others not at all.
LEMMA CountedKept ==
  ASSUME TrkTypeOK, TrkTypeOK', Counted, NEW k \in TrkDays, NEW n \in Nat, used' = used + n,
         \A x \in Exes, d \in TrkDays :
           IF d = k THEN Most(d, x)' <= Most(d, x) + n ELSE Most(d, x)' <= Most(d, x)
  PROVE  Counted'
<1> SUFFICES ASSUME NEW x \in Exes
             PROVE  OverAllDays([d \in TrkDays |-> Most(d, x)'] ) <= used'
  BY DEF Counted
<1> DEFINE f == [d \in TrkDays |-> Most(d, x)]
           g == [d \in TrkDays |-> Most(d, x)']
<1>1. f \in [TrkDays -> Nat]
  BY MostType
<1>2. g \in [TrkDays -> Nat]
  <2> SUFFICES ASSUME NEW d \in TrkDays
               PROVE  Most(d, x)' \in Nat
    OBVIOUS
  <2>1. mem'.total[x] \in Nat
    BY DEF TrkTypeOK, DayData
  <2>2. store'[d] # NoDay => store'[d].total[x] \in Nat
    BY DEF TrkTypeOK, DayData
  <2> QED BY <2>1, <2>2 DEF Most, InStore, InMemory
<1>3. \A d \in TrkDays : IF d = k THEN g[d] <= f[d] + n ELSE g[d] <= f[d]
  OBVIOUS
<1>4. OverAllDays(f) <= used
  BY DEF Counted
<1> HIDE DEF f, g
<1>5. /\ OverAllDays(f) \in Nat /\ OverAllDays(g) \in Nat
      /\ OverAllDays(g) <= OverAllDays(f) + n
  BY <1>1, <1>2, <1>3, SumGrows
<1>6. used \in Nat
  BY DEF TrkTypeOK
<1>7. OverAllDays(g) <= used'
  BY <1>4, <1>5, <1>6
<1> QED BY <1>7 DEF g

\* Nothing but the day in memory is written, and it is written as m.
Stores(m) ==
  /\ store' \in [TrkDays -> DayData \cup {NoDay}]
  /\ \A d \in TrkDays : d # mem.day => store'[d] = store[d]
  /\ store'[mem.day] \in {store[mem.day], m}

\* A save writes the day in memory or nothing, and leaves nothing out when it works.
LEMMA Saving ==
  ASSUME TrkTypeOK, NEW written \in BOOLEAN, store' = saved(written)
  PROVE  Stores(mem) /\ (~Left(written) => store'[mem.day] = mem)
<1>1. mem \in DayData /\ mem.day \in TrkDays /\ store \in [TrkDays -> DayData \cup {NoDay}]
      /\ frozen \in BOOLEAN
  BY DEF TrkTypeOK, DayData
<1> QED BY <1>1 DEF saved, Left, Stores

\* A day that begins has no seconds and no sessions.
LEMMA EmptyDay ==
  ASSUME NEW d \in TrkDays
  PROVE  /\ empty_daily(d) \in DayData /\ empty_daily(d).day = d
         /\ \A x \in Exes : empty_daily(d).total[x] = 0 /\ empty_daily(d).spans[x] = <<>>
<1>1. <<>> \in Seq(Span)
  OBVIOUS
<1> QED BY <1>1 DEF empty_daily, DayData

\* What is loaded is what the store holds of the day, or nothing.
LEMMA Loading ==
  ASSUME TrkTypeOK, Ledger, NEW d \in TrkDays, NEW readable \in BOOLEAN
  PROVE  LET m == load_daily(d, readable)
         IN /\ m \in DayData /\ m.day = d
            /\ m = empty_daily(d) \/ (store[d] # NoDay /\ m = store[d])
            /\ store[d] = NoDay => m = empty_daily(d)
            /\ readable /\ store[d] # NoDay => m = store[d]
BY EmptyDay DEF load_daily, TrkTypeOK, Ledger

\* Memory is kept or loaded anew, when the loop has been up to now.
Reloads ==
  \/ mem' = mem
  \/ /\ clock <= Reached' /\ active' = NothingActive
     /\ \/ mem' = empty_daily(mem'.day)
        \/ store[mem'.day] # NoDay /\ mem' = store[mem'.day]

\* Sessions stay in order when time passes, a day is saved or loaded, or a moment of
\* absence is noted that no session has reached.
LEMMA SpansKept ==
  ASSUME TrkTypeOK, TrkTypeOK', Spans, Stores(mem), Reloads,
         clock' >= clock, Reached' >= Reached, Reached \in Nat, Reached <= clock, Reached' \in Nat,
         \/ away' = away /\ active' \in {active, NothingActive}
         \/ active' = NothingActive /\ away' = away \cup {Reached'} /\ clock <= Reached',
         was_idle' => active' = NothingActive
  PROVE  Spans'
<1>1. /\ clock \in Nat /\ clock' \in Nat /\ away \subseteq Nat /\ away' \subseteq Nat
      /\ mem \in DayData /\ mem' \in DayData /\ mem.day \in TrkDays /\ mem'.day \in TrkDays
      /\ store \in [TrkDays -> DayData \cup {NoDay}]
      /\ store' \in [TrkDays -> DayData \cup {NoDay}]
  BY DEF TrkTypeOK, DayData
<1>2. ASSUME NEW spans \in Seq(Span), NEW t \in Nat, t <= clock,
             Orderly(spans, away), Before(spans, t)
      PROVE  Orderly(spans, away')
  <2>1. \A i \in 1..Len(spans) : spans[i].e \in Nat
    <3>1. \A i \in 1..Len(spans) : spans[i] \in Span
      OBVIOUS
    <3> QED BY <3>1 DEF Span
  <2>2. \A u \in away' \ away : u \in Nat /\ clock <= u
    OBVIOUS
  <2> QED BY <1>1, <1>2, <2>1, <2>2 DEF Orderly, Before
<1>3. ASSUME NEW spans \in Seq(Span), NEW t \in Nat, NEW u \in Nat, t <= u, Before(spans, t)
      PROVE  Before(spans, u)
  <2>1. \A i \in 1..Len(spans) : spans[i].e \in Nat
    <3>1. \A i \in 1..Len(spans) : spans[i] \in Span
      OBVIOUS
    <3> QED BY <3>1 DEF Span
  <2> QED BY <1>3, <2>1 DEF Before
<1>4. \A x \in Exes : /\ mem.spans[x] \in Seq(Span)
                      /\ Orderly(mem.spans[x], away') /\ Before(mem.spans[x], clock)
                      /\ Before(mem.spans[x], Reached')
  <2> TAKE x \in Exes
  <2>1. mem.spans[x] \in Seq(Span)
    BY <1>1 DEF DayData
  <2>2. Orderly(mem.spans[x], away) /\ Before(mem.spans[x], Reached)
    BY DEF Spans
  <2> QED BY <1>1, <1>2, <1>3, <2>1, <2>2
<1>5. \A d \in TrkDays : store[d] # NoDay =>
        \A x \in Exes : /\ store[d].spans[x] \in Seq(Span)
                        /\ Orderly(store[d].spans[x], away') /\ Before(store[d].spans[x], clock)
  <2> SUFFICES ASSUME NEW d \in TrkDays, store[d] # NoDay, NEW x \in Exes
               PROVE  /\ store[d].spans[x] \in Seq(Span)
                      /\ Orderly(store[d].spans[x], away') /\ Before(store[d].spans[x], clock)
    OBVIOUS
  <2>1. store[d] \in DayData
    BY <1>1
  <2>2. store[d].spans[x] \in Seq(Span)
    BY <2>1 DEF DayData
  <2>3. Orderly(store[d].spans[x], away) /\ Before(store[d].spans[x], clock)
    BY DEF Spans
  <2> QED BY <1>1, <1>2, <2>2, <2>3
<1>6. \A d \in TrkDays : store'[d] # NoDay =>
        \A x \in Exes : Orderly(store'[d].spans[x], away') /\ Before(store'[d].spans[x], clock')
  <2> SUFFICES ASSUME NEW d \in TrkDays, store'[d] # NoDay, NEW x \in Exes
               PROVE  Orderly(store'[d].spans[x], away') /\ Before(store'[d].spans[x], clock')
    OBVIOUS
  <2>1. store'[d] \in {store[d], mem}
    BY <1>1 DEF Stores
  <2>2. CASE store'[d] = store[d]
    BY <1>1, <1>3, <1>5, <2>2
  <2>3. CASE store'[d] = mem
    BY <1>1, <1>3, <1>4, <2>3
  <2> QED BY <2>1, <2>2, <2>3
<1>7. \A x \in Exes : /\ Orderly(mem'.spans[x], away') /\ Before(mem'.spans[x], Reached')
                      /\ Open(mem'.spans[x], active'[x], away')
  <2> TAKE x \in Exes
  <2>1. CASE mem' = mem
    <3>1. Open(mem.spans[x], active[x], away)
      BY DEF Spans
    <3>2. Open(mem.spans[x], active'[x], away')
      BY <3>1 DEF Open, NothingActive
    <3> QED BY <1>4, <2>1, <3>2
  <2>2. CASE mem' # mem
    <3>1. /\ clock <= Reached' /\ active' = NothingActive
          /\ \/ mem' = empty_daily(mem'.day)
             \/ store[mem'.day] # NoDay /\ mem' = store[mem'.day]
      BY <2>2 DEF Reloads
    <3>2. Open(mem'.spans[x], active'[x], away')
      BY <3>1 DEF Open, NothingActive
    <3>3. CASE mem' = empty_daily(mem'.day)
      <4>1. mem'.spans[x] = <<>>
        BY <1>1, <3>3, EmptyDay
      <4>2. Orderly(<<>>, away') /\ Before(<<>>, Reached')
        BY DEF Orderly, Before
      <4> QED BY <3>2, <4>1, <4>2
    <3>4. CASE store[mem'.day] # NoDay /\ mem' = store[mem'.day]
      BY <1>1, <1>3, <1>5, <3>1, <3>2, <3>4
    <3> QED BY <3>1, <3>3, <3>4
  <2> QED BY <2>1, <2>2
<1>8. \A t \in away' : t <= Reached'
  <2>1. \A t \in away : t \in Nat /\ t <= Reached
    BY <1>1 DEF Spans
  <2> QED BY <2>1
<1> QED BY <1>6, <1>7, <1>8 DEF Spans

\* What the types and bounds say of the clock and its day.
LEMMA DayTypes ==
  ASSUME TrkTypeOK, Bounds
  PROVE  /\ clock \in Nat /\ clock <= TrkEnd /\ TrkEnd \in Nat /\ MaxWait \in Nat
         /\ mem \in DayData /\ mem.day \in TrkDays /\ TrkDays \subseteq Nat
         /\ \A t \in Nat : t <= TrkEnd => DayOf(t) \in TrkDays
         /\ \A t \in Nat : clock <= t => DayOf(clock) <= DayOf(t)
         /\ Reached \in Nat /\ Reached <= clock
<1>1. clock \in Nat /\ TrkEnd \in Nat /\ MaxWait \in Nat /\ mem \in DayData /\ mem.day \in TrkDays
  BY TrackerAssumption DEF TrkTypeOK, DayData
<1>2. DayOf(TrkEnd) \in Nat
  BY <1>1, DayOfGrows
<1>3. \A t \in Nat : t <= TrkEnd => DayOf(t) \in TrkDays
  BY <1>1, <1>2, DayOfGrows DEF TrkDays
<1>4. \A t \in Nat : clock <= t => DayOf(clock) <= DayOf(t)
  BY <1>1, DayOfGrows
<1>5. Reached \in Nat /\ Reached <= clock
  BY <1>1 DEF Reached, Bounds
<1>6. TrkDays \subseteq Nat
  BY <1>2 DEF TrkDays
<1> QED BY <1>1, <1>3, <1>4, <1>5, <1>6 DEF Bounds

\* The seconds that are counted do not grow when a day is saved or loaded.
LEMMA LoadingCounts ==
  ASSUME TrkTypeOK, TrkTypeOK', Counted, Stores(mem), used' = used,
         \/ mem' = mem
         \/ mem' = empty_daily(mem'.day)
         \/ store[mem'.day] # NoDay /\ mem' = store[mem'.day]
  PROVE  Counted'
<1>1. mem \in DayData /\ mem' \in DayData /\ mem.day \in TrkDays /\ mem'.day \in TrkDays
      /\ store \in [TrkDays -> DayData \cup {NoDay}]
  BY DEF TrkTypeOK, DayData
<1>2. ASSUME NEW x \in Exes, NEW d \in TrkDays
      PROVE  Most(d, x)' <= Most(d, x)
  <2>1. mem.total[x] \in Nat /\ (store[d] # NoDay => store[d].total[x] \in Nat)
    BY <1>1 DEF DayData
  <2>2. InStore(d, x) \in Nat /\ InMemory(d, x) \in Nat
        /\ InStore(d, x) <= Most(d, x) /\ InMemory(d, x) <= Most(d, x) /\ Most(d, x) \in Nat
    BY <2>1 DEF InStore, InMemory, Most
  <2>3. InStore(d, x)' \in {InStore(d, x), InMemory(d, x)}
    <3>1. d # mem.day => store'[d] = store[d]
      BY DEF Stores
    <3>2. d = mem.day => store'[d] \in {store[d], mem}
      BY DEF Stores
    <3>3. mem # NoDay
      BY <1>1, NoDayAssumption
    <3> QED BY <3>1, <3>2, <3>3 DEF InStore, InMemory
  <2>4. InMemory(d, x)' \in {0, InStore(d, x), InMemory(d, x)}
    <3>1. CASE d # mem'.day
      BY <3>1 DEF InMemory
    <3>2. CASE d = mem'.day /\ mem' = mem
      BY <3>2 DEF InMemory
    <3>3. CASE d = mem'.day /\ mem' = empty_daily(mem'.day)
      <4>1. mem'.total[x] = 0
        BY <1>1, <3>3, EmptyDay
      <4> QED BY <4>1 DEF InMemory
    <3>4. CASE d = mem'.day /\ store[d] # NoDay /\ mem' = store[d]
      BY <3>4 DEF InMemory, InStore
    <3> QED BY <3>1, <3>2, <3>3, <3>4
  <2>5. Most(d, x)' \in {InStore(d, x)', InMemory(d, x)'}
    BY DEF Most
  <2> QED BY <2>2, <2>3, <2>4, <2>5
<1>3. ASSUME NEW x \in Exes, NEW d \in TrkDays
      PROVE  IF d = mem.day THEN Most(d, x)' <= Most(d, x) + 0 ELSE Most(d, x)' <= Most(d, x)
  <2>1. Most(d, x) \in Nat
    <3>1. mem.total[x] \in Nat /\ (store[d] # NoDay => store[d].total[x] \in Nat)
      BY <1>1 DEF DayData
    <3> QED BY <3>1 DEF InStore, InMemory, Most
  <2> QED BY <1>2, <2>1
<1>4. used' = used + 0
  BY DEF TrkTypeOK
<1> QED BY <1>1, <1>3, <1>4, CountedKept

\* A new iteration, also one in which the date changes, keeps the invariant.
LEMMA LoopTopKeeps ==
  ASSUME TrkInv, NEW n \in 1..MaxWait, LoopTop(n)
  PROVE  TrkInv'
<1> USE DEF TrkInv
<1>1. /\ clock \in Nat /\ n \in Nat /\ n >= 1 /\ clock' = clock + n /\ clock' <= TrkEnd /\ dt' = n
      /\ at = "top" /\ at' = "bottom" /\ clock' \in Nat /\ Reached = clock /\ Reached' = clock
      /\ was_idle' = was_idle /\ away' = away /\ used' = used /\ credit' = credit
      /\ fg' = fg /\ tracked' = tracked /\ frozen' = frozen /\ lastSave' = lastSave
  BY DayTypes DEF LoopTop, Reached
<1>2. DayOf(clock') \in TrkDays /\ mem.day <= DayOf(clock')
  BY <1>1, DayTypes DEF Ledger
<1>3. mem.day \in TrkDays /\ TrkDays \subseteq Nat /\ store \in [TrkDays -> DayData \cup {NoDay}]
      /\ mem \in DayData /\ frozen \in BOOLEAN
  BY DayTypes DEF TrkTypeOK
<1>4. CASE DayOf(clock') = mem.day
  <2>1. UNCHANGED <<store, mem, skipped, excuse, active, had_prev, trkBad>>
    BY <1>4 DEF LoopTop
  <2>2. TrkTypeOK'
    BY <1>1, <2>1 DEF TrkTypeOK
  <2>3. Bounds'
    BY <1>1 DEF Bounds
  <2>4. Ledger'
    BY <1>1, <1>4, <2>1 DEF Ledger, InStore
  <2>5. Stores(mem) /\ Reloads
    BY <1>3, <2>1 DEF Stores, Reloads
  <2>6. Spans'
    <3>1. was_idle' => active' = NothingActive
      BY <1>1, <2>1 DEF Spans
    <3> QED BY <1>1, <2>1, <2>2, <2>5, <3>1, SpansKept
  <2>7. Counted'
    BY <1>1, <2>1, <2>2, <2>5, LoadingCounts
  <2> QED BY <2>2, <2>3, <2>4, <2>6, <2>7
<1>5. CASE DayOf(clock') # mem.day
  <2>1. PICK written \in BOOLEAN, readable \in BOOLEAN :
          Works(written /\ readable) /\ ChangeOfDate(written, readable)
    BY <1>5 DEF LoopTop
  <2>2. active' = NothingActive /\ had_prev' = FALSE
    BY <1>5 DEF LoopTop
  <2>3. store' = saved(written)
    BY <2>1 DEF ChangeOfDate
  <2>4. Stores(mem) /\ (~Left(written) => store'[mem.day] = mem)
    BY <2>3, Saving
  <2> DEFINE D == DayOf(clock')
  <2>5. D \in TrkDays /\ D > mem.day /\ D # mem.day
    <3>1. D \in Nat /\ mem.day \in Nat
      BY <1>2, <1>3
    <3> HIDE DEF D
    <3> QED BY <1>2, <1>5, <3>1 DEF D
  <2>6. store[D] = NoDay /\ \A x \in Exes : credit[D][x] = 0
    BY <2>5 DEF Ledger
  <2>7. mem' = empty_daily(D) /\ mem' \in DayData /\ mem'.day = D
    BY <2>1, <2>5, <2>6, Loading DEF ChangeOfDate
  <2>8. /\ excuse' \subseteq TrkDays /\ excuse \subseteq excuse'
        /\ (mem.day \notin excuse' => ~Left(written))
    BY <1>3, <2>1, <2>5 DEF ChangeOfDate, TrkTypeOK
  <2>9. TrkTypeOK'
    <3>1. trkBad' \in Nat
      BY <2>1 DEF Works, TrkTypeOK
    <3>2. active' \in [Exes -> Nat \cup {NoExe}] /\ had_prev' \in BOOLEAN
      BY <2>2 DEF NothingActive
    <3>3. skipped' \in BOOLEAN
      BY <1>3, <2>1 DEF ChangeOfDate
    <3>4. store' \in [TrkDays -> DayData \cup {NoDay}]
      BY <2>4 DEF Stores
    <3> QED BY <1>1, <2>7, <2>8, <3>1, <3>2, <3>3, <3>4 DEF TrkTypeOK
  <2>10. Bounds'
    BY <1>1 DEF Bounds
  <2>11. Ledger'
    <3>1. mem'.day = DayOf(clock)'
      BY <2>7 DEF DayOf
    <3>2. \A d \in TrkDays : store'[d] # NoDay => store'[d].day = d
      BY <1>3, <2>4 DEF Ledger, Stores
    <3>3. \A d \in TrkDays : d > D => store'[d] = NoDay /\ \A x \in Exes : credit[d][x] = 0
      <4> SUFFICES ASSUME NEW d \in TrkDays, d > D
                   PROVE  store'[d] = NoDay /\ \A x \in Exes : credit[d][x] = 0
        OBVIOUS
      <4>1. d > mem.day /\ d # mem.day
        <5>1. d \in Nat /\ D \in Nat /\ mem.day \in Nat
          BY <1>3, <2>5
        <5> HIDE DEF D
        <5> QED BY <2>5, <5>1
      <4> QED BY <4>1, <2>4 DEF Ledger, Stores
    <3>4. ASSUME NEW d \in TrkDays \ excuse', NEW x \in Exes
          PROVE  InStore(d, x)' = credit[d][x]
      <4>1. CASE d = mem.day
        <5>1. store'[d] = mem /\ mem # NoDay /\ d \notin excuse
          BY <1>3, <2>4, <2>8, <4>1, NoDayAssumption
        <5> QED BY <4>1, <5>1 DEF Ledger, InStore
      <4>2. CASE d # mem.day
        <5>1. store'[d] = store[d] /\ d \notin excuse
          BY <2>4, <2>8, <4>2 DEF Stores
        <5> QED BY <4>2, <5>1 DEF Ledger, InStore
      <4> QED BY <4>1, <4>2
    <3>5. \A x \in Exes : mem'.total[x] = credit[D][x]
      BY <2>5, <2>6, <2>7, EmptyDay
    <3> QED BY <1>1, <2>7, <3>1, <3>2, <3>3, <3>4, <3>5 DEF Ledger
  <2>12. Spans'
    <3>1. Reloads
      <4>1. mem' = empty_daily(mem'.day)
        BY <2>7
      <4>2. clock <= Reached'
        BY <1>1
      <4> QED BY <2>2, <4>1, <4>2 DEF Reloads
    <3> QED BY <1>1, <2>2, <2>4, <2>9, <3>1, SpansKept
  <2>13. Counted'
    BY <1>1, <2>4, <2>7, <2>9, LoadingCounts
  <2> QED BY <2>9, <2>10, <2>11, <2>12, <2>13
<1> QED BY <1>4, <1>5

\* A tick discarded because the machine slept keeps it.
LEMMA SleepKeeps ==
  ASSUME TrkInv, NEW n \in 1..MaxWait, SleepDetected(n)
  PROVE  TrkInv'
<1> USE DEF TrkInv
<1>1. /\ clock \in Nat /\ n \in Nat /\ n >= 1 /\ clock' = clock + n /\ clock' <= TrkEnd /\ dt' = 0
      /\ at = "bottom" /\ at' = "top" /\ clock' \in Nat /\ Reached' = clock' /\ DayOf(clock') = mem.day
      /\ was_idle' = TRUE /\ away' = away \cup {clock'} /\ used' = used /\ credit' = credit
      /\ fg' = fg /\ tracked' = tracked /\ frozen' = frozen /\ mem' = mem /\ had_prev' = had_prev
      /\ active' = NothingActive
  BY DayTypes DEF SleepDetected, Reached
<1>2. mem.day \in TrkDays /\ TrkDays \subseteq Nat /\ store \in [TrkDays -> DayData \cup {NoDay}]
      /\ mem \in DayData /\ frozen \in BOOLEAN
  BY DayTypes DEF TrkTypeOK
<1>3. PICK written \in BOOLEAN :
        /\ Works(written) /\ store' = saved(written)
        /\ excuse' = excuse \cup (IF Left(written) /\ ~frozen THEN {mem.day} ELSE {})
  BY DEF SleepDetected
<1>4. Stores(mem)
  BY <1>3, Saving
<1>5. excuse' \subseteq TrkDays /\ excuse \subseteq excuse'
  BY <1>2, <1>3 DEF TrkTypeOK
<1>6. TrkTypeOK'
  <2>1. trkBad' \in Nat
    BY <1>3 DEF Works, TrkTypeOK
  <2>2. active' \in [Exes -> Nat \cup {NoExe}]
    BY <1>1 DEF NothingActive
  <2>3. skipped' \in BOOLEAN /\ lastSave' \in Nat /\ away' \subseteq Nat
    BY <1>1, <1>2 DEF SleepDetected, TrkTypeOK
  <2>4. store' \in [TrkDays -> DayData \cup {NoDay}]
    BY <1>4 DEF Stores
  <2> QED BY <1>1, <1>5, <2>1, <2>2, <2>3, <2>4 DEF TrkTypeOK
<1>7. Bounds'
  BY <1>1 DEF Bounds
<1>8. Ledger'
  <2>1. mem'.day = DayOf(clock)'
    BY <1>1 DEF DayOf
  <2>2. \A d \in TrkDays : store'[d] # NoDay => store'[d].day = d
    BY <1>2, <1>4, ZenonT(40) DEF Ledger, Stores
  <2>3. \A d \in TrkDays : d > mem.day => store'[d] = NoDay
    <3> SUFFICES ASSUME NEW d \in TrkDays, d > mem.day
                 PROVE  store'[d] = NoDay
      OBVIOUS
    <3>1. d # mem.day
      BY <1>2
    <3> QED BY <3>1, <1>4 DEF Ledger, Stores
  <2>4. \A d \in TrkDays \ excuse' : d # mem.day => \A x \in Exes : InStore(d, x)' = credit[d][x]
    BY <1>4, <1>5 DEF Ledger, Stores, InStore
  <2> QED BY <1>1, <1>5, <2>1, <2>2, <2>3, <2>4 DEF Ledger
<1>9. Spans'
  <2>1. Reached \in Nat /\ Reached <= clock
    BY DayTypes
  <2>2. Reloads
    BY <1>1 DEF Reloads
  <2>3. clock' >= clock /\ Reached' >= Reached /\ Reached' \in Nat /\ clock <= Reached'
    BY <1>1, <2>1
  <2>4. away' = away \cup {Reached'}
    BY <1>1
  <2> QED BY <1>1, <1>4, <1>6, <2>1, <2>2, <2>3, <2>4, SpansKept
<1>10. Counted'
  BY <1>1, <1>4, <1>6, LoadingCounts
<1> QED BY <1>6, <1>7, <1>8, <1>9, <1>10

\* The last save keeps it.
LEMMA ShutdownKeeps ==
  ASSUME TrkInv, Shutdown
  PROVE  TrkInv'
<1> USE DEF TrkInv
<1>1. /\ at = "top" /\ at' = "stopped" /\ Reached = clock /\ Reached' = clock
      /\ UNCHANGED <<clock, dt, mem, active, fg, was_idle, had_prev, tracked, frozen, skipped,
                     lastSave, credit, used, away>>
  BY DEF Shutdown, Reached
<1>2. mem.day \in TrkDays /\ TrkDays \subseteq Nat /\ store \in [TrkDays -> DayData \cup {NoDay}]
      /\ mem \in DayData /\ clock \in Nat
  BY DayTypes DEF TrkTypeOK
<1>3. PICK written \in BOOLEAN :
        /\ Works(written) /\ store' = saved(written)
        /\ excuse' = excuse \cup (IF Left(written) THEN {mem.day} ELSE {})
  BY DEF Shutdown
<1>4. Stores(mem) /\ (~Left(written) => store'[mem.day] = mem)
  BY <1>3, Saving
<1>5. /\ excuse' \subseteq TrkDays /\ excuse \subseteq excuse'
      /\ (mem.day \notin excuse' => store'[mem.day] = mem)
  BY <1>2, <1>3, <1>4 DEF TrkTypeOK
<1>6. TrkTypeOK'
  <2>1. trkBad' \in Nat
    BY <1>3 DEF Works, TrkTypeOK
  <2>2. store' \in [TrkDays -> DayData \cup {NoDay}]
    BY <1>4 DEF Stores
  <2> QED BY <1>1, <1>5, <2>1, <2>2 DEF TrkTypeOK
<1>7. Bounds'
  BY <1>1 DEF Bounds
<1>8. Ledger'
  <2>1. mem'.day = DayOf(clock)'
    BY <1>1 DEF DayOf, Ledger
  <2>2. \A d \in TrkDays : store'[d] # NoDay => store'[d].day = d
    BY <1>2, <1>4 DEF Ledger, Stores
  <2>3. \A d \in TrkDays : d > mem.day => store'[d] = NoDay
    <3> SUFFICES ASSUME NEW d \in TrkDays, d > mem.day
                 PROVE  store'[d] = NoDay
      OBVIOUS
    <3>1. d # mem.day
      BY <1>2
    <3> QED BY <3>1, <1>4 DEF Ledger, Stores
  <2>4. \A d \in TrkDays \ excuse' : d # mem.day => \A x \in Exes : InStore(d, x)' = credit[d][x]
    BY <1>4, <1>5 DEF Ledger, Stores, InStore
  <2> QED BY <1>1, <1>5, <2>1, <2>2, <2>3, <2>4 DEF Ledger
<1>9. Spans'
  <2>1. was_idle' => active' = NothingActive
    BY <1>1 DEF Spans
  <2>2. Reloads
    BY <1>1 DEF Reloads
  <2> QED BY <1>1, <1>2, <1>4, <1>6, <2>1, <2>2, SpansKept
<1>10. Counted'
  BY <1>1, <1>4, <1>6, LoadingCounts
<1> QED BY <1>6, <1>7, <1>8, <1>9, <1>10

\* A start after a shutdown or a crash keeps it: the day is loaded again.
LEMMA StartKeeps ==
  ASSUME TrkInv, NEW n \in 1..MaxWait, Start(n)
  PROVE  TrkInv'
<1> USE DEF TrkInv
<1>1. /\ clock \in Nat /\ n \in Nat /\ n >= 1 /\ clock' = clock + n /\ clock' <= TrkEnd /\ dt' = 0
      /\ at' = "top" /\ clock' \in Nat /\ Reached' = clock'
      /\ was_idle' = FALSE /\ away' = away /\ used' = used /\ credit' = credit
      /\ fg' = NoExe /\ tracked' = tracked /\ frozen' = frozen /\ had_prev' = FALSE
      /\ active' = NothingActive /\ skipped' = FALSE /\ lastSave' = clock' /\ store' = store
  BY DayTypes DEF Start, Reached
<1>2. mem.day \in TrkDays /\ TrkDays \subseteq Nat /\ store \in [TrkDays -> DayData \cup {NoDay}]
      /\ mem \in DayData
  BY DayTypes DEF TrkTypeOK
<1> DEFINE D == DayOf(clock')
<1>3. D \in TrkDays /\ mem.day <= D /\ D \in Nat /\ mem.day \in Nat
  <2>1. D \in TrkDays /\ DayOf(clock) <= D
    BY <1>1, DayTypes
  <2>2. mem.day = DayOf(clock)
    BY DEF Ledger
  <2> HIDE DEF D
  <2> QED BY <1>2, <2>1, <2>2
<1>4. PICK readable \in BOOLEAN :
        /\ trkBad' = IF at # "stopped" \/ ~readable THEN trkBad + 1 ELSE trkBad
        /\ mem' = load_daily(D, readable)
        /\ excuse' = excuse \cup (IF at # "stopped" /\ store[mem.day] # mem THEN {mem.day} ELSE {})
                            \cup (IF readable THEN {} ELSE {D})
  BY DEF Start
<1> HIDE DEF D
<1>5. /\ mem' \in DayData /\ mem'.day = D
      /\ mem' = empty_daily(D) \/ (store[D] # NoDay /\ mem' = store[D])
      /\ store[D] = NoDay => mem' = empty_daily(D)
      /\ readable /\ store[D] # NoDay => mem' = store[D]
  BY <1>3, <1>4, Loading
<1>6. Stores(mem)
  BY <1>1, <1>2 DEF Stores
<1>7. /\ excuse' \subseteq TrkDays /\ excuse \subseteq excuse'
      /\ (mem.day \notin excuse' => store[mem.day] = mem)
      /\ (D \notin excuse' => readable)
  <2>1. (mem.day \notin excuse' => mem.day \notin excuse /\ (at = "stopped" \/ store[mem.day] = mem))
    BY <1>4
  <2>2. at = "stopped" /\ mem.day \notin excuse => store[mem.day] = mem
    BY DEF Ledger
  <2>3. excuse' \subseteq TrkDays /\ excuse \subseteq excuse' /\ (D \notin excuse' => readable)
    BY <1>2, <1>3, <1>4 DEF TrkTypeOK
  <2> QED BY <2>1, <2>2, <2>3
<1>8. TrkTypeOK'
  <2>1. trkBad' \in Nat
    BY <1>4 DEF TrkTypeOK
  <2>2. active' \in [Exes -> Nat \cup {NoExe}]
    BY <1>1 DEF NothingActive
  <2> QED BY <1>1, <1>2, <1>5, <1>7, <2>1, <2>2 DEF TrkTypeOK
<1>9. Bounds'
  BY <1>1 DEF Bounds
<1>10. Ledger'
  <2>1. mem'.day = DayOf(clock)'
    BY <1>5 DEF DayOf, D
  <2>2. \A d \in TrkDays : store'[d] # NoDay => store'[d].day = d
    BY <1>1 DEF Ledger
  <2>3. \A d \in TrkDays : d > D => store'[d] = NoDay /\ \A x \in Exes : credit[d][x] = 0
    <3> SUFFICES ASSUME NEW d \in TrkDays, d > D
                 PROVE  store'[d] = NoDay /\ \A x \in Exes : credit[d][x] = 0
      OBVIOUS
    <3>1. d \in Nat
      BY <1>2
    <3>2. d > mem.day
      BY <1>3, <3>1
    <3> QED BY <1>1, <3>2 DEF Ledger
  <2>4. ASSUME NEW d \in TrkDays \ excuse', NEW x \in Exes
        PROVE  InStore(d, x) = credit[d][x] /\ (d = mem.day => mem.total[x] = credit[d][x])
    <3>1. CASE d = mem.day
      <4>1. store[d] = mem /\ mem # NoDay /\ d \notin excuse
        BY <1>2, <1>7, <3>1, NoDayAssumption
      <4> QED BY <3>1, <4>1 DEF Ledger, InStore
    <3>2. CASE d # mem.day
      <4>1. d \notin excuse
        BY <1>7
      <4> QED BY <3>2, <4>1 DEF Ledger
    <3> QED BY <3>1, <3>2
  <2>5. ASSUME D \notin excuse', NEW x \in Exes
        PROVE  mem'.total[x] = credit[D][x]
    <3>1. InStore(D, x) = credit[D][x] /\ readable
      BY <1>3, <1>7, <2>4, <2>5
    <3>2. CASE store[D] # NoDay
      BY <1>1, <1>5, <3>1, <3>2 DEF InStore
    <3>3. CASE store[D] = NoDay
      <4>1. mem' = empty_daily(D) /\ credit[D][x] = 0
        BY <1>1, <1>5, <3>1, <3>3 DEF InStore
      <4> QED BY <1>3, <4>1, EmptyDay
    <3> QED BY <3>2, <3>3
  <2>6. \A d \in TrkDays \ excuse' : \A x \in Exes : InStore(d, x)' = credit[d][x]
    BY <1>1, <2>4 DEF InStore
  <2> QED BY <1>1, <1>5, <2>1, <2>2, <2>3, <2>5, <2>6 DEF Ledger
<1>11. Spans'
  <2>1. Reached \in Nat /\ Reached <= clock
    BY DayTypes
  <2>2. clock' >= clock /\ Reached' >= Reached /\ Reached' \in Nat /\ clock <= Reached'
    BY <1>1, <2>1
  <2>3. Reloads
    BY <1>1, <1>5, <2>2 DEF Reloads
  <2> QED BY <1>1, <1>6, <1>8, <2>1, <2>2, <2>3, SpansKept
<1>12. Counted'
  BY <1>1, <1>5, <1>6, <1>8, LoadingCounts
<1> QED BY <1>8, <1>9, <1>10, <1>11, <1>12

\* A freeze or a new configuration keeps it.
LEMMA OutsideKeeps ==
  ASSUME TrkInv, Freeze \/ ReloadConfig
  PROVE  TrkInv'
<1> USE DEF TrkInv
<1>1. /\ UNCHANGED <<clock, at, dt, mem, store, active, fg, was_idle, had_prev, skipped,
                     lastSave, credit, used, away, excuse>>
      /\ frozen' \in BOOLEAN /\ tracked' \subseteq Exes /\ trkBad' \in Nat
  <2>1. CASE Freeze
    BY <2>1 DEF Freeze, TrkTypeOK
  <2>2. CASE ReloadConfig
    <3>1. tracked' \in SUBSET Exes /\ trkBad' = trkBad + 1
      BY <2>2 DEF ReloadConfig
    <3> QED BY <2>2, <3>1 DEF ReloadConfig, TrkTypeOK
  <2> QED BY <2>1, <2>2
<1>2. TrkTypeOK' /\ Bounds'
  BY <1>1 DEF TrkTypeOK, Bounds
<1>3. Ledger'
  BY <1>1 DEF Ledger, InStore, DayOf
<1>4. Spans'
  BY <1>1 DEF Spans, Reached
<1>5. Counted'
  BY <1>1 DEF Counted, Most, InStore, InMemory
<1> QED BY <1>2, <1>3, <1>4, <1>5

\* What an iteration's recording leaves in memory, in either case.
Ticked ==
  /\ mem' \in DayData /\ mem'.day = mem.day
  /\ active' \in [Exes -> Nat \cup {NoExe}] /\ credit' \in [TrkDays -> [Exes -> Nat]]
  /\ \A d \in TrkDays : d # mem.day => credit'[d] = credit[d]
  /\ \E n \in Nat :
       /\ used' = used + n
       /\ \A x \in Exes : \E k \in 0..n : /\ mem'.total[x] = mem.total[x] + k
                                       /\ credit'[mem.day][x] = credit[mem.day][x] + k
  /\ away' \in {away, away \cup {clock}}
  /\ \A x \in Exes : /\ Orderly(mem'.spans[x], away') /\ Before(mem'.spans[x], clock)
                     /\ Open(mem'.spans[x], active'[x], away')
  /\ was_idle' => active' = NothingActive

\* Before a tick is recorded the sessions of every application are in order.
LEMMA AllFit ==
  ASSUME TrkInv, at = "bottom"
  PROVE  Recording /\ \A x \in Exes : Fits(mem.spans[x], active[x])
<1> USE DEF TrkInv
<1>1. Recording
  BY DEF Recording, TrkTypeOK, Bounds, Spans
<1>2. ASSUME NEW x \in Exes
      PROVE  Fits(mem.spans[x], active[x])
  <2>1. /\ Orderly(mem.spans[x], away) /\ Before(mem.spans[x], Reached)
        /\ Open(mem.spans[x], active[x], away)
    BY DEF Spans
  <2>2. mem.spans[x] \in Seq(Span)
    BY DEF TrkTypeOK, DayData
  <2>3. \A i \in 1..Len(mem.spans[x]) : mem.spans[x][i].e \in Nat
    <3>1. \A i \in 1..Len(mem.spans[x]) : mem.spans[x][i] \in Span
      BY <2>2
    <3> QED BY <3>1 DEF Span
  <2>4. Before(mem.spans[x], clock)
    BY <1>1, <2>1, <2>3, DayTypes, SMTT(30) DEF Before
  <2> QED BY <2>1, <2>4 DEF Fits
<1> QED BY <1>1, <1>2

\* What a tick records, with the user there or not.
LEMMA BottomTicks ==
  ASSUME TrkInv, at = "bottom",
         NEW idle \in BOOLEAN, NEW x \in tracked \cup {NoExe}, NEW since \in 0..(dt - 1),
         NEW busy \in SUBSET tracked,
         LET r == Tick(idle, x, since, busy)
         IN mem' = r.mem /\ active' = r.active /\ credit' = r.credit,
         was_idle' = idle,
         used' = IF idle THEN used ELSE used + Least(dt, MAX_ELAPSED),
         away' = IF idle THEN away \cup {clock} ELSE away
  PROVE  Ticked
<1> USE DEF TrkInv
<1>1. Recording /\ \A y \in Exes : Fits(mem.spans[y], active[y])
  BY AllFit
<1>2. /\ clock \in Nat /\ dt \in 1..clock /\ used \in Nat /\ tracked \subseteq Exes
      /\ mem \in DayData /\ mem.day \in TrkDays /\ credit \in [TrkDays -> [Exes -> Nat]]
      /\ mem.total \in [Exes -> Nat] /\ mem.spans \in [Exes -> Seq(Span)]
  BY <1>1 DEF Recording, TrkTypeOK, DayData
<1>3. CASE idle
  <2>1. mem' = mem /\ credit' = credit /\ active' = NothingActive
    <3>1. was_idle => active = NothingActive
      BY DEF Spans
    <3> QED BY <1>3, <3>1 DEF Tick, close_sessions, AsItWas
  <2>2. \A y \in Exes : /\ mem.total[y] = mem.total[y] + 0
                        /\ credit[mem.day][y] = credit[mem.day][y] + 0
    BY <1>2
  <2>3. used' = used + 0 /\ 0 \in 0..0 /\ 0 \in Nat
    BY <1>2, <1>3
  <2>4. \A y \in Exes : /\ Orderly(mem.spans[y], away') /\ Before(mem.spans[y], clock)
                        /\ Open(mem.spans[y], active'[y], away')
    <3> TAKE y \in Exes
    <3>1. Orderly(mem.spans[y], away) /\ Before(mem.spans[y], clock)
      BY <1>1 DEF Fits
    <3>2. \A i \in 1..Len(mem.spans[y]) : mem.spans[y][i].e \in Nat
      <4>1. \A i \in 1..Len(mem.spans[y]) : mem.spans[y][i] \in Span
        BY <1>2
      <4> QED BY <4>1 DEF Span
    <3>3. Orderly(mem.spans[y], away')
      BY <1>2, <1>3, <3>1, <3>2 DEF Orderly, Before
    <3> QED BY <2>1, <3>1, <3>3 DEF Open, NothingActive
  <2>5. active' \in [Exes -> Nat \cup {NoExe}]
    BY <2>1 DEF NothingActive
  <2>6. \E n \in Nat :
          /\ used' = used + n
          /\ \A y \in Exes : \E k \in 0..n : /\ mem'.total[y] = mem.total[y] + k
                                          /\ credit'[mem.day][y] = credit[mem.day][y] + k
    BY <2>1, <2>2, <2>3
  <2> QED BY <1>2, <1>3, <2>1, <2>4, <2>5, <2>6 DEF Ticked
<1>4. CASE ~idle
  <2> DEFINE q == Tick(FALSE, x, since, busy)
             n == Least(dt, MAX_ELAPSED)
  <2>1. since \in Nat /\ busy \in SUBSET Exes /\ x \in Exes \cup {NoExe}
    BY <1>2
  <2>2. /\ q \in Rec /\ SameDay(q, AsItWas)
        /\ \A y \in Exes : Gains(q, AsItWas, y, n) /\ Fits(q.mem.spans[y], q.active[y])
    BY <1>1, <2>1, TickRecords
  <2>3. n \in Nat
    BY <1>2, TrackerAssumption DEF Least
  <2>4. /\ mem' = q.mem /\ active' = q.active /\ credit' = q.credit
        /\ used' = used + n /\ away' = away
    BY <1>4
  <2> HIDE DEF q, n
  <2>5. /\ mem'.day = mem.day /\ \A d \in TrkDays : d # mem.day => credit'[d] = credit[d]
    BY <2>2, <2>4 DEF SameDay, AsItWas
  <2>6. \A y \in Exes : \E k \in 0..n : /\ mem'.total[y] = mem.total[y] + k
                                      /\ credit'[mem.day][y] = credit[mem.day][y] + k
    BY <2>2, <2>4 DEF Gains, AsItWas
  <2>7. mem' \in DayData /\ active' \in [Exes -> Nat \cup {NoExe}]
        /\ credit' \in [TrkDays -> [Exes -> Nat]]
    BY <2>2, <2>4 DEF Rec
  <2>8. \A y \in Exes : /\ Orderly(mem'.spans[y], away') /\ Before(mem'.spans[y], clock)
                        /\ Open(mem'.spans[y], active'[y], away')
    BY <2>2, <2>4 DEF Fits
  <2> QED BY <1>4, <2>3, <2>4, <2>5, <2>6, <2>7, <2>8 DEF Ticked
<1> QED BY <1>3, <1>4

\* The save at the end of the iteration writes what memory now holds, or nothing.
LEMMA BottomSaves ==
  ASSUME TrkTypeOK, NEW m \in DayData,
         \/ /\ ~SaveDue
            /\ UNCHANGED <<store, skipped, lastSave, excuse, trkBad>>
         \/ /\ SaveDue /\ frozen /\ skipped' = TRUE
            /\ UNCHANGED <<store, lastSave, excuse, trkBad>>
         \/ /\ SaveDue /\ ~frozen /\ skipped' = FALSE /\ lastSave' = clock
            /\ \E written \in BOOLEAN :
                 /\ Works(written)
                 /\ store' = IF written THEN [store EXCEPT ![mem.day] = m] ELSE store
                 /\ excuse' = IF written THEN excuse ELSE excuse \cup {mem.day}
  PROVE  /\ Stores(m) /\ excuse' \subseteq TrkDays /\ excuse \subseteq excuse'
         /\ skipped' \in BOOLEAN /\ lastSave' \in Nat /\ trkBad' \in Nat
<1>1. mem.day \in TrkDays /\ store \in [TrkDays -> DayData \cup {NoDay}] /\ excuse \subseteq TrkDays
      /\ skipped \in BOOLEAN /\ lastSave \in Nat /\ trkBad \in Nat /\ clock \in Nat
  BY DEF TrkTypeOK, DayData
<1>2. CASE UNCHANGED <<store, lastSave, excuse, trkBad>> /\ skipped' \in {skipped, TRUE}
  BY <1>1, <1>2 DEF Stores
<1>3. CASE /\ skipped' = FALSE /\ lastSave' = clock
           /\ \E written \in BOOLEAN :
                /\ Works(written)
                /\ store' = IF written THEN [store EXCEPT ![mem.day] = m] ELSE store
                /\ excuse' = IF written THEN excuse ELSE excuse \cup {mem.day}
  <2>1. PICK written \in BOOLEAN :
          /\ Works(written)
          /\ store' = IF written THEN [store EXCEPT ![mem.day] = m] ELSE store
          /\ excuse' = IF written THEN excuse ELSE excuse \cup {mem.day}
    BY <1>3
  <2>2. trkBad' \in Nat
    BY <1>1, <2>1 DEF Works
  <2>3. Stores(m)
    BY <1>1, <2>1 DEF Stores
  <2> QED BY <1>1, <1>3, <2>1, <2>2, <2>3
<1> QED BY <1>2, <1>3

\* Recording a tick, and the save that may follow, keep the invariant.
LEMMA LoopBottomKeeps ==
  ASSUME TrkInv, LoopBottom
  PROVE  TrkInv'
<1> USE DEF TrkInv
<1>1. PICK idle \in BOOLEAN, x \in tracked \cup {NoExe}, since \in 0..(dt - 1), busy \in SUBSET tracked :
        LET r == Tick(idle, x, since, busy) IN
        /\ mem' = r.mem /\ active' = r.active /\ credit' = r.credit
        /\ fg' = IF idle THEN NoExe ELSE x
        /\ was_idle' = idle
        /\ used' = IF idle THEN used ELSE used + Least(dt, MAX_ELAPSED)
        /\ away' = IF idle THEN away \cup {clock} ELSE away
        /\ \/ /\ ~SaveDue
              /\ UNCHANGED <<store, skipped, lastSave, excuse, trkBad>>
           \/ /\ SaveDue /\ frozen /\ skipped' = TRUE
              /\ UNCHANGED <<store, lastSave, excuse, trkBad>>
           \/ /\ SaveDue /\ ~frozen /\ skipped' = FALSE /\ lastSave' = clock
              /\ \E written \in BOOLEAN :
                   /\ Works(written)
                   /\ store' = IF written THEN [store EXCEPT ![mem.day] = r.mem] ELSE store
                   /\ excuse' = IF written THEN excuse ELSE excuse \cup {mem.day}
  BY DEF LoopBottom
<1>2. /\ at = "bottom" /\ at' = "top" /\ clock' = clock /\ dt' = dt /\ tracked' = tracked
      /\ frozen' = frozen /\ had_prev' = (tracked # {} \/ had_prev)
  BY DEF LoopBottom
<1>3. Ticked
  BY <1>1, <1>2, BottomTicks
<1>4. /\ Stores(mem') /\ excuse' \subseteq TrkDays /\ excuse \subseteq excuse'
      /\ skipped' \in BOOLEAN /\ lastSave' \in Nat /\ trkBad' \in Nat
  <2>1. mem' \in DayData
    BY <1>3 DEF Ticked
  <2> QED BY <1>1, <2>1, BottomSaves
<1>5. /\ mem.day \in TrkDays /\ mem'.day = mem.day /\ mem \in DayData /\ mem' \in DayData
      /\ TrkDays \subseteq Nat /\ clock \in Nat /\ away \subseteq Nat /\ used \in Nat
      /\ store \in [TrkDays -> DayData \cup {NoDay}] /\ mem # NoDay /\ mem' # NoDay
  BY <1>3, DayTypes, NoDayAssumption DEF Ticked, TrkTypeOK
<1>6. /\ Reached' = clock /\ Reached \in Nat /\ Reached <= clock
  BY <1>2, DayTypes DEF Reached
<1>7. TrkTypeOK'
  <2>1. fg' \in Exes \cup {NoExe} /\ was_idle' \in BOOLEAN /\ had_prev' \in BOOLEAN
    BY <1>1, <1>2 DEF TrkTypeOK
  <2>2. used' \in Nat /\ away' \subseteq Nat
    <3>1. away' \subseteq Nat
      BY <1>3, <1>5 DEF Ticked
    <3>2. PICK n \in Nat : used' = used + n
      BY <1>3 DEF Ticked
    <3> QED BY <1>5, <3>1, <3>2
  <2>3. store' \in [TrkDays -> DayData \cup {NoDay}]
    BY <1>4 DEF Stores
  <2>4. /\ mem' \in DayData /\ active' \in [Exes -> Nat \cup {NoExe}]
        /\ credit' \in [TrkDays -> [Exes -> Nat]]
    BY <1>3 DEF Ticked
  <2>5. dt \in Nat /\ tracked \subseteq Exes /\ frozen \in BOOLEAN
    BY DEF TrkTypeOK
  <2> QED BY <1>2, <1>4, <1>5, <2>1, <2>2, <2>3, <2>4, <2>5 DEF TrkTypeOK
<1>8. Bounds'
  BY <1>2 DEF Bounds
<1>9. Ledger'
  <2>1. mem'.day = DayOf(clock)'
    BY <1>2, <1>5 DEF DayOf, Ledger
  <2>2. \A d \in TrkDays : store'[d] # NoDay => store'[d].day = d
    BY <1>4, <1>5 DEF Ledger, Stores
  <2>3. \A d \in TrkDays : d > mem.day => store'[d] = NoDay /\ \A y \in Exes : credit'[d][y] = 0
    <3> SUFFICES ASSUME NEW d \in TrkDays, d > mem.day
                 PROVE  store'[d] = NoDay /\ \A y \in Exes : credit'[d][y] = 0
      OBVIOUS
    <3>1. d # mem.day
      BY <1>5
    <3> QED BY <1>3, <1>4, <3>1 DEF Ledger, Stores, Ticked
  <2>4. \A d \in TrkDays \ excuse' : d # mem.day => \A y \in Exes : InStore(d, y)' = credit'[d][y]
    BY <1>3, <1>4 DEF Ledger, Stores, InStore, Ticked
  <2>5. mem.day \notin excuse' => \A y \in Exes : mem'.total[y] = credit'[mem.day][y]
    <3> SUFFICES ASSUME mem.day \notin excuse', NEW y \in Exes
                 PROVE  mem'.total[y] = credit'[mem.day][y]
      OBVIOUS
    <3>1. mem.total[y] = credit[mem.day][y]
      BY <1>4 DEF Ledger
    <3>2. \E k \in Nat : /\ mem'.total[y] = mem.total[y] + k
                         /\ credit'[mem.day][y] = credit[mem.day][y] + k
      BY <1>3 DEF Ticked
    <3> QED BY <3>1, <3>2
  <2> QED BY <1>2, <1>5, <2>1, <2>2, <2>3, <2>4, <2>5 DEF Ledger
<1>10. Spans'
  <2>1. \A y \in Exes : /\ Orderly(mem'.spans[y], away') /\ Before(mem'.spans[y], clock)
                        /\ Open(mem'.spans[y], active'[y], away')
    BY <1>3 DEF Ticked
  <2>2. ASSUME NEW d \in TrkDays, store'[d] # NoDay, NEW y \in Exes
        PROVE  Orderly(store'[d].spans[y], away') /\ Before(store'[d].spans[y], clock)
    <3>1. CASE store'[d] = mem'
      BY <2>1, <3>1
    <3>2. CASE store'[d] = store[d]
      <4>1. store[d] \in DayData
        BY <1>5, <2>2, <3>2
      <4>2. store[d].spans[y] \in Seq(Span)
        BY <4>1 DEF DayData
      <4>3. Orderly(store[d].spans[y], away) /\ Before(store[d].spans[y], clock)
        BY <2>2, <3>2 DEF Spans
      <4>4. \A i \in 1..Len(store[d].spans[y]) : store[d].spans[y][i].e \in Nat
        <5>1. \A i \in 1..Len(store[d].spans[y]) : store[d].spans[y][i] \in Span
          BY <4>2
        <5> QED BY <5>1 DEF Span
      <4>5. away' \in {away, away \cup {clock}}
        BY <1>3 DEF Ticked
      <4>6. Orderly(store[d].spans[y], away')
        BY <1>5, <4>3, <4>4, <4>5 DEF Orderly, Before
      <4> QED BY <3>2, <4>3, <4>6
    <3> QED BY <1>4, <3>1, <3>2 DEF Stores
  <2>3. \A t \in away' : t <= clock
    <3>1. \A t \in away : t <= Reached /\ t \in Nat
      BY <1>5 DEF Spans
    <3> QED BY <1>3, <1>5, <1>6, <3>1 DEF Ticked
  <2>4. was_idle' => active' = NothingActive
    BY <1>3 DEF Ticked
  <2> QED BY <1>2, <1>6, <2>1, <2>2, <2>3, <2>4 DEF Spans
<1>11. Counted'
  <2>1. PICK n \in Nat :
          /\ used' = used + n
          /\ \A y \in Exes : \E k \in 0..n : mem'.total[y] = mem.total[y] + k
    BY <1>3 DEF Ticked
  <2>2. ASSUME NEW y \in Exes, NEW d \in TrkDays
        PROVE  IF d = mem.day THEN Most(d, y)' <= Most(d, y) + n ELSE Most(d, y)' <= Most(d, y)
    <3>1. mem.total[y] \in Nat /\ (store[d] # NoDay => store[d].total[y] \in Nat)
      BY <1>5 DEF DayData
    <3>2. InStore(d, y) \in Nat
      BY <3>1 DEF InStore
    <3>3. CASE d = mem.day
      <4>1. mem'.total[y] \in Nat /\ mem'.total[y] <= mem.total[y] + n
        BY <2>1, <3>1
      <4>2. InStore(d, y)' \in {InStore(d, y), mem'.total[y]}
        BY <1>4, <1>5, <3>3 DEF Stores, InStore
      <4>3. InMemory(d, y) = mem.total[y] /\ InMemory(d, y)' = mem'.total[y]
        BY <1>5, <3>3 DEF InMemory
      <4> QED BY <3>1, <3>2, <3>3, <4>1, <4>2, <4>3 DEF Most
    <3>4. CASE d # mem.day
      <4>1. InStore(d, y)' = InStore(d, y) /\ InMemory(d, y) = 0 /\ InMemory(d, y)' = 0
        BY <1>4, <1>5, <3>4 DEF Stores, InStore, InMemory
      <4> QED BY <3>2, <3>4, <4>1 DEF Most
    <3> QED BY <3>3, <3>4
  <2> QED BY <1>5, <1>7, <2>1, <2>2, CountedKept
<1> QED BY <1>7, <1>8, <1>9, <1>10, <1>11

-----------------------------------------------------------------------------

\* The invariant of the tracker: types, the books of every day, the sessions in
\* order, and the seconds counted.
THEOREM TrackerInvariant == TrkSpec => []TrkInv
<1>1. TrkInit => TrkInv
  <2> SUFFICES ASSUME TrkInit
               PROVE  TrkInv
    OBVIOUS
  <2> USE DEF TrkInit
  <2>1. TrkStart \in Nat /\ TrkEnd \in Nat /\ TrkStart <= TrkEnd
    BY TrackerAssumption
  <2>2. DayOf(TrkStart) \in TrkDays /\ DayOf(TrkStart) \in Nat /\ TrkDays \subseteq Nat
    <3>1. DayOf(TrkStart) \in Nat /\ DayOf(TrkEnd) \in Nat /\ DayOf(TrkStart) <= DayOf(TrkEnd)
      BY <2>1, DayOfGrows
    <3> QED BY <3>1 DEF TrkDays
  <2>3. /\ mem \in DayData /\ mem.day = DayOf(TrkStart)
        /\ \A x \in Exes : mem.total[x] = 0 /\ mem.spans[x] = <<>>
    BY <2>2, EmptyDay
  <2>4. TrkTypeOK
    BY <2>1, <2>3 DEF TrkTypeOK, NothingActive
  <2>5. Bounds
    BY <2>1 DEF Bounds
  <2>6. Ledger
    <3>1. \A d \in TrkDays, x \in Exes : InStore(d, x) = 0 /\ credit[d][x] = 0
      BY DEF InStore
    <3> QED BY <2>2, <2>3, <3>1 DEF Ledger
  <2>7. Spans
    <3>1. Orderly(<<>>, away) /\ Before(<<>>, Reached)
      BY DEF Orderly, Before
    <3> QED BY <2>3, <3>1 DEF Spans, Open, NothingActive
  <2>8. Counted
    <3> SUFFICES ASSUME NEW x \in Exes
                 PROVE  OverAllDays([d \in TrkDays |-> Most(d, x)]) <= used
      BY DEF Counted
    <3> DEFINE f == [d \in TrkDays |-> Most(d, x)]
    <3>1. f \in [TrkDays -> Nat] /\ \A d \in TrkDays : f[d] = 0
      BY <2>3 DEF Most, InStore, InMemory
    <3> HIDE DEF f
    <3>2. PICK T \in [TrkDays -> Nat] :
            /\ \A d \in TrkDays : T[d] = f[d] + (IF d = 0 THEN 0 ELSE T[d - 1])
            /\ OverAllDays(f) = T[DayOf(TrkEnd)]
      BY <3>1, DaysAdded
    <3>3. \A d \in TrkDays : T[d] = 0
      <4> DEFINE Fails == {d \in TrkDays : T[d] # 0}
      <4> SUFFICES ASSUME Fails # {}
                   PROVE  FALSE
        BY Zenon
      <4>1. Fails \in SUBSET Nat
        BY <2>2
      <4>2. PICK d \in Fails : \A j \in Fails : <<j, d>> \notin Numbered
        BY <4>1, NumberedWellFounded, WFMin
      <4>3. d \in TrkDays /\ T[d] # 0 /\ d \in Nat
        BY <2>2
      <4>4. ASSUME d # 0
            PROVE  T[d - 1] = 0
        <5>1. d - 1 \in TrkDays
          BY <2>1, <4>3, <4>4, DayOfGrows DEF TrkDays
        <5>2. <<d - 1, d>> \in Numbered
          BY <4>3, <4>4 DEF Numbered
        <5> QED BY <4>2, <5>1, <5>2
      <4>5. T[d] = f[d] + (IF d = 0 THEN 0 ELSE T[d - 1]) /\ f[d] = 0
        BY <3>1, <3>2, <4>3
      <4> QED BY <4>3, <4>4, <4>5
    <3>4. DayOf(TrkEnd) \in TrkDays
      BY <2>1, DayOfGrows DEF TrkDays
    <3>5. OverAllDays(f) = 0
      BY <3>2, <3>3, <3>4
    <3> QED BY <3>5 DEF f
  <2> QED BY <2>4, <2>5, <2>6, <2>7, <2>8 DEF TrkInv
<1>2. TrkInv /\ [TrkNext]_trkVars => TrkInv'
  <2> SUFFICES ASSUME TrkInv, [TrkNext]_trkVars
               PROVE  TrkInv'
    OBVIOUS
  <2>1. CASE \E n \in 1..MaxWait : LoopTop(n) \/ SleepDetected(n) \/ Start(n)
    BY <2>1, LoopTopKeeps, SleepKeeps, StartKeeps
  <2>2. CASE LoopBottom
    BY <2>2, LoopBottomKeeps
  <2>3. CASE Shutdown
    BY <2>3, ShutdownKeeps
  <2>4. CASE Freeze \/ ReloadConfig
    BY <2>4, OutsideKeeps
  <2>5. CASE UNCHANGED trkVars
    BY <2>5, SMTT(30) DEF trkVars, TrkInv, TrkTypeOK, Bounds, Ledger, Spans, Counted, Reached, InStore,
                InMemory, Most, DayOf
  <2> QED BY <2>1, <2>2, <2>3, <2>4, <2>5 DEF TrkNext
<1> QED BY <1>1, <1>2, PTL DEF TrkSpec

\* What was credited to a day that is over, or before the thread stopped, is in the
\* store, but for days with a reason.
THEOREM LossTheorem == TrkSpec => []LossHasAReason
<1>1. TrkInv => LossHasAReason
  <2> SUFFICES ASSUME TrkInv, NEW d \in TrkDays \ excuse, d < mem.day \/ at = "stopped",
                      NEW x \in Exes
               PROVE  InStore(d, x) = credit[d][x]
    BY DEF LossHasAReason, InStore
  <2>1. CASE d # mem.day
    BY <2>1 DEF TrkInv, Ledger
  <2>2. CASE d = mem.day
    <3>1. at = "stopped" /\ mem # NoDay
      BY <2>2, DayTypes, NoDayAssumption DEF TrkInv
    <3> QED BY <2>2, <3>1 DEF TrkInv, Ledger, InStore
  <2> QED BY <2>1, <2>2
<1> QED BY <1>1, TrackerInvariant, PTL

\* The seconds of an application, over all days, are seconds in which the user was
\* there, and its sessions neither overlap nor run over a moment of absence.
THEOREM TrackedTheorem == TrkSpec => []TrackedTimeIsReal
<1>1. TrkInv => NoTimeInvented
  <2> SUFFICES ASSUME TrkInv, NEW x \in Exes
               PROVE  TotalOf(x) <= used
    BY DEF NoTimeInvented
  <2> USE DEF TrkInv
  <2> DEFINE f == [d \in TrkDays |-> Most(d, x)]
             g == [d \in TrkDays |-> IF Recordings(d) = NoDay THEN 0 ELSE Recordings(d).total[x]]
  <2>1. /\ mem \in DayData /\ mem.day \in TrkDays /\ store \in [TrkDays -> DayData \cup {NoDay}]
        /\ mem # NoDay /\ used \in Nat
    BY DayTypes, NoDayAssumption DEF TrkTypeOK
  <2>2. ASSUME NEW d \in TrkDays
        PROVE  f[d] \in Nat /\ g[d] \in Nat /\ g[d] <= f[d]
    <3>1. mem.total[x] \in Nat /\ (store[d] # NoDay => store[d].total[x] \in Nat)
      BY <2>1 DEF DayData
    <3> QED BY <2>1, <3>1 DEF Recordings, Most, InStore, InMemory
  <2>3. OverAllDays(f) <= used /\ TotalOf(x) = OverAllDays(g)
    BY DEF Counted, TotalOf
  <2>4. f \in [TrkDays -> Nat] /\ g \in [TrkDays -> Nat]
    BY <2>2
  <2> HIDE DEF f, g
  <2>5. \A d \in TrkDays : IF d = mem.day THEN g[d] <= f[d] + 0 ELSE g[d] <= f[d]
    BY <2>2
  <2>6. OverAllDays(f) \in Nat /\ OverAllDays(g) \in Nat /\ OverAllDays(g) <= OverAllDays(f) + 0
    BY <2>1, <2>4, <2>5, SumGrows
  <2> QED BY <2>1, <2>3, <2>6
<1>2. TrkInv => AwayTimeStaysOut
  BY DEF TrkInv, AwayTimeStaysOut, Recordings, Spans, Orderly
<1> QED BY <1>1, <1>2, TrackerInvariant, PTL DEF TrackedTimeIsReal
=============================================================================
