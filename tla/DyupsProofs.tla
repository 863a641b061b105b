---------------------------- MODULE DyupsProofs -----------------------------
(***************************************************************************)
(* Proofs about Dyups, for any number of workers, upstreams, messages and  *)
(* faults.                                                                 *)
(*                                                                         *)
(* First, that the pids fit in the arrays of worker_processes entries      *)
(* (PidsInv, PidsFitCorrect).  Then, that every command reaches every      *)
(* worker that has not crashed (DeliveryInv, SurvivorsCurrentCorrect).     *)
(* The second has three parts:                                             *)
(*  - sh->status: each worker can be assigned an entry of its own, those   *)
(*    of the survivors hold their pids, and a new process that sleeps has  *)
(*    one that is older than those of all who have read since (Placed), so *)
(*    the oldest entry is not a survivor's;                                *)
(*  - the pids in a message: while a survivor has not applied it they are  *)
(*    of different workers (Owed), so the message is not full;             *)
(*  - the queue: what a survivor has yet to apply ends with what all       *)
(*    commands add up to (Streamed).                                       *)
(***************************************************************************)
EXTENDS Dyups, Sequences, FiniteSetTheorems, WellFoundedInduction, TLAPS

Entry == [pid : {NoPid} \union (Workers \X Nat), time : 0..N]

(* The entries of sh->status are taken from the first on; k of them have   *)
(* been, and those are younger than the others.                            *)
Prefix(s, k) ==
    /\ k \in 0..N
    /\ s \in [Slots -> Entry]
    /\ \A i \in Slots :
          /\ i <= k => s[i].pid # NoPid /\ s[i].time > N - k
          /\ i > k => s[i].pid = NoPid /\ s[i].time = 0

(* No pid has two entries.                                                 *)
Apart(s) ==
    \A i, j \in Slots : (s[i].pid = s[j].pid /\ i # j) => s[i].pid = NoPid

Table(s) == (\E k \in 0..N : Prefix(s, k)) /\ Apart(s)

(* The pids in it belong to processes that have been started.              *)
Known(s) ==
    \A i \in Slots, w \in Workers, n \in Nat : s[i].pid = <<w, n>> =>
       /\ n <= inc[w]
       /\ state[w] \in {"forked", "asleep"} => n < inc[w]

Message == [id : Nat, name : Names, content : Contents \union {Absent},
            acks : SUBSET (Workers \X Nat)]

Fits(q) ==
    q \subseteq Message /\ \A m \in q : IsFiniteSet(m.acks) /\ Cardinality(m.acks) <= N

PidsInv ==
    /\ state \in [Workers -> {"dead", "forked", "asleep", "running"}]
    /\ inc \in [Workers -> Nat] /\ version \in Nat
    /\ Table(status) /\ Known(status) /\ Fits(queue)

-----------------------------------------------------------------------------
(* The arithmetic of the counters.                                         *)
LEMMA Counting ==
  /\ 1 <= 1
  /\ \A n \in Nat : n <= n /\ n + 1 \in Nat /\ 1 <= n + 1
  /\ \A n \in Nat : \A k \in 0..n : k \in Nat
  /\ \A n \in Nat : n + 1 \in 1..(n + 1)
  /\ \A n \in Nat : \A k \in 1..n : k \in 1..(n + 1) /\ ~(k > n)
  /\ \A n \in Nat : \A a, b \in 0..n : a < b => ~(b < a \/ b = a)
OBVIOUS

(* Two pairs are the same when their parts are.                            *)
LEMMA SamePair ==
  \A a, b, c, d : <<a, b>> = <<c, d>> => a = c /\ b = d
OBVIOUS

(* There is at least one worker.                                           *)
LEMMA NFact == N \in Nat \ {0}
<1>1. N \in Nat
  BY ConstantsAssumption, FS_CardinalityType DEF N
<1>2. N # 0
  BY ConstantsAssumption, FS_EmptySet DEF N
<1> QED
  BY <1>1, <1>2

(* A pid is not the empty one.                                             *)
LEMMA RealPid ==
  ASSUME NEW p \in Workers \X Nat
  PROVE  p # NoPid
<1>1. PICK w \in Workers, n \in Nat : p = <<w, n>>
  OBVIOUS
<1>2. Len(<<w, n>>) = 2 /\ Len(<<>>) = 0
  OBVIOUS
<1> QED
  BY <1>1, <1>2 DEF NoPid

(* A set of numbers that is not empty has a smallest one.                  *)
LEMMA Smallest ==
  ASSUME NEW S \in SUBSET Nat, S # {}
  PROVE  \E x \in S : \A y \in S : x <= y
<1> DEFINE R == {ss \in Nat \X Nat : ss[1] < ss[2]}
<1>1. IsWellFoundedOn(R, Nat)
  BY NatLessThanWellFounded, Zenon DEF OpToRel
<1>2. \A x, y \in Nat : x < y => <<x, y>> \in R
  OBVIOUS
<1> HIDE DEF R
<1>3. PICK x \in S : \A y \in S : ~(<<y, x>> \in R)
  BY <1>1, WFMin, Zenon
<1>4. ASSUME NEW y \in S PROVE x <= y
  <2>1. x \in Nat /\ y \in Nat /\ ~(<<y, x>> \in R)
    BY <1>3
  <2>2. ~(y < x)
    BY <1>2, <2>1, Zenon
  <2> QED
    BY <2>1, <2>2
<1> QED
  BY <1>4

(* The search for the oldest entry finds one.                              *)
LEMMA OldestFound ==
  ASSUME NEW s, NEW k, Prefix(s, k)
  PROVE  /\ Oldest(s) \in Slots
         /\ \A j \in Slots : s[Oldest(s)].time < s[j].time
               \/ (s[Oldest(s)].time = s[j].time /\ Oldest(s) <= j)
<1> DEFINE First0(i) == \A j \in Slots :
               s[i].time < s[j].time \/ (s[i].time = s[j].time /\ i <= j)
           T == {s[i].time : i \in Slots}
<1>1. N \in Nat \ {0} /\ \A i \in Slots : s[i].time \in Nat /\ i \in Nat
  BY NFact DEF Prefix, Slots, Entry
<1>2. T \in SUBSET Nat /\ T # {}
  <2>1. 1 \in Slots
    BY <1>1 DEF Slots
  <2> QED
    BY <1>1, <2>1
<1>3. PICK t \in T : \A u \in T : t <= u
  <2> HIDE DEF T
  <2> QED
    BY <1>2, Smallest
<1> DEFINE I == {i \in Slots : s[i].time = t}
<1>4. I \in SUBSET Nat /\ I # {}
  BY <1>1, <1>3
<1>5. PICK i \in I : \A j \in I : i <= j
  <2> HIDE DEF I
  <2> QED
    BY Zenon, <1>4, Smallest
<1>6. i \in Slots /\ First0(i)
  <2>1. i \in Slots /\ s[i].time = t
    BY <1>5
  <2>2. ASSUME NEW j \in Slots
        PROVE  s[i].time < s[j].time \/ (s[i].time = s[j].time /\ i <= j)
    <3>1. t <= s[j].time /\ s[j].time \in Nat /\ t \in Nat
      BY <1>1, <1>3
    <3>2. s[j].time = t => i <= j
      BY <1>5
    <3> QED
      BY <2>1, <3>1, <3>2
  <2> QED
    BY <2>1, <2>2
<1>7. Oldest(s) = CHOOSE x \in Slots : First0(x)
  BY DEF Oldest
<1> HIDE DEF First0
<1>8. Oldest(s) \in Slots /\ First0(Oldest(s))
  BY <1>6, <1>7, Zenon
<1> QED
  BY <1>8 DEF First0

(* Entry i becomes p's: one of those taken, or the first that is not.      *)
LEMMA TouchedPrefix ==
  ASSUME NEW s, NEW k, Prefix(s, k), NEW i \in Slots, i <= k + 1,
         NEW p \in Workers \X Nat
  PROVE  /\ \E l \in 0..N : Prefix(Touched(s, i, p), l)
         /\ \A j \in Slots : Touched(s, i, p)[j].pid = IF j = i THEN p ELSE s[j].pid
<1> DEFINE t == Touched(s, i, p)
<1>1. N \in Nat /\ k \in 0..N /\ i \in 1..N /\ p # NoPid
  BY NFact, RealPid DEF Prefix, Slots
<1>2. t = [j \in Slots |->
              IF j = i THEN [pid |-> p, time |-> N]
              ELSE IF s[j].time > s[i].time THEN [pid |-> s[j].pid, time |-> s[j].time - 1]
              ELSE s[j]]
  BY DEF Touched
<1>3. \A j \in Slots : s[j] \in Entry /\ s[j].time \in 0..N
  BY DEF Prefix, Entry
<1> HIDE DEF t
<1>4. ASSUME NEW j \in Slots
      PROVE  /\ t[j] \in Entry /\ t[j].time \in 0..N
             /\ j = i => t[j].pid = p /\ t[j].time = N
             /\ j # i => t[j].pid = s[j].pid
             /\ j # i /\ s[j].time <= s[i].time => t[j].time = s[j].time
             /\ j # i /\ s[j].time > s[i].time => t[j].time = s[j].time - 1
  <2>1. CASE j = i
    BY <1>1, <1>2, <2>1 DEF Entry
  <2>2. CASE j # i /\ s[j].time > s[i].time
    <3>1. t[j] = [pid |-> s[j].pid, time |-> s[j].time - 1]
      BY <1>2, <2>2
    <3>2. s[j].time - 1 \in 0..N /\ s[i].time \in 0..N /\ s[j].time \in 0..N
      <4>1. s[i].time \in 0..N /\ s[j].time \in 0..N
        BY <1>3, Zenon
      <4> QED
        BY <1>1, <2>2, <4>1
    <3>3. s[j].pid \in {NoPid} \union (Workers \X Nat)
      BY <1>3 DEF Entry
    <3>4. t[j] \in Entry
      BY <3>1, <3>2, <3>3 DEF Entry
    <3>5. t[j].pid = s[j].pid /\ t[j].time = s[j].time - 1
      BY <3>1
    <3> QED
      BY <1>3, <2>2, <3>2, <3>4, <3>5
  <2>3. CASE j # i /\ ~(s[j].time > s[i].time)
    <3>1. t[j] = s[j]
      BY <1>2, <2>3
    <3> QED
      BY <1>1, <1>3, <2>3, <3>1
  <2> QED
    BY <2>1, <2>2, <2>3
<1>5. t \in [Slots -> Entry]
  <2>1. t = [j \in Slots |-> t[j]]
    BY <1>2, Zenon
  <2> QED
    BY <1>4, <2>1, Zenon
<1>6. ASSUME NEW l \in {k, k + 1}, l \in 0..N, i <= l, i = l \/ l = k, NEW j \in Slots
      PROVE  /\ j <= l => t[j].pid # NoPid /\ t[j].time > N - l
             /\ j > l => t[j].pid = NoPid /\ t[j].time = 0
  <2>1. /\ j <= k => s[j].pid # NoPid /\ s[j].time > N - k
        /\ j > k => s[j].pid = NoPid /\ s[j].time = 0
        /\ i <= k => s[i].time > N - k
        /\ i > k => s[i].time = 0
    BY DEF Prefix
  <2>2. s[j].time \in 0..N /\ s[i].time \in 0..N /\ t[j].time \in 0..N /\ j \in 1..N
    BY <1>3, <1>4 DEF Slots
  <2> HIDE DEF Prefix
  <2>3. CASE j = i
    BY <1>1, <1>4, <1>6, <2>3
  <2>4. CASE j # i
    <3>1. (j <= l) <=> (j <= k)
      BY <1>1, <1>6, <2>2, <2>4
    <3>2. t[j].pid = s[j].pid
      BY <1>4, <2>4
    <3>3. j <= l => t[j].time > N - l
      BY <1>1, <1>4, <1>6, <2>1, <2>2, <2>4, <3>1
    <3>4. j > l => t[j].time = 0
      BY <1>1, <1>4, <1>6, <2>1, <2>2, <2>4, <3>1
    <3> QED
      BY <1>1, <1>6, <2>1, <2>2, <3>1, <3>2, <3>3, <3>4
  <2> QED
    BY <2>3, <2>4
<1>7. \E l \in 0..N : Prefix(t, l)
  <2>1. PICK l \in 0..N : l \in {k, k + 1} /\ i <= l /\ (i = l \/ l = k)
    BY <1>1
  <2>2. Prefix(t, l)
    BY <1>5, <1>6, <2>1, Zenon DEF Prefix
  <2> QED
    BY <2>2
<1>8. \A j \in Slots : t[j].pid = IF j = i THEN p ELSE s[j].pid
  BY <1>4
<1> QED
  BY <1>7, <1>8, Zenon DEF t

(* Entry i becomes p's, which has none yet, or has this one.               *)
LEMMA TouchedTable ==
  ASSUME NEW s, NEW k, Prefix(s, k), Apart(s), NEW i \in Slots, i <= k + 1,
         NEW p \in Workers \X Nat,
         s[i].pid = p \/ \A j \in Slots : s[j].pid # p
  PROVE  /\ Table(Touched(s, i, p))
         /\ \A j \in Slots : Touched(s, i, p)[j].pid \in {s[j].pid, p}
<1>1. (\E l \in 0..N : Prefix(Touched(s, i, p), l))
  BY TouchedPrefix
<1>2. \A j \in Slots : Touched(s, i, p)[j].pid = IF j = i THEN p ELSE s[j].pid
  BY TouchedPrefix
<1>3. Apart(Touched(s, i, p))
  <2> SUFFICES ASSUME NEW x \in Slots, NEW y \in Slots, x # y,
                      Touched(s, i, p)[x].pid = Touched(s, i, p)[y].pid
               PROVE  Touched(s, i, p)[x].pid = NoPid
    BY Zenon DEF Apart
  <2>1. s[x].pid = s[y].pid => s[x].pid = NoPid
    BY Zenon DEF Apart
  <2>2. /\ Touched(s, i, p)[x].pid = IF x = i THEN p ELSE s[x].pid
        /\ Touched(s, i, p)[y].pid = IF y = i THEN p ELSE s[y].pid
    BY <1>2, Zenon
  <2>3. x # i /\ y # i
    <3>1. p # NoPid
      BY RealPid
    <3>2. \A z \in Slots : z # i => s[z].pid # p
      BY <3>1, Zenon DEF Apart
    <3> QED
      BY <2>2, <3>2, Zenon
  <2> QED
    BY <2>1, <2>2, <2>3, Zenon
<1>4. \A j \in Slots : Touched(s, i, p)[j].pid \in {s[j].pid, p}
  BY <1>2, Zenon
<1> QED
  BY <1>1, <1>3, <1>4, Zenon DEF Table

(* Reader p writes no entry of s, or entry i when k of them are taken.     *)
WritesNone(s, p) ==
    ReadStatus(s, p) = s /\ \A i \in Slots : s[i].pid # NoPid /\ s[i].pid # p

Writes(s, p, k, i) ==
    /\ Prefix(s, k) /\ i <= k + 1 /\ ReadStatus(s, p) = Touched(s, i, p)
    /\ s[i].pid = p \/ (s[i].pid = NoPid /\ \A j \in Slots : s[j].pid # p)

(* read_msg_locked: which entry a worker writes its time in.               *)
LEMMA ReadShape ==
  ASSUME NEW s, Table(s), NEW p \in Workers \X Nat
  PROVE  WritesNone(s, p) \/ \E k \in 0..N, i \in Slots : Writes(s, p, k, i)
<1> DEFINE M == Mine(s, p)
           f == First(M)
<1>1. CASE M = {}
  BY <1>1, Zenon DEF ReadStatus, Mine, WritesNone
<1>2. CASE M # {}
  <2>1. PICK k \in 0..N : Prefix(s, k)
    BY Zenon DEF Table
  <2>2. M \in SUBSET Nat /\ \A j \in M : j \in Slots /\ s[j].pid \in {NoPid, p}
    BY NFact DEF Mine, Slots
  <2>3. f \in M /\ \A j \in M : f <= j
    <3>1. f = CHOOSE x \in M : \A y \in M : x <= y
      BY Zenon DEF First
    <3> HIDE DEF M, f
    <3>2. \E x \in M : \A y \in M : x <= y
      BY <1>2, <2>2, Smallest
    <3> QED
      BY <3>1, <3>2, Zenon
  <2>4. /\ N \in Nat /\ p # NoPid
        /\ \A j \in Slots : j \in 1..N /\ (s[j].pid \in {NoPid, p} => j \in M)
        /\ \A j \in 1..N : j \in Slots
    BY NFact, RealPid DEF Mine, Slots
  <2>5. \A j \in Slots : (j <= k => s[j].pid # NoPid) /\ (j > k => s[j].pid = NoPid)
    BY <2>1 DEF Prefix
  <2> HIDE DEF M, f
  <2>6. f \in Slots /\ f <= k + 1
    <3>1. f \in 1..N
      BY <2>2, <2>3, <2>4
    <3>2. k < N => k + 1 \in 1..N /\ k + 1 > k
      BY <2>1, <2>4
    <3>3. k < N => f <= k + 1
      BY <2>3, <2>4, <2>5, <3>2
    <3> QED
      BY <2>1, <2>4, <3>1, <3>3
  <2>7. s[f].pid = p \/ (s[f].pid = NoPid /\ \A j \in Slots : s[j].pid # p)
    <3> SUFFICES ASSUME s[f].pid # p
                 PROVE  s[f].pid = NoPid /\ \A j \in Slots : s[j].pid # p
      OBVIOUS
    <3>1. s[f].pid = NoPid
      BY Zenon, <2>2, <2>3
    <3>2. ASSUME NEW j \in Slots, s[j].pid = p PROVE FALSE
      <4>1. f <= j
        BY Zenon, <2>3, <2>4, <3>2
      <4>2. f > k /\ ~(j > k)
        BY <2>1, <2>4, <2>5, <2>6, <3>1, <3>2
      <4> QED
        BY <2>1, <2>4, <2>6, <4>1, <4>2
    <3> QED
      BY <3>1, <3>2
  <2>8. ReadStatus(s, p) = Touched(s, f, p)
    BY <1>2, Zenon DEF ReadStatus, M, f
  <2>9. Writes(s, p, k, f)
    BY <2>1, <2>6, <2>7, <2>8, Zenon DEF Writes
  <2> QED
    BY <2>6, <2>9, Zenon
<1> QED
  BY <1>1, <1>2

(* The table after it.                                                     *)
LEMMA ReadTable ==
  ASSUME NEW s, Table(s), NEW p \in Workers \X Nat
  PROVE  /\ Table(ReadStatus(s, p))
         /\ \A j \in Slots : ReadStatus(s, p)[j].pid \in {s[j].pid, p}
<1>1. CASE WritesNone(s, p)
  BY <1>1, Zenon DEF WritesNone
<1>2. ASSUME NEW k \in 0..N, NEW i \in Slots, Writes(s, p, k, i)
      PROVE  /\ Table(ReadStatus(s, p))
             /\ \A j \in Slots : ReadStatus(s, p)[j].pid \in {s[j].pid, p}
  <2>1. Apart(s)
    BY Zenon DEF Table
  <2>2. /\ Table(Touched(s, i, p))
        /\ \A j \in Slots : Touched(s, i, p)[j].pid \in {s[j].pid, p}
    BY Zenon, <1>2, <2>1, TouchedTable DEF Writes
  <2> QED
    BY Zenon, <1>2, <2>2 DEF Writes
<1> QED
  BY <1>1, <1>2, ReadShape, Zenon

(* init_process: which entry a new worker takes.                           *)
LEMMA WakeShape ==
  ASSUME NEW s, Table(s)
  PROVE  \E k \in 0..N : Prefix(s, k) /\ Oldest(s) \in Slots /\ Oldest(s) <= k + 1
<1>1. PICK k \in 0..N : Prefix(s, k)
  BY Zenon DEF Table
<1> DEFINE i == Oldest(s)
<1>2. i \in Slots /\ \A j \in Slots :
         s[i].time < s[j].time \/ (s[i].time = s[j].time /\ i <= j)
  BY <1>1, OldestFound
<1>3. N \in Nat /\ \A j \in Slots : j > k => s[j].time = 0
  BY <1>1, NFact DEF Prefix
<1> HIDE DEF i
<1>4. i <= k + 1
  <2> SUFFICES ASSUME ~(i <= k + 1) PROVE FALSE
    OBVIOUS
  <2>1. i \in 1..N /\ k + 1 \in 1..N /\ k + 1 \in Slots /\ i > k /\ k + 1 > k
    BY <1>1, <1>2, <1>3 DEF Slots
  <2>2. s[i].time = 0 /\ s[k + 1].time = 0
    BY <1>2, <1>3, <2>1
  <2> QED
    BY <1>2, <2>1, <2>2
<1> QED
  BY <1>1, <1>2, <1>4, Zenon DEF i

(* The table after it.                                                     *)
LEMMA WakeTable ==
  ASSUME NEW s, Table(s), NEW p \in Workers \X Nat, \A j \in Slots : s[j].pid # p
  PROVE  /\ Table(Touched(s, Oldest(s), p)) /\ Oldest(s) \in Slots
         /\ \A j \in Slots : Touched(s, Oldest(s), p)[j].pid \in {s[j].pid, p}
<1>1. PICK k \in 0..N : Prefix(s, k) /\ Oldest(s) \in Slots /\ Oldest(s) <= k + 1
  BY WakeShape, Zenon
<1>2. Apart(s)
  BY Zenon DEF Table
<1> QED
  BY <1>1, <1>2, TouchedTable, Zenon

-----------------------------------------------------------------------------
(* One more pid in a message that is not full.                             *)
LEMMA OneMore ==
  ASSUME NEW m \in Message, IsFiniteSet(m.acks), Cardinality(m.acks) <= N, ~Full(m),
         NEW p \in Workers \X Nat
  PROVE  LET x == [m EXCEPT !.acks = @ \union {p}]
         IN  x \in Message /\ IsFiniteSet(x.acks) /\ Cardinality(x.acks) <= N
<1> DEFINE x == [m EXCEPT !.acks = @ \union {p}]
<1>1. x \in Message /\ x.acks = m.acks \union {p}
  BY DEF Message
<1>2. Cardinality(m.acks) \in Nat /\ N \in Nat /\ Cardinality(m.acks) # N
  BY FS_CardinalityType, NFact DEF Full
<1>3. /\ IsFiniteSet(m.acks \union {p})
      /\ Cardinality(m.acks \union {p}) \in {Cardinality(m.acks), Cardinality(m.acks) + 1}
  BY ZenonT(30), FS_AddElement
<1>4. Cardinality(m.acks \union {p}) <= N
  BY <1>2, <1>3
<1> HIDE DEF x
<1>5. IsFiniteSet(x.acks) /\ Cardinality(x.acks) <= N
  BY <1>1, <1>3, <1>4
<1> QED
  BY <1>1, <1>5, Zenon DEF x

(* Reading the queue.                                                      *)
LEMMA ConsumedFits ==
  ASSUME NEW q, Fits(q), NEW p \in Workers \X Nat, NEW k
  PROVE  Fits(Consumed(q, p, k))
<1> SUFFICES ASSUME NEW m \in Consumed(q, p, k)
             PROVE  m \in Message /\ IsFiniteSet(m.acks) /\ Cardinality(m.acks) <= N
  BY Zenon DEF Fits
<1>1. CASE m \in q
  BY <1>1, Zenon DEF Fits
<1>2. CASE m \notin q
  <2>1. PICK x \in q : ~Full(x) /\ m = [x EXCEPT !.acks = @ \union {p}]
    BY <1>2, Zenon DEF Consumed
  <2>2. x \in Message /\ IsFiniteSet(x.acks) /\ Cardinality(x.acks) <= N
    BY <2>1, Zenon DEF Fits
  <2> QED
    BY <2>1, <2>2, OneMore, Zenon
<1> QED
  BY <1>1, <1>2

(* Sending a message.                                                      *)
LEMMA SentFits ==
  ASSUME NEW q, Fits(q), NEW w \in Workers, Pid(w) \in Workers \X Nat, version \in Nat,
         NEW n \in Names, NEW c \in Contents \union {Absent}
  PROVE  Fits(Sent(q, w, n, c))
<1> DEFINE m == [id |-> version + 1, name |-> n, content |-> c, acks |-> {Pid(w)}]
<1>1. m \in Message /\ m.acks = {Pid(w)}
  BY DEF Message
<1>2. IsFiniteSet({Pid(w)}) /\ Cardinality({Pid(w)}) = 1
  BY Zenon, FS_Singleton
<1>3. Sent(q, w, n, c) = q \union {m}
  BY Zenon DEF Sent
<1> HIDE DEF m
<1>4. IsFiniteSet(m.acks) /\ Cardinality(m.acks) <= N
  BY <1>1, <1>2, NFact
<1> QED
  BY <1>1, <1>3, <1>4, Zenon DEF Fits

(* Replacing a pid.                                                        *)
LEMMA PurgeFits ==
  ASSUME NEW q, Fits(q), NEW o, NEW p \in Workers \X Nat
  PROVE  Fits(Purge(q, o, p))
<1> SUFFICES ASSUME NEW m \in Purge(q, o, p)
             PROVE  m \in Message /\ IsFiniteSet(m.acks) /\ Cardinality(m.acks) <= N
  BY Zenon DEF Fits
<1>1. PICK x \in q :
         m = [x EXCEPT !.acks = IF o \in @ THEN (@ \ {o}) \union {p} ELSE @]
  BY Zenon DEF Purge
<1>2. x \in Message /\ IsFiniteSet(x.acks) /\ Cardinality(x.acks) <= N
  BY <1>1, Zenon DEF Fits
<1>3. Cardinality(x.acks) \in Nat /\ N \in Nat
  BY <1>2, FS_CardinalityType, NFact
<1>4. CASE o \notin x.acks
  <2>1. m \in Message /\ m.acks = x.acks
    BY <1>1, <1>2, <1>4 DEF Message
  <2> QED
    BY <1>2, <2>1
<1>5. CASE o \in x.acks
  <2> DEFINE a == x.acks \ {o}
  <2>1. m \in Message /\ m.acks = a \union {p}
    BY <1>1, <1>2, <1>5 DEF Message
  <2>2. IsFiniteSet(a) /\ Cardinality(a) = Cardinality(x.acks) - 1
    BY Zenon, <1>2, <1>5, FS_RemoveElement
  <2> HIDE DEF a
  <2>3. /\ IsFiniteSet(a \union {p})
        /\ Cardinality(a \union {p}) \in {Cardinality(a), Cardinality(a) + 1}
    BY Zenon, <2>2, FS_AddElement
  <2>4. Cardinality(a \union {p}) <= N
    BY <1>2, <1>3, <2>2, <2>3
  <2> QED
    BY <2>1, <2>3, <2>4
<1> QED
  BY <1>4, <1>5

-----------------------------------------------------------------------------
(* A worker that runs has, in sh->status, no pid but its own.              *)
LEMMA ReadKnown ==
  ASSUME PidsInv, NEW w \in Workers, UNCHANGED inc, status' = ReadStatus(status, Pid(w)),
         state[w] = "running", UNCHANGED state \/ state' = [state EXCEPT ![w] = "dead"]
  PROVE  Table(status') /\ Known(status)'
<1>1. Pid(w) \in Workers \X Nat
  BY DEF PidsInv, Pid
<1>2. Table(status') /\ \A j \in Slots : status'[j].pid \in {status[j].pid, Pid(w)}
  BY <1>1, ReadTable, Zenon DEF PidsInv
<1>3. ASSUME NEW i \in Slots, NEW v \in Workers, NEW n \in Nat, status'[i].pid = <<v, n>>
      PROVE  n <= inc'[v] /\ (state'[v] \in {"forked", "asleep"} => n < inc'[v])
  <2>1. status[i].pid = <<v, n>> \/ Pid(w) = <<v, n>>
    BY <1>2, <1>3, Zenon
  <2>2. inc[v] \in Nat /\ (state'[v] \in {"forked", "asleep"} => state'[v] = state[v])
    BY DEF PidsInv
  <2>3. CASE status[i].pid = <<v, n>>
    BY <2>2, <2>3 DEF PidsInv, Known
  <2>4. CASE Pid(w) = <<v, n>>
    BY <2>2, <2>4 DEF Pid, PidsInv
  <2> QED
    BY <2>1, <2>3, <2>4
<1> QED
  BY <1>2, <1>3, Zenon DEF Known

(* The handlers of a running worker: read_msg, and the commands, whose     *)
(* messages are sent after the queue has been read.                        *)
LEMMA HandlerPids ==
  ASSUME PidsInv, NEW w \in Workers, state[w] = "running",
         UNCHANGED <<state, inc>>, status' = ReadStatus(status, Pid(w)), NEW q,
         q \in {queue, Consumed(queue, Pid(w), version)},
         \/ queue' = q /\ UNCHANGED version
         \/ /\ \E n \in Names, c \in Contents \union {Absent} : queue' = Sent(q, w, n, c)
            /\ version' = version + 1
  PROVE  PidsInv'
<1>1. Pid(w) \in Workers \X Nat /\ version \in Nat /\ version' \in Nat
  BY DEF PidsInv, Pid
<1>2. Fits(q)
  BY <1>1, ConsumedFits, Zenon DEF PidsInv
<1>3. Fits(queue')
  BY <1>1, <1>2, SentFits, Zenon
<1>4. Table(status') /\ Known(status)'
  BY ReadKnown, Zenon
<1>5. state' = state /\ inc' = inc
  OBVIOUS
<1> QED
  BY <1>1, <1>3, <1>4, <1>5, Zenon DEF PidsInv, Fits, Table, Apart, Prefix

(* A worker dies, perhaps in the middle of a handler.                      *)
LEMMA CrashPids ==
  ASSUME PidsInv, NEW w \in Workers, NEW k, Crash(w, k)
  PROVE  PidsInv'
<1>1. /\ state' = [state EXCEPT ![w] = "dead"] /\ UNCHANGED <<inc, version>>
      /\ \/ UNCHANGED <<queue, status>>
         \/ /\ state[w] = "running" /\ queue' = Consumed(queue, Pid(w), k)
            /\ status' = ReadStatus(status, Pid(w))
  BY Zenon DEF Crash
<1>2. Pid(w) \in Workers \X Nat
  BY DEF PidsInv, Pid
<1>3. Fits(queue')
  BY <1>1, <1>2, ConsumedFits, Zenon DEF PidsInv
<1>4. Table(status') /\ Known(status)'
  <2>1. CASE UNCHANGED status
    <3>1. \A v \in Workers : state'[v] \in {"forked", "asleep"} => state'[v] = state[v]
      BY <1>1 DEF PidsInv
    <3> QED
      BY <1>1, <2>1, <3>1, Zenon DEF PidsInv, Known
  <2>2. CASE state[w] = "running" /\ status' = ReadStatus(status, Pid(w))
    BY <1>1, <2>2, ReadKnown, Zenon
  <2> QED
    BY <1>1, <2>1, <2>2
<1>5. /\ state' \in [Workers -> {"dead", "forked", "asleep", "running"}]
      /\ inc' \in [Workers -> Nat] /\ version' \in Nat
  BY <1>1 DEF PidsInv
<1> QED
  BY <1>3, <1>4, <1>5, Zenon DEF PidsInv, Fits, Table, Apart, Prefix

(* A new process starts, under a pid that is in no table.                  *)
LEMMA StartPids ==
  ASSUME PidsInv, NEW w \in Workers, Respawn(w) \/ InitProcess(w)
  PROVE  PidsInv'
<1>1. /\ UNCHANGED <<status, queue, version>>
      /\ \/ /\ state[w] = "dead" /\ state' = [state EXCEPT ![w] = "forked"]
            /\ inc' = [inc EXCEPT ![w] = inc[w] + 1]
         \/ /\ state[w] = "forked" /\ inc' = inc
            /\ \E x \in {"asleep", "running"} : state' = [state EXCEPT ![w] = x]
  BY DEF Respawn, InitProcess
<1>2. /\ state' \in [Workers -> {"dead", "forked", "asleep", "running"}]
      /\ inc' \in [Workers -> Nat] /\ version' \in Nat
  BY <1>1 DEF PidsInv
<1>3. Known(status)'
  BY <1>1 DEF PidsInv, Known
<1> QED
  BY <1>1, <1>2, <1>3, Zenon DEF PidsInv, Fits, Table, Apart, Prefix

(* It takes the oldest entry.                                              *)
LEMMA WakeUpPids ==
  ASSUME PidsInv, NEW w \in Workers, WakeUp(w)
  PROVE  PidsInv'
<1>1. /\ state[w] = "asleep" /\ state' = [state EXCEPT ![w] = "running"]
      /\ status' = Touched(status, Oldest(status), Pid(w))
      /\ queue' = Purge(queue, status[Oldest(status)].pid, Pid(w))
      /\ UNCHANGED <<inc, version>>
  BY Zenon DEF WakeUp
<1>2. Pid(w) \in Workers \X Nat
  BY DEF PidsInv, Pid
<1>3. Fits(queue')
  BY <1>1, <1>2, PurgeFits, Zenon DEF PidsInv
<1>4. \A j \in Slots : status[j].pid # Pid(w)
  <2>1. inc[w] \in Nat
    BY DEF PidsInv
  <2> QED
    BY <1>1, <2>1 DEF PidsInv, Known, Pid
<1>5. Table(status') /\ \A j \in Slots : status'[j].pid \in {status[j].pid, Pid(w)}
  BY <1>1, <1>2, <1>4, WakeTable, Zenon DEF PidsInv
<1>6. ASSUME NEW i \in Slots, NEW v \in Workers, NEW n \in Nat, status'[i].pid = <<v, n>>
      PROVE  n <= inc'[v] /\ (state'[v] \in {"forked", "asleep"} => n < inc'[v])
  <2>1. status[i].pid = <<v, n>> \/ Pid(w) = <<v, n>>
    BY <1>5, <1>6, Zenon
  <2>2. inc[v] \in Nat /\ (state'[v] \in {"forked", "asleep"} => state'[v] = state[v])
    BY <1>1 DEF PidsInv
  <2>3. CASE status[i].pid = <<v, n>>
    BY <1>1, <2>2, <2>3 DEF PidsInv, Known
  <2>4. CASE Pid(w) = <<v, n>>
    BY <1>1, <2>2, <2>4 DEF Pid, PidsInv
  <2> QED
    BY <2>1, <2>3, <2>4
<1>7. Known(status)'
  BY <1>6, Zenon DEF Known
<1>8. /\ state' \in [Workers -> {"dead", "forked", "asleep", "running"}]
      /\ inc' \in [Workers -> Nat] /\ version' \in Nat
  BY <1>1 DEF PidsInv
<1> QED
  BY <1>3, <1>5, <1>7, <1>8, Zenon DEF PidsInv, Fits, Table, Apart, Prefix

(* At first nobody has an entry.                                           *)
LEMMA InitPids == Init => PidsInv
<1> SUFFICES ASSUME Init PROVE PidsInv
  OBVIOUS
<1>1. status = [i \in Slots |-> [pid |-> NoPid, time |-> 0]] /\ N \in Nat
  BY NFact DEF Init
<1>2. \A i \in Slots : status[i].pid = NoPid /\ status[i].time = 0 /\ status[i] \in Entry
  BY <1>1 DEF Entry
<1>3. status \in [Slots -> Entry] /\ \A i \in Slots : i > 0
  BY <1>1 DEF Slots, Entry
<1>4. Table(status)
  <2>1. PICK z \in 0..N : z = 0
    BY <1>1
  <2>2. \A i \in Slots : ~(i <= z) /\ i > z
    BY <1>1, <2>1 DEF Slots
  <2>3. Prefix(status, z)
    BY <1>2, <1>3, <2>1, <2>2, Zenon DEF Prefix
  <2>4. Apart(status)
    BY <1>2, Zenon DEF Apart
  <2> QED
    BY <2>3, <2>4, Zenon DEF Table
<1>5. Known(status)
  <2>1. \A w \in Workers, n \in Nat : <<w, n>> # NoPid
    BY RealPid
  <2> QED
    BY <1>2, <2>1, Zenon DEF Known
<1>6. Fits(queue)
  BY DEF Init, Fits
<1>7. state \in [Workers -> {"dead", "forked", "asleep", "running"}]
      /\ inc \in [Workers -> Nat] /\ version \in Nat
  BY DEF Init
<1> QED
  BY <1>4, <1>5, <1>6, <1>7, Zenon DEF PidsInv

(* The pids fit after every step.                                          *)
LEMMA PidsNext ==
  ASSUME PidsInv, [Next]_vars
  PROVE  PidsInv'
<1>1. ASSUME NEW w \in Workers, ReadMsg(w) PROVE PidsInv'
  <2>1. /\ state[w] = "running" /\ UNCHANGED <<state, inc, version>>
        /\ status' = ReadStatus(status, Pid(w))
        /\ queue' \in {queue, Consumed(queue, Pid(w), version)}
    BY <1>1, Zenon DEF ReadMsg, MayRead, ReadTime, QueueRead
  <2> QED
    BY <2>1, HandlerPids, Zenon
<1>2. ASSUME NEW w \in Workers, NEW n \in Names, NEW c \in Contents \union {Absent},
             Command(w, n, c)
      PROVE  PidsInv'
  <2>1. PICK pool \in BOOLEAN :
           /\ state[w] = "running" /\ UNCHANGED <<state, inc>>
           /\ version' = version + 1 /\ status' = ReadStatus(status, Pid(w))
           /\ queue' = Sent(QueueRead(w, pool), w, n, c)
    BY <1>2, Zenon DEF Command, MayRead, ReadTime
  <2>2. QueueRead(w, pool) \in {queue, Consumed(queue, Pid(w), version)}
    BY Zenon DEF QueueRead
  <2> QED
    BY <2>1, <2>2, HandlerPids, Zenon
<1>3. ASSUME NEW w \in Workers, NEW n, NEW c, NEW v, CommandFails(w, n, c, v)
      PROVE  PidsInv'
  <2>1. /\ state[w] = "running" /\ UNCHANGED <<state, inc, version>>
        /\ status' = ReadStatus(status, Pid(w))
        /\ queue' \in {queue, Consumed(queue, Pid(w), version)}
    BY <1>3, Zenon DEF CommandFails, MayRead, ReadTime, QueueRead
  <2> QED
    BY <2>1, HandlerPids, Zenon
<1>4. CASE UNCHANGED vars
  BY <1>4, Zenon DEF vars, PidsInv, Fits, Known
<1> QED
  BY <1>1, <1>2, <1>3, <1>4, CrashPids, StartPids, WakeUpPids, Zenon DEF Next

(* The entries of sh->status and the pids of a message fit in the arrays   *)
(* of worker_processes entries, and no worker has two entries, whatever    *)
(* the workers do and however many of them crash (read_msg_locked,         *)
(* send_msg, init_process and purge_msg).                                  *)
THEOREM PidsFitCorrect == Spec => []PidsFit
<1>1. PidsInv /\ [Next]_vars => PidsInv'
  BY PidsNext
<1>2. PidsInv => PidsFit
  BY Zenon DEF PidsInv, Table, Apart, Fits, PidsFit
<1> QED
  BY <1>1, <1>2, InitPids, PTL DEF Spec

-----------------------------------------------------------------------------

(* No two entries taken have the same time.                                *)
Ranked(s) ==
    \A i, j \in Slots : (s[i].time = s[j].time /\ i # j) => s[i].pid = NoPid

(* Touching an entry keeps the order of the others, and makes it the last. *)
LEMMA TouchedOrder ==
  ASSUME NEW s, NEW k, Prefix(s, k), Ranked(s), NEW i \in Slots, i <= k + 1,
         NEW p \in Workers \X Nat
  PROVE  LET t == Touched(s, i, p)
         IN  /\ Ranked(t)
             /\ \A j \in Slots : j # i => t[j].time < t[i].time
             /\ \A j, l \in Slots : j # i /\ l # i /\ s[j].time < s[l].time
                   => t[j].time <= t[l].time /\ (s[j].pid # NoPid => t[j].time < t[l].time)
<1> DEFINE t == Touched(s, i, p)
<1>1. /\ N \in Nat \ {0} /\ k \in 0..N /\ i \in 1..N
      /\ \A j \in Slots : s[j].time \in 0..N
  BY NFact DEF Prefix, Slots, Entry
<1>2. /\ t[i].pid = p /\ t[i].time = N
      /\ \A j \in Slots : j # i => t[j].pid = s[j].pid
      /\ \A j \in Slots : j # i /\ s[j].time > s[i].time => t[j].time = s[j].time - 1
      /\ \A j \in Slots : j # i /\ ~(s[j].time > s[i].time) => t[j].time = s[j].time
  BY DEF Touched
<1>3. \A j \in Slots : j # i /\ s[j].pid # NoPid => s[j].time # s[i].time
  BY Zenon DEF Ranked
<1>4. \A j \in Slots : s[j].pid = NoPid => s[j].time = 0
  BY <1>1 DEF Prefix, Slots
<1>8. \A j \in Slots : /\ j \in 1..N
                       /\ s[j].pid # NoPid => s[j].time > N - k
                       /\ s[j].pid = NoPid => j > k
  BY <1>1 DEF Prefix, Slots
<1> HIDE DEF t, Prefix, Ranked
<1>5. ASSUME NEW j \in Slots, j # i PROVE t[j].time < t[i].time
  BY <1>1, <1>2, <1>3, <1>4, <1>5
<1>6. ASSUME NEW j \in Slots, NEW l \in Slots, j # i, l # i, s[j].time < s[l].time
      PROVE  t[j].time <= t[l].time /\ (s[j].pid # NoPid => t[j].time < t[l].time)
  BY <1>1, <1>2, <1>3, <1>6
<1>7. Ranked(t)
  <2> SUFFICES ASSUME NEW x \in Slots, NEW y \in Slots, x # y, t[x].time = t[y].time
               PROVE  t[x].pid = NoPid
    BY Zenon DEF Ranked
  <2>1. x # i /\ y # i
    BY <1>1, <1>2, <1>5
  <2>2. s[x].time = s[y].time => s[x].pid = NoPid
    BY Zenon DEF Ranked
  <2>3. s[y].time = s[x].time => s[y].pid = NoPid
    BY Zenon DEF Ranked
  <2>4. s[x].pid # NoPid /\ s[y].pid # NoPid => FALSE
    BY <1>1, <1>2, <1>3, <1>6, <2>1, <2>2
  <2>5. s[x].pid # NoPid /\ s[y].pid = NoPid => FALSE
    <3> SUFFICES ASSUME s[x].pid # NoPid, s[y].pid = NoPid PROVE FALSE
      OBVIOUS
    <3>1. y > k /\ N - k >= 1 /\ s[x].time > N - k /\ s[y].time = 0
      BY <1>1, <1>4, <1>8
    <3>2. t[y].time = 0
      BY <1>1, <1>2, <2>1, <3>1
    <3>3. t[x].time > 0
      BY <1>1, <1>2, <2>1, <3>1
    <3> QED
      BY <3>2, <3>3
  <2> QED
    BY <1>2, <2>1, <2>4, <2>5
<1> QED
  BY <1>5, <1>6, <1>7, Zenon DEF t

Taken(s) == \A i \in Slots : s[i].pid # NoPid

(* When all entries of s are taken, each worker can be given one of them,  *)
(* g: a running worker (r, with pids p) the one with its pid, if there is  *)
(* one; one that sleeps (a) an entry older than those of the workers that  *)
(* have read since it fell asleep (not in lt).                             *)
Assigned(g, s, p, r, a, lt) ==
    /\ g \in [Workers -> Slots]
    /\ \A v, w \in Workers : g[v] = g[w] => v = w
    /\ \A i \in Slots, w \in r : s[i].pid = p[w] => g[w] = i
    /\ \A v \in a, w \in r : w \notin lt[v] /\ s[g[w]].pid = p[w]
          => s[g[v]].time < s[g[w]].time

(* ... and each of z has the entry with its pid.                           *)
Placed(g, s, p, r, a, lt, z) ==
    /\ Assigned(g, s, p, r, a, lt)
    /\ z \in SUBSET r /\ \A w \in z : s[g[w]].pid = p[w]

(* The pids of the workers are not the same.                               *)
Differ(p) ==
    /\ p \in [Workers -> Workers \X Nat]
    /\ \A v, w \in Workers : p[v] = p[w] => v = w

(* The table has become full: everyone has an entry.                       *)
LEMMA AssignStart ==
  ASSUME NEW s, Apart(s), Taken(s), NEW p, Differ(p), NEW r \in SUBSET Workers,
         \A i \in Slots : \E w \in r : s[i].pid = p[w], NEW lt
  PROVE  \E g : Placed(g, s, p, r, {}, lt, Workers)
<1> DEFINE h == [i \in Slots |-> CHOOSE w \in r : s[i].pid = p[w]]
           g == [w \in Workers |-> CHOOSE i \in Slots : s[i].pid = p[w]]
<1>1. \A i \in Slots : h[i] \in r /\ h[i] \in Workers /\ s[i].pid = p[h[i]]
  BY Zenon
<1>2. N \in Nat /\ IsFiniteSet(Workers) /\ IsFiniteSet(Slots)
      /\ Cardinality(Slots) = Cardinality(Workers)
  <2>1. N \in Nat /\ IsFiniteSet(Workers) /\ N = Cardinality(Workers)
    BY NFact, ConstantsAssumption DEF N
  <2>2. IsFiniteSet(1..N) /\ Cardinality(1..N) = N
    BY <2>1, FS_Interval
  <2> QED
    BY <2>1, <2>2 DEF Slots
<1>3. h \in Injection(Slots, Workers)
  <2>1. h \in [Slots -> Workers]
    BY <1>1, Zenon
  <2> HIDE DEF h
  <2>2. \A i, j \in Slots : h[i] = h[j] => i = j
    BY <1>1, ZenonT(30) DEF Apart, Taken
  <2> QED
    BY <2>1, <2>2, Zenon DEF Injection, IsInjective
<1> HIDE DEF h
<1>4. h \in Surjection(Slots, Workers)
  BY <1>2, <1>3, FS_Injection, Zenon
<1>5. \A w \in Workers : \E i \in Slots : h[i] = w
  BY <1>4, Zenon DEF Surjection
<1>6. ASSUME NEW w \in Workers
      PROVE  w \in r /\ \E i \in Slots : s[i].pid = p[w]
  <2>1. PICK i \in Slots : h[i] = w
    BY <1>5, Zenon
  <2>2. h[i] \in r /\ s[i].pid = p[h[i]]
    BY <1>1, Zenon
  <2> QED
    BY <2>1, <2>2, Zenon
<1>7. \A w \in Workers : g[w] \in Slots /\ s[g[w]].pid = p[w]
  BY <1>6, Zenon
<1>8. g \in [Workers -> Slots]
  BY <1>7, Zenon
<1> HIDE DEF g
<1>9. Assigned(g, s, p, r, {}, lt)
  <2>1. \A v, w \in Workers : g[v] = g[w] => v = w
    BY <1>7, ZenonT(30) DEF Differ
  <2>2. ASSUME NEW i \in Slots, NEW w \in r, s[i].pid = p[w]
        PROVE  g[w] = i
    <3>1. g[w] \in Slots /\ s[g[w]].pid = s[i].pid /\ s[i].pid # NoPid
      BY <1>7, <2>2, Zenon DEF Taken
    <3> QED
      BY <3>1, Zenon DEF Apart
  <2> QED
    BY <1>8, <2>1, <2>2, Zenon DEF Assigned
<1> QED
  BY <1>6, <1>7, <1>9, Zenon DEF Placed

Agree(q, p, r) == \A w \in r : q[w] = p[w]

Weaker(a2, lt2, a, lt, r) ==
    \A v \in a2, w \in r : w \notin lt2[v] => v \in a /\ w \notin lt[v]

(* Fewer workers run, fewer sleep, or fewer are known to have read.        *)
LEMMA PlacedLess ==
  ASSUME NEW g, NEW s, NEW p, NEW r, NEW a, NEW lt, NEW z, Placed(g, s, p, r, a, lt, z),
         NEW q, NEW r2 \in SUBSET r, NEW a2, NEW lt2, NEW z2 \in SUBSET z,
         z2 \in SUBSET r2, Agree(q, p, r2), Weaker(a2, lt2, a, lt, r2)
  PROVE  Placed(g, s, q, r2, a2, lt2, z2)
<1> USE DEF Agree, Weaker
<1>0. Assigned(g, s, p, r, a, lt)
  BY Zenon DEF Placed
<1>1. \A i \in Slots, w \in r2 : s[i].pid = q[w] => g[w] = i
  BY <1>0, Zenon DEF Assigned
<1>2. \A v \in a2, w \in r2 : w \notin lt2[v] /\ s[g[w]].pid = q[w]
          => s[g[v]].time < s[g[w]].time
  BY <1>0, Zenon DEF Assigned
<1>3. ASSUME NEW w \in z2 PROVE s[g[w]].pid = q[w]
  <2>1. w \in z /\ w \in r2
    BY Zenon
  <2> QED
    BY <2>1, Zenon DEF Placed
<1> QED
  BY <1>0, <1>1, <1>2, <1>3, Zenon DEF Assigned, Placed

(* Pid p has no entry in s.                                                *)
Unlisted(s, p) == \A i \in Slots : s[i].pid # p

(* A worker that starts to run has no entry.                               *)
LEMMA PlacedRun ==
  ASSUME NEW g, NEW s, NEW p, NEW r, NEW a, NEW lt, NEW z, Placed(g, s, p, r, a, lt, z),
         NEW w0 \in Workers, Unlisted(s, p[w0])
  PROVE  Placed(g, s, p, r \union {w0}, a, lt, z)
<1> USE DEF Unlisted
<1>0. Assigned(g, s, p, r, a, lt)
  BY Zenon DEF Placed
<1>1. g[w0] \in Slots
  BY <1>0, Zenon DEF Assigned
<1>2. \A i \in Slots, w \in r \union {w0} : s[i].pid = p[w] => g[w] = i
  BY <1>0, Zenon DEF Assigned
<1>3. \A v \in a, w \in r \union {w0} : w \notin lt[v] /\ s[g[w]].pid = p[w]
          => s[g[v]].time < s[g[w]].time
  BY <1>0, <1>1, Zenon DEF Assigned
<1> QED
  BY <1>0, <1>2, <1>3, Zenon DEF Assigned, Placed

(* A worker whose pid has no entry in a full table writes nothing.         *)
LEMMA FullRead ==
  ASSUME NEW s, Table(s), Taken(s), NEW p \in Workers \X Nat
  PROVE  \/ WritesNone(s, p)
         \/ \E k \in 0..N, i \in Slots : Writes(s, p, k, i) /\ s[i].pid = p
<1>1. ASSUME NEW k \in 0..N, NEW i \in Slots, Writes(s, p, k, i)
      PROVE  s[i].pid = p
  BY <1>1, Zenon DEF Taken, Writes
<1> QED
  BY <1>1, ReadShape, Zenon

Drops(l2, lt, w) == \A v \in Workers : l2[v] = lt[v] \ {w}

(* A worker writes its time.                                               *)
LEMMA PlacedRead ==
  ASSUME NEW g, NEW s, Table(s), Ranked(s), Taken(s), NEW p, Differ(p),
         NEW r \in SUBSET Workers, NEW a \in SUBSET Workers, r \intersect a = {},
         NEW lt \in [Workers -> SUBSET Workers],
         NEW z, Placed(g, s, p, r, a, lt, z), NEW w0 \in r,
         NEW t, t = ReadStatus(s, p[w0]),
         NEW l2, Drops(l2, lt, w0)
  PROVE  Placed(g, t, p, r, a, l2, z) /\ Taken(t)
<1> USE DEF Drops
<1>0. Assigned(g, s, p, r, a, lt)
  BY Zenon DEF Placed
<1>1. p[w0] \in Workers \X Nat /\ w0 \in Workers
  BY Zenon DEF Differ
<1>2. ASSUME WritesNone(s, p[w0])
      PROVE  Assigned(g, t, p, r, a, l2) /\ \A j \in Slots : t[j].pid = s[j].pid
  <2>1. g[w0] \in Slots
    BY <1>0, <1>1, Zenon DEF Assigned
  <2>2. \A v \in a, w \in r : w \notin l2[v] /\ s[g[w]].pid = p[w]
          => s[g[v]].time < s[g[w]].time
    <3>1. ASSUME NEW v \in a, NEW w \in r, w \notin l2[v], s[g[w]].pid = p[w]
          PROVE  s[g[v]].time < s[g[w]].time
      <4>1. w # w0
        BY <1>2, <2>1, <3>1, Zenon DEF WritesNone
      <4>2. v \in Workers /\ w \notin lt[v]
        BY <3>1, <4>1, Zenon
      <4> QED
        BY <1>0, <3>1, <4>2, Zenon DEF Assigned
    <3> QED
      BY <3>1, Zenon
  <2> QED
    BY <1>0, <1>2, <2>2, Zenon DEF Assigned, WritesNone
<1>3. ASSUME NEW k \in 0..N, NEW i \in Slots,
             Writes(s, p[w0], k, i), s[i].pid = p[w0]
      PROVE  /\ Assigned(g, t, p, r, a, l2)
             /\ \A j \in Slots : t[j].pid = s[j].pid
  <2>0. Prefix(s, k) /\ i <= k + 1 /\ t = Touched(s, i, p[w0])
    BY <1>3, Zenon DEF Writes
  <2>1. \A j \in Slots : t[j].pid = s[j].pid
    <3>1. \A j \in Slots : t[j].pid = IF j = i THEN p[w0] ELSE s[j].pid
      <4>1. PICK q \in Workers \X Nat : q = p[w0]
        BY <1>1, Zenon
      <4>2. \A j \in Slots : Touched(s, i, q)[j].pid = IF j = i THEN q ELSE s[j].pid
        BY <2>0, TouchedPrefix
      <4> QED
        BY <2>0, <4>1, <4>2, Zenon
    <3> QED
      BY <1>3, <3>1, Zenon
  <2>2. /\ \A j \in Slots : j # i => t[j].time < t[i].time
        /\ \A j, l \in Slots : j # i /\ l # i /\ s[j].time < s[l].time
              => (s[j].pid # NoPid => t[j].time < t[l].time)
    BY <1>1, <2>0, TouchedOrder
  <2>3. g[w0] = i /\ \A w \in Workers : g[w] \in Slots
    BY <1>0, <1>3, Zenon DEF Assigned
  <2>4. ASSUME NEW v \in a, NEW w \in r, w \notin l2[v], t[g[w]].pid = p[w]
        PROVE  t[g[v]].time < t[g[w]].time
    <3>1. v \in Workers /\ w \in Workers /\ v # w0 /\ s[g[w]].pid = p[w]
      BY <2>1, <2>3, <2>4, Zenon
    <3>2. g[v] # i /\ g[v] \in Slots /\ g[w] \in Slots /\ s[g[v]].pid # NoPid
      BY <1>0, <1>1, <2>3, <3>1, Zenon DEF Assigned, Taken
    <3>3. CASE w = w0
      BY <2>2, <2>3, <3>2, <3>3, Zenon
    <3>4. CASE w # w0
      <4>1. w \notin lt[v]
        BY <2>4, <3>1, <3>4, Zenon
      <4>2. s[g[v]].time < s[g[w]].time
        BY <1>0, <2>4, <3>1, <4>1, Zenon DEF Assigned
      <4>3. g[w] # i
        BY <1>0, <1>1, <2>3, <3>1, <3>4, Zenon DEF Assigned
      <4> QED
        BY <2>2, <3>2, <4>2, <4>3, Zenon
    <3> QED
      BY <3>3, <3>4
  <2>5. \A j \in Slots, w \in r : t[j].pid = p[w] => g[w] = j
    BY <1>0, <2>1 DEF Assigned
  <2> QED
    BY <1>0, <2>1, <2>4, <2>5, Zenon DEF Assigned
<1>4. PICK q \in Workers \X Nat : q = p[w0]
  BY <1>1, Zenon
<1>5. \/ WritesNone(s, q)
      \/ \E k \in 0..N, i \in Slots : Writes(s, q, k, i) /\ s[i].pid = q
  BY FullRead
<1>6. Assigned(g, t, p, r, a, l2) /\ \A j \in Slots : t[j].pid = s[j].pid
  BY <1>2, <1>3, <1>4, <1>5, Zenon
<1>7. Taken(t)
  BY <1>6, Zenon DEF Taken
<1>8. ASSUME NEW w \in z PROVE t[g[w]].pid = p[w] /\ w \in r
  <2>1. w \in Workers /\ w \in r /\ s[g[w]].pid = p[w]
    BY Zenon DEF Placed
  <2>2. g[w] \in Slots
    BY <1>0, <2>1, Zenon DEF Assigned
  <2> QED
    BY <1>6, <2>1, <2>2, Zenon
<1> QED
  BY <1>6, <1>7, <1>8, Zenon DEF Placed

(* The pids of r are not in entry o.                                       *)
NotOf(s, o, p, r) == \A w \in r : s[o].pid # p[w]

SameBut(l2, lt, a, v) == \A x \in a : x # v => l2[x] = lt[x]

(* A worker wakes up after all the others that run have read: the entry it *)
(* takes is not one of theirs.                                             *)
LEMMA PlacedWake ==
  ASSUME NEW g, NEW s, Table(s), Ranked(s), Taken(s), NEW p, Differ(p),
         NEW r \in SUBSET Workers, NEW a \in SUBSET Workers, r \intersect a = {},
         NEW lt, NEW z, Placed(g, s, p, r, a, lt, z), NEW v \in a, lt[v] = {},
         Unlisted(s, p[v]), NEW l2, SameBut(l2, lt, a, v),
         NEW o, o = Oldest(s), NEW t, t = Touched(s, o, p[v])
  PROVE  /\ NotOf(s, o, p, r)
         /\ \E h : Placed(h, t, p, r \union {v}, a \ {v}, l2, z)
<1>0. Assigned(g, s, p, r, a, lt) /\ z \in SUBSET r /\ \A w \in z : s[g[w]].pid = p[w]
  BY Zenon DEF Placed
<1> USE DEF Unlisted, NotOf, SameBut
<1> DEFINE h == [x \in Workers |-> IF x = v THEN o ELSE IF g[x] = o THEN g[v] ELSE g[x]]
<1>1. PICK k \in 0..N : Prefix(s, k) /\ o \in Slots /\ o <= k + 1
  BY WakeShape, Zenon
<1>2. /\ v \in Workers /\ p[v] \in Workers \X Nat
      /\ \A w \in r : w \in Workers /\ w # v /\ p[w] # p[v]
      /\ g \in [Workers -> Slots] /\ \A w \in Workers : g[w] \in Slots
  BY <1>0, ZenonT(30) DEF Differ, Assigned
<1>3. \A j \in Slots : s[o].time < s[j].time \/ (s[o].time = s[j].time /\ o <= j)
  BY <1>1, OldestFound
<1>4. N \in Nat /\ \A j \in Slots : s[j].time \in 0..N
  BY <1>1, NFact DEF Prefix, Entry
<1>5. /\ \A j \in Slots : t[j].pid = IF j = o THEN p[v] ELSE s[j].pid
      /\ \A j \in Slots : j # o => t[j].time < t[o].time
      /\ \A j, l \in Slots : j # o /\ l # o /\ s[j].time < s[l].time
              => (s[j].pid # NoPid => t[j].time < t[l].time)
  <2>1. \A j \in Slots : t[j].pid = IF j = o THEN p[v] ELSE s[j].pid
    BY <1>1, <1>2, TouchedPrefix
  <2>2. PICK q \in Workers \X Nat : q = p[v]
    BY <1>2, Zenon
  <2>3. /\ \A j \in Slots : j # o => t[j].time < t[o].time
        /\ \A j, l \in Slots : j # o /\ l # o /\ s[j].time < s[l].time
              => (s[j].pid # NoPid => t[j].time < t[l].time)
    BY <1>1, <2>2, TouchedOrder, Zenon
  <2> QED
    BY <2>1, <2>3, Zenon
<1>6. ASSUME NEW w \in r PROVE s[o].pid # p[w]
  <2> SUFFICES ASSUME s[o].pid = p[w] PROVE FALSE
    OBVIOUS
  <2>1. g[w] = o
    BY <1>0, <1>1, Zenon DEF Assigned
  <2>2. s[g[v]].time < s[o].time
    BY <1>0, <2>1 DEF Assigned
  <2>3. g[v] \in Slots
    BY <1>2, ZenonT(30)
  <2>4. s[o].time < s[g[v]].time \/ s[o].time = s[g[v]].time
    BY <1>3, <2>3, Zenon
  <2>5. N \in Nat /\ s[o].time \in 0..N /\ s[g[v]].time \in 0..N
    BY <1>1, <1>4, <2>3, Zenon
  <2> QED
    BY <2>2, <2>4, <2>5, Counting, Zenon
<1>7. /\ h[v] = o
      /\ \A x \in Workers : x # v /\ g[x] = o => h[x] = g[v]
      /\ \A x \in Workers : x # v /\ g[x] # o => h[x] = g[x]
      /\ h \in [Workers -> Slots] /\ \A x \in Workers : h[x] \in Slots
  BY <1>1, <1>2, ZenonT(30)
<1> HIDE DEF h
<1>8. \A x, y \in Workers : h[x] = h[y] => x = y
  <2>1. \A x, y \in Workers : g[x] = g[y] => x = y
    BY <1>0, Zenon DEF Assigned
  <2> QED
    BY <1>2, <1>7, <2>1
<1>9. ASSUME NEW w \in r, NEW i \in Slots, s[i].pid = p[w]
      PROVE  i # o /\ g[w] = i /\ h[w] = i /\ t[i].pid = p[w]
  <2>1. g[w] = i
    BY <1>0, <1>9, Zenon DEF Assigned
  <2>2. i # o
    BY <1>6, <1>9, Zenon
  <2> QED
    BY <1>2, <1>5, <1>7, <1>9, <2>1, <2>2
<1>10. ASSUME NEW i \in Slots, NEW w \in r \union {v}, t[i].pid = p[w]
       PROVE  h[w] = i
  <2>1. CASE i = o
    BY <1>2, <1>5, <1>7, <1>10, <2>1
  <2>2. CASE i # o
    <3>1. s[i].pid = p[w] /\ w # v
      BY <1>5, <1>10, <2>2, ZenonT(30)
    <3> QED
      BY <1>9, <3>1, Zenon
  <2> QED
    BY <2>1, <2>2, ZenonT(30)
<1>11. ASSUME NEW x \in a \ {v}, NEW w \in r \union {v}, w \notin l2[x],
              t[h[w]].pid = p[w]
       PROVE  t[h[x]].time < t[h[w]].time
  <2>1. x \in Workers /\ x # v /\ h[x] \in Slots /\ h[x] # o /\ w \notin lt[x]
    BY <1>2, <1>7, <1>8, <1>11
  <2>2. CASE w = v
    BY <1>5, <1>7, <2>1, <2>2, Zenon
  <2>3. CASE w # v
    <3>1. w \in r /\ w \in Workers /\ h[w] \in Slots /\ h[w] # o
      <4>1. w \in r /\ w \in Workers
        BY <2>3, Zenon
      <4> QED
        BY <1>2, <1>7, <1>8, <2>3, <4>1, ZenonT(30)
    <3>2. s[h[w]].pid = p[w]
      BY <1>5, <1>11, <3>1
    <3>3. g[w] = h[w]
      BY <1>9, <3>1, <3>2, Zenon
    <3>4. s[g[x]].time < s[g[w]].time /\ s[g[v]].time < s[g[w]].time
      <4>1. s[g[w]].pid = p[w] /\ x \in a
        BY <3>2, <3>3, Zenon
      <4> QED
        BY <1>0, <2>1, <3>1, <4>1, Zenon DEF Assigned
    <3>5. s[h[x]].time < s[h[w]].time
      BY <1>7, <2>1, <3>3, <3>4, Zenon
    <3>6. s[h[x]].pid # NoPid
      BY <2>1, Zenon DEF Taken
    <3> QED
      BY <1>5, <2>1, <3>1, <3>5, <3>6, Zenon
  <2> QED
    BY <2>2, <2>3, ZenonT(30)
<1>12. Assigned(h, t, p, r \union {v}, a \ {v}, l2)
  BY <1>0, <1>7, <1>8, <1>10, <1>11, Zenon DEF Assigned
<1>13. ASSUME NEW w \in r, s[g[w]].pid = p[w]
       PROVE  t[h[w]].pid = p[w]
  <2>1. PICK i \in Slots : i = g[w]
    BY <1>2, Zenon
  <2>2. h[w] = i /\ t[i].pid = p[w]
    BY <1>9, <1>13, <2>1, Zenon
  <2> QED
    BY <2>2, Zenon
<1>14. Placed(h, t, p, r \union {v}, a \ {v}, l2, z)
  <2>1. \A w \in z : t[h[w]].pid = p[w]
    BY <1>0, <1>13, Zenon
  <2>2. z \in SUBSET (r \union {v})
    BY <1>0, Zenon
  <2> QED
    BY <1>12, <2>1, <2>2, Zenon DEF Placed
<1> QED
  BY <1>6, <1>14, Zenon

(* The table has become full.                                              *)
LEMMA PlacedStart ==
  ASSUME NEW s, Apart(s), Taken(s), NEW p, Differ(p), NEW r \in SUBSET Workers,
         NEW a \in SUBSET Workers, r \intersect a = {},
         \A i \in Slots : s[i].pid # NoPid => \E w \in r : s[i].pid = p[w],
         NEW lt, NEW z \in SUBSET Workers
  PROVE  \E g : Placed(g, s, p, r, a, lt, z)
<1>1. \A i \in Slots : \E w \in r : s[i].pid = p[w]
  BY Zenon DEF Taken
<1>2. PICK g : Placed(g, s, p, r, {}, lt, Workers)
  BY <1>1, AssignStart, Zenon
<1>3. r = Workers /\ a = {}
  <2>1. r = Workers
    BY <1>2, Zenon DEF Placed
  <2> QED
    BY <2>1, Zenon
<1>4. Placed(g, s, p, r, a, lt, z)
  BY <1>2, <1>3, Zenon DEF Placed
<1> QED
  BY <1>4, Zenon

(* x is message m, but for the pids that have applied it.                  *)
Same(m, x) == x.id = m.id /\ x.name = m.name /\ x.content = m.content

(* What a read by p of the messages up to number k makes of one.           *)
Marked(m, x, p, k) ==
    /\ Same(m, x)
    /\ \/ m.id > k /\ x.acks = m.acks
       \/ m.id <= k /\ ~Full(m) /\ x.acks = m.acks \union {p}

(* Where the messages come from, and that only full ones are destroyed.    *)
LEMMA ConsumedFrom ==
  ASSUME NEW q \in SUBSET Message, NEW p, NEW k \in Nat
  PROVE  /\ \A x \in Consumed(q, p, k) : \E m \in q : Marked(m, x, p, k)
         /\ \A m \in q : ~Full(m) => \E x \in Consumed(q, p, k) : Marked(m, x, p, k)
<1> DEFINE y(m) == [m EXCEPT !.acks = @ \union {p}]
<1>1. ASSUME NEW m \in q PROVE m.id \in Nat /\ Same(m, m) /\ Same(m, y(m))
                             /\ y(m).acks = m.acks \union {p}
  BY DEF Same, Message
<1>2. Consumed(q, p, k) = {m \in q : m.id > k}
                             \union {y(m) : m \in {x \in q : x.id <= k /\ ~Full(x)}}
  BY Zenon DEF Consumed
<1> HIDE DEF y
<1>3. ASSUME NEW x \in Consumed(q, p, k) PROVE \E m \in q : Marked(m, x, p, k)
  BY <1>1, <1>2, <1>3, ZenonT(30) DEF Marked
<1>4. ASSUME NEW m \in q, ~Full(m) PROVE \E x \in Consumed(q, p, k) : Marked(m, x, p, k)
  <2>1. m.id > k \/ m.id <= k
    BY <1>1
  <2> QED
    BY <1>1, <1>2, <1>4, <2>1, Zenon DEF Marked
<1> QED
  BY <1>3, <1>4, Zenon

(* What purge_msg makes of a message.                                      *)
Purged(m, x, o, p) ==
    /\ Same(m, x)
    /\ \/ o \notin m.acks /\ x.acks = m.acks
       \/ o \in m.acks /\ x.acks = (m.acks \ {o}) \union {p}

(* Where the messages come from, and that none of them is lost.            *)
LEMMA PurgeFrom ==
  ASSUME NEW q \in SUBSET Message, NEW o, NEW p
  PROVE  /\ \A x \in Purge(q, o, p) : \E m \in q : Purged(m, x, o, p)
         /\ \A m \in q : \E x \in Purge(q, o, p) : Purged(m, x, o, p)
<1> DEFINE y(m) == [m EXCEPT !.acks = IF o \in @ THEN (@ \ {o}) \union {p} ELSE @]
<1>1. ASSUME NEW m \in q PROVE Purged(m, y(m), o, p)
  BY DEF Purged, Same, Message
<1>2. Purge(q, o, p) = {y(m) : m \in q}
  BY Zenon DEF Purge
<1> HIDE DEF y
<1> QED
  BY <1>1, <1>2, Zenon

-----------------------------------------------------------------------------
(* The messages about n that pid p has not applied.                        *)
Todo(q, p, n) == {m \in q : m.name = n /\ p \notin m.acks}

(* The last of the messages T says c.                                      *)
Ends(T, c) == \A m \in T : (\A x \in T : x.id <= m.id) => m.content = c

Alike(T, U) ==
    /\ \A m \in T : \E x \in U : Same(m, x)
    /\ \A x \in U : \E m \in T : Same(m, x)

(* The last message stays the same if only the pids change.                *)
LEMMA AlikeEnds ==
  ASSUME NEW T, NEW U, Alike(T, U), NEW c, Ends(T, c)
  PROVE  Ends(U, c) /\ (U = {} => T = {})
<1>1. U = {} => T = {}
  BY Zenon DEF Alike
<1>2. ASSUME NEW x \in U, \A y \in U : y.id <= x.id PROVE x.content = c
  <2>1. PICK m \in T : Same(m, x)
    BY Zenon DEF Alike
  <2>2. ASSUME NEW z \in T PROVE z.id <= m.id
    <3>1. PICK y \in U : Same(z, y)
      BY Zenon DEF Alike
    <3>2. y.id <= x.id
      BY <1>2, Zenon
    <3> QED
      BY <2>1, <3>1, <3>2, Zenon DEF Same
  <2>3. m.content = c
    BY <2>2, Zenon DEF Ends
  <2> QED
    BY <2>1, <2>3, Zenon DEF Same
<1> QED
  BY <1>1, <1>2, Zenon DEF Ends

(* What others do to the queue leaves what p has to do.                    *)
LEMMA ConsumedAlike ==
  ASSUME NEW q \in SUBSET Message, NEW p, NEW o, o # p, NEW k \in Nat, NEW n,
         \A m \in q : p \notin m.acks => ~Full(m)
  PROVE  Alike(Todo(q, p, n), Todo(Consumed(q, o, k), p, n))
<1>0. ASSUME NEW m, NEW x, Marked(m, x, o, k)
      PROVE  Same(m, x) /\ m.name = x.name /\ (p \in m.acks <=> p \in x.acks)
  BY <1>0 DEF Marked, Same
<1>1. ASSUME NEW m \in Todo(q, p, n)
      PROVE  \E x \in Todo(Consumed(q, o, k), p, n) : Same(m, x)
  <2>1. PICK x \in Consumed(q, o, k) : Marked(m, x, o, k)
    BY ConsumedFrom, Zenon DEF Todo
  <2> QED
    BY <1>0, <2>1, Zenon DEF Todo
<1>2. ASSUME NEW x \in Todo(Consumed(q, o, k), p, n)
      PROVE  \E m \in Todo(q, p, n) : Same(m, x)
  <2>1. PICK m \in q : Marked(m, x, o, k)
    BY ConsumedFrom, Zenon DEF Todo
  <2> QED
    BY <1>0, <2>1, Zenon DEF Todo
<1> QED
  BY <1>1, <1>2, Zenon DEF Alike

(* So does the pid of a dead worker that is replaced.                      *)
LEMMA PurgeAlike ==
  ASSUME NEW q \in SUBSET Message, NEW p, NEW o, o # p, NEW v, v # p, NEW n
  PROVE  Alike(Todo(q, p, n), Todo(Purge(q, o, v), p, n))
<1>0. ASSUME NEW m, NEW x, Purged(m, x, o, v)
      PROVE  Same(m, x) /\ m.name = x.name /\ (p \in m.acks <=> p \in x.acks)
  BY <1>0 DEF Purged, Same
<1>1. ASSUME NEW m \in Todo(q, p, n)
      PROVE  \E x \in Todo(Purge(q, o, v), p, n) : Same(m, x)
  <2>1. PICK x \in Purge(q, o, v) : Purged(m, x, o, v)
    BY PurgeFrom, Zenon DEF Todo
  <2> QED
    BY <1>0, <2>1, Zenon DEF Todo
<1>2. ASSUME NEW x \in Todo(Purge(q, o, v), p, n)
      PROVE  \E m \in Todo(q, p, n) : Same(m, x)
  <2>1. PICK m \in q : Purged(m, x, o, v)
    BY PurgeFrom, Zenon DEF Todo
  <2> QED
    BY <1>0, <2>1, Zenon DEF Todo
<1> QED
  BY <1>1, <1>2, Zenon DEF Alike

(* The message sent last is the last one.                                  *)
LEMMA SentEnds ==
  ASSUME NEW T, NEW v \in Nat, \A m \in T : m.id \in 1..v, NEW y, y.id = v + 1
  PROVE  Ends(T \union {y}, y.content)
<1> SUFFICES ASSUME NEW m \in T, \A x \in T \union {y} : x.id <= m.id PROVE FALSE
  BY Zenon DEF Ends
<1>1. v + 1 <= m.id /\ m.id \in 1..v
  BY Zenon
<1> QED
  BY <1>1

(* There is a newest message.                                              *)
LEMMA NewestFound ==
  ASSUME NEW S, S # {}, NEW v \in Nat, \A m \in S : m.id \in 1..v
  PROVE  Newest(S) \in S /\ \A x \in S : x.id <= Newest(S).id
<1> DEFINE D == {v - m.id : m \in S}
<1>1. D \in SUBSET Nat /\ D # {}
  OBVIOUS
<1>2. \A m \in S : v - m.id \in D
  BY Zenon
<1>3. \A d \in D : \E m \in S : d = v - m.id
  BY Zenon
<1> HIDE DEF D
<1>4. PICK d \in D : \A e \in D : d <= e
  BY <1>1, Smallest, Zenon
<1>5. PICK m \in S : d = v - m.id
  BY <1>3, Zenon
<1>6. \A x \in S : x.id <= m.id
  BY <1>2, <1>4, <1>5
<1> QED
  BY <1>6, Zenon DEF Newest

(* The pids in the messages of q belong to processes (ic, st) that have    *)
(* read.                                                                   *)
Acked(q, ic, st) ==
    \A m \in q, u \in Workers, k \in Nat : <<u, k>> \in m.acks =>
       /\ 1 <= k /\ k <= ic[u]
       /\ st[u] \in {"forked", "asleep"} => k < ic[u]

(* While one of the workers z has not applied a message, the pids in it    *)
(* are of different workers: the other process of a worker has not woken   *)
(* up yet, because it waits for the one that has not read (lt).            *)
Owes(a, w, ic, st, lt) ==
    \A u \in Workers, k \in Nat : <<u, k>> \in a =>
       /\ \A l \in Nat : <<u, l>> \in a => k = l
       /\ st[u] = "asleep" => w \in lt[u]
       /\ st[u] = "running" => k = ic[u]

Owed(q, ic, st, lt, z) ==
    \A m \in q, w \in z : <<w, ic[w]>> \notin m.acks => Owes(m.acks, w, ic, st, lt)

(* So such a message is not destroyed.                                     *)
LEMMA OwedNotFull ==
  ASSUME NEW q, Fits(q), NEW ic, NEW st, Acked(q, ic, st), NEW lt, NEW z \in SUBSET Workers,
         Owed(q, ic, st, lt, z), NEW w \in z, ic[w] = 1,
         NEW m \in q, <<w, ic[w]>> \notin m.acks
  PROVE  ~Full(m)
<1>1. /\ m.acks \in SUBSET (Workers \X Nat) /\ IsFiniteSet(m.acks)
      /\ Owes(m.acks, w, ic, st, lt)
  BY DEF Fits, Message, Owed
<1>2. \A u \in Workers, k \in Nat : <<u, k>> \in m.acks => u # w
  <2> SUFFICES ASSUME NEW k \in Nat, <<w, k>> \in m.acks PROVE FALSE
    BY Zenon
  <2>1. 1 <= k /\ k <= ic[w]
    BY Zenon DEF Acked
  <2>2. k = 1
    BY <2>1
  <2> QED
    BY <2>2, Zenon
<1> DEFINE A == m.acks
           R == Workers \ {w}
           f == [a \in A |-> a[1]]
<1>3. f \in [A -> R] /\ \A a, b \in A : f[a] = f[b] => a = b
  <2>1. ASSUME NEW a \in A
        PROVE  /\ a = <<a[1], a[2]>> /\ a[1] \in Workers /\ a[2] \in Nat
               /\ a[1] # w /\ f[a] = a[1]
    <3>1. a = <<a[1], a[2]>> /\ a[1] \in Workers /\ a[2] \in Nat
      BY <1>1
    <3> QED
      BY <1>2, <3>1, Zenon
  <2>2. f \in [A -> R]
    BY <2>1, Zenon
  <2> HIDE DEF f, A
  <2>3. ASSUME NEW a \in A, NEW b \in A, f[a] = f[b] PROVE a = b
    <3>1. a[1] = b[1]
      BY <2>1, <2>3, Zenon
    <3>2. PICK u \in Workers, k \in Nat, l \in Nat : a = <<u, k>> /\ b = <<u, l>>
      <4>1. a = <<a[1], a[2]>> /\ a[1] \in Workers /\ a[2] \in Nat
        BY <2>1, Zenon
      <4>2. b = <<a[1], b[2]>> /\ b[2] \in Nat
        BY <2>1, <3>1, Zenon
      <4> QED
        BY <4>1, <4>2, Zenon
    <3>3. k = l
      BY <1>1, <3>2, Zenon DEF Owes, A
    <3> QED
      BY <3>2, <3>3, Zenon
  <2> QED
    BY <2>2, <2>3, Zenon
<1> HIDE DEF f, A
<1>4. f \in Injection(A, R)
  BY <1>3, Zenon DEF Injection, IsInjective
<1>5. IsFiniteSet(R) /\ Cardinality(R) = N - 1 /\ N \in Nat
  <2>1. IsFiniteSet(Workers) /\ N = Cardinality(Workers) /\ N \in Nat /\ w \in Workers
    BY ConstantsAssumption, NFact DEF N
  <2> QED
    BY <2>1, FS_RemoveElement
<1> HIDE DEF R
<1>6. Cardinality(A) <= Cardinality(R)
  BY <1>4, <1>5, FS_Injection, Zenon
<1>7. Cardinality(A) \in Nat
  BY <1>1, FS_CardinalityType, Zenon DEF A
<1>8. Cardinality(A) # N
  BY <1>5, <1>6, <1>7
<1> QED
  BY <1>8, Zenon DEF Full, A

OnlyOf(st2, st, u) == \A x \in Workers : x # u => st2[x] = st[x]

HeardOf(lt2, lt, u) == \A x \in Workers : x # u => lt[x] \ {u} \in SUBSET lt2[x]

(* u reads the messages up to k; if it is among z, it reads them all.      *)
LEMMA OwedRead ==
  ASSUME NEW q \in SUBSET Message, NEW ic \in [Workers -> Nat], NEW st, Acked(q, ic, st),
         NEW lt \in [Workers -> SUBSET Workers], NEW z, Owed(q, ic, st, lt, z),
         NEW u \in Workers, st[u] = "running", 1 <= ic[u], NEW k \in Nat, NEW st2,
         OnlyOf(st2, st, u), st2[u] \in {"running", "dead"}, NEW lt2, HeardOf(lt2, lt, u),
         NEW z2 \in SUBSET z, u \in z2 => \A m \in q : m.id <= k
  PROVE  /\ Acked(Consumed(q, <<u, ic[u]>>, k), ic, st2)
         /\ Owed(Consumed(q, <<u, ic[u]>>, k), ic, st2, lt2, z2)
<1> USE DEF OnlyOf, HeardOf
<1> DEFINE p == <<u, ic[u]>>
<1>1. PICK i \in Nat : i = ic[u] /\ p = <<u, i>> /\ 1 <= i
  OBVIOUS
<1> HIDE DEF p
<1>2. ASSUME NEW x \in Consumed(q, p, k)
      PROVE  \E m \in q : Marked(m, x, p, k)
  BY ConsumedFrom, Zenon
<1>3. ASSUME NEW m \in q, NEW x, Marked(m, x, p, k)
      PROVE  x.acks \in {m.acks, m.acks \union {p}} /\ (u \in z2 => p \in x.acks)
  <2>1. m.id \in Nat
    BY DEF Message
  <2>2. u \in z2 => m.id <= k
    OBVIOUS
  <2>3. \/ m.id > k /\ x.acks = m.acks
        \/ m.id <= k /\ x.acks = m.acks \union {p}
    BY <1>3, Zenon DEF Marked
  <2> QED
    BY <2>1, <2>2, <2>3
<1>4. ASSUME NEW x \in Consumed(q, p, k), NEW y \in Workers, NEW j \in Nat, <<y, j>> \in x.acks
      PROVE  1 <= j /\ j <= ic[y] /\ (st2[y] \in {"forked", "asleep"} => j < ic[y])
  <2>1. PICK m \in q : x.acks \in {m.acks, m.acks \union {p}}
    BY <1>2, <1>3, Zenon
  <2>2. CASE <<y, j>> \in m.acks
    <3>1. 1 <= j /\ j <= ic[y] /\ (st[y] \in {"forked", "asleep"} => j < ic[y])
      BY <2>2, Zenon DEF Acked
    <3>2. st2[y] \in {"forked", "asleep"} => st2[y] = st[y]
      OBVIOUS
    <3> QED
      BY <3>1, <3>2, Zenon
  <2>3. CASE <<y, j>> = p
    <3>1. y = u /\ j = i
      <4>1. <<y, j>> = <<u, i>>
        BY <1>1, <2>3, Zenon
      <4> QED
        BY <4>1, SamePair, Zenon
    <3>2. st2[y] \notin {"forked", "asleep"}
      BY <3>1, Zenon
    <3>3. j <= ic[y]
      BY <1>1, <3>1, Counting, Zenon
    <3> QED
      BY <1>1, <3>1, <3>2, <3>3, Zenon
  <2> QED
    BY <1>4, <2>1, <2>2, <2>3, Zenon
<1>5. ASSUME NEW x \in Consumed(q, p, k), NEW w \in z2, <<w, ic[w]>> \notin x.acks
      PROVE  Owes(x.acks, w, ic, st2, lt2)
  <2>1. PICK m \in q : Marked(m, x, p, k)
    BY <1>2, Zenon
  <2>2. x.acks \in {m.acks, m.acks \union {p}} /\ (u \in z2 => p \in x.acks)
    BY <1>3, <2>1, Zenon
  <2>3. w # u
    BY <1>5, <2>2, Zenon DEF p
  <2>4. Owes(m.acks, w, ic, st, lt)
    <3>1. <<w, ic[w]>> \notin m.acks
      BY <1>5, <2>2, Zenon
    <3> QED
      BY <3>1, Zenon DEF Owed
  <2> SUFFICES ASSUME NEW y \in Workers, NEW j \in Nat, <<y, j>> \in x.acks
               PROVE  /\ \A l \in Nat : <<y, l>> \in x.acks => j = l
                      /\ st2[y] = "asleep" => w \in lt2[y]
                      /\ st2[y] = "running" => j = ic[y]
    BY Zenon DEF Owes
  <2>5. CASE y # u
    <3>1. \A l \in Nat : <<y, l>> \in x.acks => <<y, l>> \in m.acks
      BY <1>1, <2>2, <2>5
    <3>2. /\ \A l \in Nat : <<y, l>> \in m.acks => j = l
          /\ st[y] = "asleep" => w \in lt[y]
          /\ st[y] = "running" => j = ic[y]
      BY <2>4, <3>1, Zenon DEF Owes
    <3>3. w \in lt[y] => w \in lt2[y]
      BY <2>3, <2>5, ZenonT(30)
    <3> QED
      BY <2>5, <3>1, <3>2, <3>3, ZenonT(30)
  <2>6. CASE y = u
    <3>1. \A l \in Nat : <<u, l>> \in m.acks => l = i
      BY <1>1, <2>4, Zenon DEF Owes
    <3>2. \A l \in Nat : <<u, l>> \in x.acks => l = i
      <4>1. ASSUME NEW l \in Nat, <<u, l>> \in x.acks
            PROVE  l = i
        <5>1. <<u, l>> \in m.acks \/ <<u, l>> = <<u, i>>
          BY <1>1, <2>2, <4>1, Zenon
        <5> QED
          BY <3>1, <5>1, SamePair, Zenon
      <4> QED
        BY <4>1, Zenon
    <3> QED
      BY <1>1, <2>6, <3>2
  <2> QED
    BY <2>5, <2>6
<1> QED
  BY <1>4, <1>5, Zenon DEF Acked, Owed, p

(* A message is sent by u, which runs.                                     *)
LEMMA OwedSent ==
  ASSUME NEW q, NEW ic \in [Workers -> Nat], NEW st, Acked(q, ic, st), NEW lt, NEW z,
         Owed(q, ic, st, lt, z), NEW u \in Workers, st[u] = "running", 1 <= ic[u],
         NEW y, y.acks = {<<u, ic[u]>>}
  PROVE  Acked(q \union {y}, ic, st) /\ Owed(q \union {y}, ic, st, lt, z)
<1>1. ASSUME NEW x \in Workers, NEW j \in Nat, <<x, j>> \in y.acks
      PROVE  x = u /\ j = ic[u]
  BY <1>1
<1>2. ASSUME NEW x \in Workers, NEW j \in Nat, <<x, j>> \in y.acks
      PROVE  1 <= j /\ j <= ic[x] /\ (st[x] \in {"forked", "asleep"} => j < ic[x])
  BY <1>1, <1>2
<1>3. ASSUME NEW w PROVE Owes(y.acks, w, ic, st, lt)
  <2>1. ASSUME NEW x \in Workers, NEW j \in Nat, <<x, j>> \in y.acks
        PROVE  /\ \A l \in Nat : <<x, l>> \in y.acks => j = l
               /\ st[x] = "asleep" => w \in lt[x]
               /\ st[x] = "running" => j = ic[x]
    BY <1>1, <2>1
  <2> QED
    BY <2>1, Zenon DEF Owes
<1>4. Acked(q \union {y}, ic, st)
  BY <1>2, Zenon DEF Acked
<1>5. Owed(q \union {y}, ic, st, lt, z)
  BY <1>3, Zenon DEF Owed
<1> QED
  BY <1>4, <1>5

(* v wakes up when nobody is late, and pid o is replaced by its own.       *)
LEMMA OwedWake ==
  ASSUME NEW q \in SUBSET Message, NEW ic \in [Workers -> Nat], NEW st, Acked(q, ic, st),
         NEW lt, NEW z \in SUBSET Workers, Owed(q, ic, st, lt, z),
         NEW v \in Workers, st[v] = "asleep", lt[v] = {}, 1 <= ic[v],
         NEW o, \A w \in z : o # <<w, ic[w]>>, NEW st2,
         OnlyOf(st2, st, v), st2[v] = "running", NEW lt2, OnlyOf(lt2, lt, v)
  PROVE  /\ Acked(Purge(q, o, <<v, ic[v]>>), ic, st2)
         /\ Owed(Purge(q, o, <<v, ic[v]>>), ic, st2, lt2, z)
<1> USE DEF OnlyOf
<1> DEFINE p == <<v, ic[v]>>
<1>1. PICK i \in Nat : i = ic[v] /\ p = <<v, i>> /\ 1 <= i
  BY ZenonT(30)
<1> HIDE DEF p
<1>2. \A x \in Purge(q, o, p) : \E m \in q : Purged(m, x, o, p)
  BY PurgeFrom, ZenonT(30)
<1>3. ASSUME NEW m, NEW x, Purged(m, x, o, p)
      PROVE  /\ x.acks \in SUBSET (m.acks \union {p})
             /\ \A a \in m.acks : a # o => a \in x.acks
  BY <1>3 DEF Purged
<1>4. ASSUME NEW x \in Purge(q, o, p), NEW y \in Workers, NEW j \in Nat, <<y, j>> \in x.acks
      PROVE  1 <= j /\ j <= ic[y] /\ (st2[y] \in {"forked", "asleep"} => j < ic[y])
  <2>1. PICK m \in q : x.acks \in SUBSET (m.acks \union {p})
    BY <1>2, <1>3, Zenon
  <2>2. CASE <<y, j>> \in m.acks
    <3>1. 1 <= j /\ j <= ic[y] /\ (st[y] \in {"forked", "asleep"} => j < ic[y])
      BY <2>2, Zenon DEF Acked
    <3>2. st2[y] \in {"forked", "asleep"} => st2[y] = st[y]
      OBVIOUS
    <3> QED
      BY <3>1, <3>2, Zenon
  <2>3. CASE <<y, j>> = p
    <3>1. y = v /\ j = i
      <4>1. <<y, j>> = <<v, i>>
        BY <1>1, <2>3, Zenon
      <4> QED
        BY <4>1, SamePair, Zenon
    <3>2. st2[y] \notin {"forked", "asleep"}
      BY <3>1, Zenon
    <3>3. j <= ic[y]
      BY <1>1, <3>1, Counting, Zenon
    <3> QED
      BY <1>1, <3>1, <3>2, <3>3, Zenon
  <2> QED
    BY <1>4, <2>1, <2>2, <2>3, Zenon
<1>5. ASSUME NEW x \in Purge(q, o, p), NEW w \in z, <<w, ic[w]>> \notin x.acks
      PROVE  Owes(x.acks, w, ic, st2, lt2)
  <2>1. PICK m \in q : Purged(m, x, o, p)
    BY <1>2, Zenon
  <2>2. /\ x.acks \in SUBSET (m.acks \union {p})
        /\ \A a \in m.acks : a # o => a \in x.acks
    BY <1>3, <2>1, Zenon
  <2>3. Owes(m.acks, w, ic, st, lt)
    <3>1. <<w, ic[w]>> \notin m.acks
      BY <1>5, <2>2, Zenon
    <3> QED
      BY <3>1, Zenon DEF Owed
  <2>4. \A l \in Nat : <<v, l>> \notin m.acks
    BY <2>3, Zenon DEF Owes
  <2>5. \A l \in Nat : <<v, l>> \in x.acks => l = i
    BY <1>1, <2>2, <2>4
  <2> SUFFICES ASSUME NEW y \in Workers, NEW j \in Nat, <<y, j>> \in x.acks
               PROVE  /\ \A l \in Nat : <<y, l>> \in x.acks => j = l
                      /\ st2[y] = "asleep" => w \in lt2[y]
                      /\ st2[y] = "running" => j = ic[y]
    BY Zenon DEF Owes
  <2>6. CASE y # v
    <3>1. \A l \in Nat : <<y, l>> \in x.acks => <<y, l>> \in m.acks
      BY <1>1, <2>2, <2>6
    <3>2. /\ \A l \in Nat : <<y, l>> \in m.acks => j = l
          /\ st[y] = "asleep" => w \in lt[y]
          /\ st[y] = "running" => j = ic[y]
      BY <2>3, <3>1, Zenon DEF Owes
    <3> QED
      BY <2>6, <3>1, <3>2, Zenon
  <2>7. CASE y = v
    BY <1>1, <2>5, <2>7
  <2> QED
    BY <2>6, <2>7
<1> QED
  BY <1>4, <1>5, Zenon DEF Acked, Owed, p

(* Nobody has started to run, and who started again is not among z.        *)
NoneRuns(st2, st, ic2, ic, z) ==
    \A u \in Workers : \/ /\ ic2[u] = ic[u]
                          /\ st2[u] = "forked" => st[u] = "forked"
                          /\ st2[u] = "asleep" => st[u] \in {"forked", "asleep"}
                          /\ st2[u] = "running" => st[u] = "running"
                       \/ ic2[u] = ic[u] + 1 /\ st2[u] = "forked" /\ u \notin z

(* Those with a pid in a message of q that sleep wait for z.               *)
StillWait(q, st2, st, lt2, lt, z) ==
    \A m \in q, u \in Workers, k \in Nat, w \in z :
       <<u, k>> \in m.acks /\ st2[u] = "asleep" =>
          (st[u] = "asleep" /\ (w \in lt[u] => w \in lt2[u])) \/ w \in lt2[u]

(* A worker starts, sleeps or dies and the queue is left alone.            *)
LEMMA OwedLess ==
  ASSUME NEW q, NEW ic \in [Workers -> Nat], NEW st, Acked(q, ic, st), NEW lt,
         NEW z \in SUBSET Workers, Owed(q, ic, st, lt, z),
         NEW z2 \in SUBSET z, NEW lt2, NEW st2, NEW ic2 \in [Workers -> Nat],
         NoneRuns(st2, st, ic2, ic, z2), StillWait(q, st2, st, lt2, lt, z2)
  PROVE  Acked(q, ic2, st2) /\ Owed(q, ic2, st2, lt2, z2)
<1> USE DEF NoneRuns, StillWait
<1>1. ASSUME NEW m \in q, NEW u \in Workers, NEW k \in Nat, <<u, k>> \in m.acks
      PROVE  1 <= k /\ k <= ic2[u] /\ (st2[u] \in {"forked", "asleep"} => k < ic2[u])
  <2>1. 1 <= k /\ k <= ic[u] /\ (st[u] \in {"forked", "asleep"} => k < ic[u])
    BY <1>1, Zenon DEF Acked
  <2>2. ic[u] \in Nat /\ ic2[u] \in Nat
    OBVIOUS
  <2> QED
    BY <2>1, <2>2
<1>2. ASSUME NEW m \in q, NEW w \in z2, <<w, ic2[w]>> \notin m.acks,
             NEW u \in Workers, NEW k \in Nat, <<u, k>> \in m.acks
      PROVE  /\ \A l \in Nat : <<u, l>> \in m.acks => k = l
             /\ st2[u] = "asleep" => w \in lt2[u]
             /\ st2[u] = "running" => k = ic2[u]
  <2>1. w \in Workers /\ ic2[w] = ic[w] /\ w \in z
    OBVIOUS
  <2>2. Owes(m.acks, w, ic, st, lt)
    BY <1>2, <2>1, Zenon DEF Owed
  <2>3. /\ \A l \in Nat : <<u, l>> \in m.acks => k = l
        /\ st[u] = "asleep" => w \in lt[u]
        /\ st[u] = "running" => k = ic[u]
    BY <1>2, <2>2, Zenon DEF Owes
  <2>4. st2[u] = "asleep" => w \in lt2[u]
    BY <1>2, <2>3, Zenon
  <2>5. st2[u] = "running" => st[u] = "running" /\ ic2[u] = ic[u]
    OBVIOUS
  <2> QED
    BY <2>3, <2>4, <2>5, Zenon
<1> QED
  BY <1>1, <1>2, Zenon DEF Acked, Owed, Owes

Fine == used["early"] = 0 /\ used["pool"] = 0 /\ used["stall"] = 0

Runs == {w \in Workers : state[w] = "running"}

Sleeps == {w \in Workers : state[w] = "asleep"}

(* The workers that have not crashed.                                      *)
Survivors == {w \in Workers \ restarted : state[w] # "dead"}

Pids == [w \in Workers |-> Pid(w)]

(* Until all entries of sh->status are taken nobody has crashed; then each *)
(* survivor has one.                                                       *)
Filling ==
    /\ restarted = {} /\ \A w \in Workers : inc[w] = 1 /\ state[w] # "dead"
    /\ \A i \in Slots : status[i].pid # NoPid => \E w \in Runs : status[i].pid = Pids[w]

Filled == \E g : Placed(g, status, Pids, Runs, Sleeps, late, Survivors)

Places == (Taken(status) => Filled) /\ (~Taken(status) => Filling)

(* The last message about n that worker w has not applied says what all    *)
(* commands add up to; if there is none, w has it.                         *)
Streamed(w, n) ==
    LET T == Todo(queue, Pid(w), n)
    IN  Ends(T, intended[n]) /\ (T = {} => n \in failed[w] \/ view[w][n] = intended[n])

Sound ==
    /\ Places
    /\ Acked(queue, inc, state) /\ Owed(queue, inc, state, late, Survivors)
    /\ \A w \in Survivors, n \in Names : Streamed(w, n)

Basic ==
    /\ PidsInv /\ Ranked(status)
    /\ late \in [Workers -> SUBSET Workers]
    /\ DOMAIN view = Workers /\ DOMAIN failed = Workers /\ DOMAIN intended = Names
    /\ DOMAIN used = Budgets
    /\ used["early"] \in Nat /\ used["pool"] \in Nat /\ used["stall"] \in Nat
    /\ restarted \in SUBSET Workers
    /\ \A w \in Workers : 1 <= inc[w] /\ (w \notin restarted => inc[w] = 1)
    /\ \A m \in queue : m.id \in 1..version
    /\ ~allocated => version = 0 /\ \A w \in Workers : state[w] = "forked"

-----------------------------------------------------------------------------
(* The types of the variables.                                             *)
LEMMA BasicTypes ==
  ASSUME Basic
  PROVE  /\ queue \in SUBSET Message
         /\ \A m \in queue : m.id \in 1..version /\ m.id <= version
         /\ DOMAIN view = Workers /\ DOMAIN failed = Workers /\ DOMAIN intended = Names
         /\ inc \in [Workers -> Nat] /\ \A w \in Workers : 1 <= inc[w]
         /\ version \in Nat /\ late \in [Workers -> SUBSET Workers]
         /\ state \in [Workers -> {"dead", "forked", "asleep", "running"}]
         /\ Survivors \in SUBSET Workers
<1>1. queue \in SUBSET Message /\ version \in Nat /\ \A m \in queue : m.id \in 1..version
  BY Zenon DEF Basic, PidsInv, Fits
<1>2. \A m \in queue : m.id <= version
  BY <1>1
<1> QED
  BY <1>1, <1>2, Zenon DEF Basic, PidsInv, Survivors

(* The pids differ; the process of a worker that sleeps has no entry yet.  *)
LEMMA PidsFact ==
  ASSUME PidsInv
  PROVE  /\ Differ(Pids) /\ \A w \in Workers : Pids[w] = Pid(w) /\ Pid(w) = <<w, inc[w]>>
         /\ \A w \in Workers : state[w] \in {"forked", "asleep"} =>
               \A i \in Slots : status[i].pid # Pids[w]
<1>1. \A w \in Workers : Pids[w] = <<w, inc[w]>> /\ inc[w] \in Nat
  BY DEF Pids, Pid, PidsInv
<1>2. Pids \in [Workers -> Workers \X Nat]
  BY <1>1 DEF Pids, Pid
<1>3. \A v, w \in Workers : Pids[v] = Pids[w] => v = w
  BY <1>1
<1>4. ASSUME NEW w \in Workers, state[w] \in {"forked", "asleep"}, NEW i \in Slots,
             status[i].pid = Pids[w]
      PROVE  FALSE
  BY <1>1, <1>4 DEF PidsInv, Known
<1> QED
  BY <1>1, <1>2, <1>3, <1>4, Zenon DEF Differ, Pid

(* The reads of a running worker.                                          *)
LEMMA PlacesRead ==
  ASSUME Basic, Basic', Places, NEW w \in Workers, state[w] = "running",
         UNCHANGED <<state, inc, restarted>>, status' = ReadStatus(status, Pid(w)),
         late' = [s \in Workers |-> late[s] \ {w}]
  PROVE  Places'
<1>1. /\ Table(status) /\ Ranked(status) /\ Apart(status') /\ PidsInv
      /\ late \in [Workers -> SUBSET Workers]
  BY Zenon DEF Basic, PidsInv, Table, Apart
<1>2. Differ(Pids) /\ Pids[w] = Pid(w) /\ Pid(w) \in Workers \X Nat
  <2>1. Differ(Pids) /\ Pids[w] = Pid(w)
    BY <1>1, PidsFact, Zenon
  <2> QED
    BY <2>1 DEF Differ
<1>3. Pids' = Pids /\ Runs' = Runs /\ Sleeps' = Sleeps /\ Survivors' = Survivors
  BY Zenon DEF Pids, Pid, Runs, Sleeps, Survivors
<1>4. /\ w \in Runs /\ Runs \in SUBSET Workers /\ Sleeps \in SUBSET Workers
      /\ Runs \intersect Sleeps = {} /\ Survivors \in SUBSET Workers
  BY DEF Runs, Sleeps, Survivors
<1>5. status' = ReadStatus(status, Pids[w]) /\ \A v \in Workers : late'[v] = late[v] \ {w}
  BY <1>2, Zenon
<1>6. CASE Taken(status)
  <2>1. PICK g : Placed(g, status, Pids, Runs, Sleeps, late, Survivors)
    BY <1>6, ZenonT(30) DEF Places, Filled
  <2>2. Placed(g, status', Pids, Runs, Sleeps, late', Survivors) /\ Taken(status')
    <3>1. Drops(late', late, w)
      BY <1>5, Zenon DEF Drops
    <3>2. status' = ReadStatus(status, Pids[w])
      BY <1>5, Zenon
    <3> QED
      BY <1>1, <1>2, <1>4, <1>6, <2>1, <3>1, <3>2, PlacedRead, ZenonT(30)
  <2>3. Filled'
    BY <1>3, <2>2, Zenon DEF Filled
  <2> QED
    BY <2>2, <2>3, Zenon DEF Places, Taken
<1>7. CASE ~Taken(status)
  <2>1. Filling
    BY <1>7, Zenon DEF Places
  <2>2. \A j \in Slots : status'[j].pid \in {status[j].pid, Pid(w)}
    BY <1>1, <1>2, ReadTable, Zenon
  <2>3. \A i \in Slots : status'[i].pid # NoPid => \E x \in Runs : status'[i].pid = Pids[x]
    BY <1>2, <1>4, <2>1, <2>2, ZenonT(30) DEF Filling
  <2>4. Filling'
    BY <1>3, <2>1, <2>3, Zenon DEF Filling
  <2>5. ASSUME Taken(status') PROVE Filled'
    <3>1. \E g : Placed(g, status', Pids, Runs, Sleeps, late', Survivors)
      BY <1>1, <1>2, <1>4, <2>3, <2>5, PlacedStart, ZenonT(30)
    <3> QED
      BY <1>3, <3>1, Zenon DEF Filled
  <2> QED
    BY <2>4, <2>5, Zenon DEF Places, Taken
<1> QED
  BY <1>6, <1>7

(* An entry that is at least as old as an empty one is empty.              *)
LEMMA OldestFree ==
  ASSUME NEW s, NEW k, Prefix(s, k), NEW i \in Slots, s[i].pid = NoPid, NEW o \in Slots,
         s[o].time < s[i].time \/ (s[o].time = s[i].time /\ o <= i)
  PROVE  s[o].pid = NoPid
<1>1. /\ s[i].time = 0 /\ s[o].time \in 0..N /\ N \in Nat /\ k \in 0..N
      /\ s[o].pid # NoPid => s[o].time > N - k
  BY NFact DEF Prefix, Slots, Entry
<1> QED
  BY <1>1

(* A worker wakes up.                                                      *)
LEMMA PlacesWake ==
  ASSUME Basic, Basic', Places, NEW w \in Workers, WakeUp(w), late[w] = {}
  PROVE  /\ Places' /\ Survivors' = Survivors
         /\ \A v \in Survivors : status[Oldest(status)].pid # Pid(v)
         /\ w \in Survivors => status[Oldest(status)].pid = NoPid
<1>1. /\ Table(status) /\ Ranked(status) /\ Apart(status') /\ PidsInv
      /\ late \in [Workers -> SUBSET Workers]
  BY Zenon DEF Basic, PidsInv, Table, Apart
<1>2. /\ state[w] = "asleep" /\ state' = [state EXCEPT ![w] = "running"]
      /\ status' = Touched(status, Oldest(status), Pid(w))
      /\ late' = [late EXCEPT ![w] = {}] /\ UNCHANGED <<inc, restarted>>
  BY Zenon DEF WakeUp
<1>3. /\ Differ(Pids) /\ \A v \in Workers : Pids[v] = Pid(v)
      /\ \A i \in Slots : status[i].pid # Pids[w]
  BY <1>1, <1>2, PidsFact
<1>4. /\ Pids' = Pids /\ Runs' = Runs \union {w} /\ Sleeps' = Sleeps \ {w}
      /\ Survivors' = Survivors
  <2>1. state \in [Workers -> {"dead", "forked", "asleep", "running"}]
    BY <1>1 DEF PidsInv
  <2>2. Pids' = Pids
    BY <1>2, Zenon DEF Pids, Pid
  <2>3. \A v \in Workers : state'[v] = IF v = w THEN "running" ELSE state[v]
    BY <1>2, <2>1
  <2>4. Runs' = Runs \union {w} /\ Sleeps' = Sleeps \ {w} /\ Survivors' = Survivors
    BY <1>2, <2>3 DEF Runs, Sleeps, Survivors
  <2> QED
    BY <2>2, <2>4
<1>5. /\ w \in Sleeps /\ Runs \in SUBSET Workers /\ Sleeps \in SUBSET Workers
      /\ Runs \intersect Sleeps = {} /\ Survivors \in SUBSET Workers
  BY <1>2 DEF Runs, Sleeps, Survivors
<1>6. \A x \in Sleeps : x # w => late'[x] = late[x]
  BY <1>1, <1>2, <1>5
<1>7. PICK o : o = Oldest(status)
  BY Zenon
<1>8. status' = Touched(status, o, Pids[w])
  BY <1>2, <1>3, <1>7, Zenon
<1>9. CASE Taken(status)
  <2>1. PICK g : Placed(g, status, Pids, Runs, Sleeps, late, Survivors)
    BY <1>9, Zenon DEF Places, Filled
  <2>6. Unlisted(status, Pids[w]) /\ SameBut(late', late, Sleeps, w)
    BY <1>3, <1>6, Zenon DEF Unlisted, SameBut
  <2>2. /\ NotOf(status, o, Pids, Runs)
        /\ \E h : Placed(h, status', Pids, Runs \union {w}, Sleeps \ {w}, late', Survivors)
    BY <1>1, <1>3, <1>5, <1>7, <1>8, <1>9, <2>1, <2>6, PlacedWake, ZenonT(30)
  <2>3. Filled'
    BY <1>4, <2>2, Zenon DEF Filled
  <2>4. Taken(status')
    <3>1. PICK k \in 0..N : Prefix(status, k) /\ o \in Slots /\ o <= k + 1
      BY <1>1, <1>7, WakeShape, Zenon
    <3>2. Pids[w] \in Workers \X Nat
      BY <1>3 DEF Differ
    <3>3. \A j \in Slots : status'[j].pid = IF j = o THEN Pids[w] ELSE status[j].pid
      BY <1>8, <3>1, <3>2, TouchedPrefix
    <3>4. Pids[w] # NoPid
      BY <3>2, RealPid, Zenon
    <3> QED
      BY <1>9, <3>3, <3>4, Zenon DEF Taken
  <2>5. \A v \in Survivors : status[o].pid # Pid(v)
    BY <1>3, <1>5, <2>1, <2>2, Zenon DEF Placed, NotOf
  <2>7. w \notin Survivors
    BY <1>5, <2>1, Zenon DEF Placed
  <2> QED
    BY <1>4, <1>7, <2>3, <2>4, <2>5, <2>7, Zenon DEF Places, Taken
<1>10. CASE ~Taken(status)
  <2>1. Filling
    BY <1>10, Zenon DEF Places
  <2>2. PICK k \in 0..N : Prefix(status, k) /\ o \in Slots /\ o <= k + 1
    BY <1>1, <1>7, WakeShape, Zenon
  <2>3. status[o].pid = NoPid
    <3>1. PICK i \in Slots : status[i].pid = NoPid
      BY <1>10, Zenon DEF Taken
    <3>2. status[o].time < status[i].time \/ (status[o].time = status[i].time /\ o <= i)
      BY <1>7, <2>2, OldestFound, ZenonT(30)
    <3> QED
      BY <2>2, <3>1, <3>2, OldestFree, Zenon
  <2>4. Pids[w] \in Workers \X Nat
    BY <1>3 DEF Differ
  <2>5. \A j \in Slots : status'[j].pid \in {status[j].pid, Pids[w]}
    BY <1>8, <2>2, <2>4, TouchedPrefix
  <2>6. \A i \in Slots : status'[i].pid # NoPid =>
           \E x \in Runs \union {w} : status'[i].pid = Pids[x]
    BY <2>1, <2>5, Zenon DEF Filling
  <2>7. \A v \in Workers : inc'[v] = 1 /\ state'[v] # "dead"
    BY <1>1, <1>2, <2>1 DEF Filling, PidsInv
  <2>8. Filling'
    BY <1>2, <1>4, <2>1, <2>6, <2>7, Zenon DEF Filling
  <2>9. ASSUME Taken(status') PROVE Filled'
    <3>1. PICK r : r = Runs \union {w}
      BY Zenon
    <3>2. PICK a : a = Sleeps \ {w}
      BY Zenon
    <3>3. r \in SUBSET Workers /\ a \in SUBSET Workers /\ r \intersect a = {}
      BY <1>5, <3>1, <3>2
    <3>4. \E g : Placed(g, status', Pids, r, a, late', Survivors)
      BY <1>1, <1>3, <1>5, <2>6, <2>9, <3>1, <3>3, PlacedStart, Zenon
    <3> QED
      BY <1>4, <3>1, <3>2, <3>4, Zenon DEF Filled
  <2>10. \A v \in Survivors : status[o].pid # Pid(v)
    <3>1. \A v \in Workers : Pids[v] \in Workers \X Nat
      BY <1>3, ZenonT(30) DEF Differ
    <3> QED
      BY <1>3, <1>5, <2>3, <3>1, RealPid, Zenon
  <2> QED
    BY <1>4, <1>7, <2>3, <2>8, <2>9, <2>10, Zenon DEF Places, Taken
<1> QED
  BY <1>9, <1>10

(* A worker dies when all entries are taken.                               *)
LEMMA PlacesCrash ==
  ASSUME Basic, Basic', Places, NEW w \in Workers, NEW k, Crash(w, k), Taken(status)
  PROVE  Places'
<1>1. /\ Table(status) /\ Ranked(status) /\ PidsInv
      /\ late \in [Workers -> SUBSET Workers]
  BY Zenon DEF Basic, PidsInv
<1>2. /\ state' = [state EXCEPT ![w] = "dead"] /\ UNCHANGED <<inc, restarted>>
      /\ \/ status' = status
         \/ state[w] = "running" /\ status' = ReadStatus(status, Pid(w))
      /\ late' = [s \in Workers |-> IF s = w THEN {} ELSE late[s] \ {w}]
  BY Zenon DEF Crash
<1>3. Differ(Pids) /\ Pids[w] = Pid(w)
  BY <1>1, PidsFact, Zenon
<1>4. /\ Pids' = Pids /\ Runs' = Runs \ {w} /\ Sleeps' = Sleeps \ {w}
      /\ Survivors' = Survivors \ {w}
  <2>1. state \in [Workers -> {"dead", "forked", "asleep", "running"}]
    BY <1>1 DEF PidsInv
  <2>2. Pids' = Pids
    BY <1>2, Zenon DEF Pids, Pid
  <2>3. \A v \in Workers : state'[v] = IF v = w THEN "dead" ELSE state[v]
    BY <1>2, <2>1, ZenonT(30)
  <2>4. Runs' = Runs \ {w} /\ Sleeps' = Sleeps \ {w} /\ Survivors' = Survivors \ {w}
    BY <1>2, <2>3 DEF Runs, Sleeps, Survivors
  <2> QED
    BY <2>2, <2>4
<1>5. /\ Runs \in SUBSET Workers /\ Sleeps \in SUBSET Workers
      /\ Runs \intersect Sleeps = {} /\ (state[w] = "running" => w \in Runs)
  BY DEF Runs, Sleeps
<1>6. PICK g : Placed(g, status, Pids, Runs, Sleeps, late, Survivors)
  BY Zenon DEF Places, Filled
<1>7. PICK l2 : l2 = [v \in Workers |-> late[v] \ {w}]
  BY Zenon
<1>8. \A v \in Workers : l2[v] = late[v] \ {w}
  BY <1>7, Zenon
<1>9. CASE status' = status
  <2>1. Weaker(Sleeps \ {w}, late', Sleeps, late, Runs \ {w})
    BY <1>2, <1>5 DEF Weaker
  <2>2. /\ Agree(Pids, Pids, Runs \ {w}) /\ Runs \ {w} \in SUBSET Runs
        /\ Survivors \ {w} \in SUBSET Survivors
        /\ Survivors \ {w} \in SUBSET (Runs \ {w})
    BY <1>6, Zenon DEF Agree, Placed
  <2>3. Placed(g, status, Pids, Runs \ {w}, Sleeps \ {w}, late', Survivors \ {w})
    BY <1>6, <2>1, <2>2, PlacedLess, Zenon
  <2>4. Filled'
    BY <1>4, <1>9, <2>3, Zenon DEF Filled
  <2> QED
    BY <1>9, <2>4, Zenon DEF Places, Taken
<1>10. CASE state[w] = "running" /\ status' = ReadStatus(status, Pid(w))
  <2>0. status' = ReadStatus(status, Pids[w])
    BY <1>3, <1>10, ZenonT(30)
  <2>1. Placed(g, status', Pids, Runs, Sleeps, l2, Survivors) /\ Taken(status')
    <3>1. Drops(l2, late, w)
      BY <1>8, Zenon DEF Drops
    <3> QED
      BY <1>1, <1>3, <1>5, <1>6, <1>10, <2>0, <3>1, PlacedRead, ZenonT(30)
  <2>2. Weaker(Sleeps \ {w}, late', Sleeps, l2, Runs \ {w})
    BY <1>2, <1>5, <1>8 DEF Weaker
  <2>3. /\ Agree(Pids, Pids, Runs \ {w}) /\ Runs \ {w} \in SUBSET Runs
        /\ Survivors \ {w} \in SUBSET Survivors
        /\ Survivors \ {w} \in SUBSET (Runs \ {w})
    BY <1>6, Zenon DEF Agree, Placed
  <2>4. Placed(g, status', Pids, Runs \ {w}, Sleeps \ {w}, late', Survivors \ {w})
    BY <2>1, <2>2, <2>3, PlacedLess, Zenon
  <2>5. Filled'
    BY <1>4, <2>4, Zenon DEF Filled
  <2> QED
    BY <2>1, <2>5, Zenon DEF Places, Taken
<1> QED
  BY <1>2, <1>9, <1>10

(* A new process for a dead worker.                                        *)
LEMMA PlacesRespawn ==
  ASSUME Basic, Basic', Places, NEW w \in Workers, Respawn(w)
  PROVE  Places' /\ Survivors' \in SUBSET Survivors /\ w \notin Survivors'
<1>1. PidsInv /\ state \in [Workers -> {"dead", "forked", "asleep", "running"}]
      /\ inc \in [Workers -> Nat]
  BY Zenon DEF Basic, PidsInv
<1>2. /\ state[w] = "dead" /\ state' = [state EXCEPT ![w] = "forked"]
      /\ inc' = [inc EXCEPT ![w] = @ + 1] /\ restarted' = restarted \union {w}
      /\ UNCHANGED <<status, late>>
  BY Zenon DEF Respawn
<1>3. \A v \in Workers : /\ state'[v] = IF v = w THEN "forked" ELSE state[v]
                         /\ v # w => inc'[v] = inc[v]
  BY <1>1, <1>2
<1>4. Runs' = Runs /\ Sleeps' = Sleeps /\ Survivors' \in SUBSET Survivors
      /\ w \notin Survivors'
  BY <1>2, <1>3 DEF Runs, Sleeps, Survivors
<1>5. \A v \in Runs : Pids'[v] = Pids[v]
  BY <1>2, <1>3 DEF Pids, Pid, Runs
<1>6. CASE Taken(status)
  <2>1. PICK g : Placed(g, status, Pids, Runs, Sleeps, late, Survivors)
    BY <1>6, Zenon DEF Places, Filled
  <2>2. /\ Agree(Pids', Pids, Runs) /\ Weaker(Sleeps, late, Sleeps, late, Runs)
        /\ Survivors' \in SUBSET Runs /\ Runs \in SUBSET Runs
    BY <1>4, <1>5, <2>1, Zenon DEF Agree, Weaker, Placed
  <2>3. Placed(g, status, Pids', Runs, Sleeps, late, Survivors')
    BY <1>4, <2>1, <2>2, PlacedLess, Zenon
  <2>4. Filled'
    BY <1>2, <1>4, <2>3, Zenon DEF Filled
  <2> QED
    BY <1>2, <1>4, <1>6, <2>4, Zenon DEF Places, Taken
<1>7. CASE ~Taken(status)
  BY <1>2, <1>7, Zenon DEF Places, Filling
<1> QED
  BY <1>6, <1>7

(* A process starts, or starts to sleep.                                   *)
LEMMA PlacesInit ==
  ASSUME Basic, Basic', Places, NEW w \in Workers, InitProcess(w)
  PROVE  /\ Places' /\ Survivors' = Survivors
         /\ \A v \in Survivors : v \in Runs \/ inc[w] = 1
<1>1. PidsInv /\ state \in [Workers -> {"dead", "forked", "asleep", "running"}]
      /\ late \in [Workers -> SUBSET Workers]
  BY Zenon DEF Basic, PidsInv
<1>2. /\ state[w] = "forked" /\ UNCHANGED <<inc, restarted, status>>
      /\ \/ /\ state' = [state EXCEPT ![w] = "asleep"]
            /\ late' = [late EXCEPT ![w] = Runs]
         \/ state' = [state EXCEPT ![w] = "running"] /\ late' = late
  BY Zenon DEF InitProcess, Runs
<1>3. \A v \in Workers : /\ v # w => state'[v] = state[v]
                         /\ state'[w] \in {"asleep", "running"}
  BY <1>1, <1>2
<1>4. Pids' = Pids /\ Survivors' = Survivors
  <2>1. Pids' = Pids
    BY <1>2, Zenon DEF Pids, Pid
  <2>2. Survivors' = Survivors
    BY <1>2, <1>3, ZenonT(30) DEF Survivors
  <2> QED
    BY <2>1, <2>2
<1>5. CASE Taken(status)
  <2>1. PICK g : Placed(g, status, Pids, Runs, Sleeps, late, Survivors)
    BY <1>5, Zenon DEF Places, Filled
  <2>2. Survivors \in SUBSET Runs /\ Runs \in SUBSET Runs /\ Agree(Pids, Pids, Runs)
    BY <2>1, Zenon DEF Placed, Agree
  <2>3. CASE state' = [state EXCEPT ![w] = "asleep"] /\ late' = [late EXCEPT ![w] = Runs]
    <3>1. Runs' = Runs /\ Sleeps' = Sleeps \union {w}
      BY <1>1, <1>2, <2>3 DEF Runs, Sleeps
    <3>2. Weaker(Sleeps', late', Sleeps, late, Runs)
      <4>1. \A v \in Workers : late'[v] = IF v = w THEN Runs ELSE late[v]
        BY <1>1, <2>3
      <4>2. \A v \in Sleeps : v \in Workers
        BY DEF Sleeps
      <4> QED
        BY <3>1, <4>1, <4>2 DEF Weaker
    <3>3. Placed(g, status, Pids, Runs, Sleeps', late', Survivors)
      BY <2>1, <2>2, <3>2, PlacedLess, Zenon
    <3> QED
      BY <1>2, <1>4, <1>5, <2>2, <3>1, <3>3, ZenonT(30) DEF Places, Filled, Taken
  <2>4. CASE state' = [state EXCEPT ![w] = "running"] /\ late' = late
    <3>1. Runs' = Runs \union {w} /\ Sleeps' = Sleeps
      BY <1>1, <1>2, <2>4, ZenonT(30) DEF Runs, Sleeps
    <3>2. Unlisted(status, Pids[w])
      BY <1>1, <1>2, PidsFact DEF Unlisted
    <3>3. Placed(g, status, Pids, Runs \union {w}, Sleeps, late, Survivors)
      BY <2>1, <3>2, PlacedRun, Zenon
    <3> QED
      BY <1>2, <1>4, <1>5, <2>2, <2>4, <3>1, <3>3, Zenon DEF Places, Filled, Taken
  <2> QED
    BY <1>2, <2>3, <2>4, ZenonT(30)
<1>6. CASE ~Taken(status)
  <2>1. Filling
    BY <1>6, Zenon DEF Places
  <2>2. \A v \in Runs : v \in Runs'
    BY <1>2, <1>3, ZenonT(30) DEF Runs
  <2>3. \A v \in Workers : inc'[v] = 1 /\ state'[v] # "dead"
    BY <1>2, <1>3, <2>1 DEF Filling
  <2>4. \A i \in Slots : status'[i].pid # NoPid => \E v \in Runs' : status'[i].pid = Pids'[v]
    BY <1>2, <1>4, <2>1, <2>2, Zenon DEF Filling
  <2>5. Filling'
    BY <1>2, <2>1, <2>3, <2>4, Zenon DEF Filling
  <2> QED
    BY <1>2, <1>4, <1>6, <2>1, <2>5, Zenon DEF Places, Filling, Taken
<1> QED
  BY <1>5, <1>6

(* A read keeps the order of the entries strict.                           *)
LEMMA ReadRanked ==
  ASSUME NEW s, Table(s), Ranked(s), NEW p \in Workers \X Nat
  PROVE  Ranked(ReadStatus(s, p))
<1>1. ASSUME NEW k \in 0..N, NEW i \in Slots, Writes(s, p, k, i)
      PROVE  Ranked(ReadStatus(s, p))
  <2>1. Prefix(s, k) /\ i <= k + 1 /\ ReadStatus(s, p) = Touched(s, i, p)
    BY <1>1, Zenon DEF Writes
  <2>2. Ranked(Touched(s, i, p))
    BY <2>1, TouchedOrder, Zenon
  <2> QED
    BY <2>1, <2>2, Zenon
<1>2. WritesNone(s, p) => Ranked(ReadStatus(s, p))
  BY Zenon DEF WritesNone
<1> QED
  BY <1>1, <1>2, ReadShape, Zenon

(* And so does a worker that takes over an entry.                          *)
LEMMA WakeRanked ==
  ASSUME NEW s, Table(s), Ranked(s), NEW p \in Workers \X Nat
  PROVE  Ranked(Touched(s, Oldest(s), p))
<1>1. PICK k \in 0..N : Prefix(s, k) /\ Oldest(s) \in Slots /\ Oldest(s) <= k + 1
  BY WakeShape, Zenon
<1> QED
  BY <1>1, TouchedOrder, Zenon

(* The numbers of the messages.                                            *)
Numbered(q, v) == \A m \in q : m.id \in 1..v

(* Reading and purging keep the numbers of the messages.                   *)
LEMMA NumbersKept ==
  ASSUME NEW q \in SUBSET Message, NEW v, Numbered(q, v), NEW p, NEW o, NEW k \in Nat
  PROVE  Numbered(Consumed(q, p, k), v) /\ Numbered(Purge(q, o, p), v)
<1>1. Numbered(Consumed(q, p, k), v)
  <2>1. ASSUME NEW x \in Consumed(q, p, k) PROVE x.id \in 1..v
    <3>1. PICK m \in q : Marked(m, x, p, k)
      BY ConsumedFrom, Zenon
    <3> QED
      BY <3>1, Zenon DEF Numbered, Marked, Same
  <2> QED
    BY <2>1, Zenon DEF Numbered
<1>2. Numbered(Purge(q, o, p), v)
  <2>1. ASSUME NEW x \in Purge(q, o, p) PROVE x.id \in 1..v
    <3>1. PICK m \in q : Purged(m, x, o, p)
      BY PurgeFrom, Zenon
    <3> QED
      BY <3>1, Zenon DEF Numbered, Purged, Same
  <2> QED
    BY <2>1, Zenon DEF Numbered
<1> QED
  BY <1>1, <1>2

(* A message that is sent gets the next number.                            *)
LEMMA SentNumbered ==
  ASSUME NEW q, version \in Nat, Numbered(q, version), NEW w, NEW n, NEW c
  PROVE  Numbered(Sent(q, w, n, c), version + 1)
<1>1. ASSUME NEW m \in Sent(q, w, n, c) PROVE m \in q \/ m.id = version + 1
  BY DEF Sent
<1>2. ASSUME NEW m \in Sent(q, w, n, c) PROVE m.id \in 1..(version + 1)
  BY <1>1, Counting, Zenon DEF Numbered
<1> QED
  BY <1>2, Zenon DEF Numbered

(* The budgets that are counted up are numbers.                            *)
Counts(f) ==
    /\ DOMAIN f = Budgets
    /\ f["early"] \in Nat /\ f["pool"] \in Nat /\ f["stall"] \in Nat

(* A stall or a crash counts one of them up, and they stay numbers.        *)
LEMMA CountsUp ==
  ASSUME NEW f, Counts(f)
  PROVE  /\ Counts([f EXCEPT !["stall"] = @ + 1])
         /\ \A x \in {f["early"], f["early"] + 1} :
               Counts([f EXCEPT !["crash"] = @ + 1, !["early"] = x])
BY DEF Counts, Budgets

(* What the handlers count.                                                *)
LEMMA SpentFact ==
  ASSUME Basic, NEW pool \in BOOLEAN, NEW k, used' = Spent(pool, k)
  PROVE  /\ DOMAIN used' = Budgets
         /\ used'["early"] = used["early"] /\ used'["stall"] = used["stall"]
         /\ pool => used'["pool"] = used["pool"]
         /\ ~pool => used'["pool"] = used["pool"] + 1
<1>1. DOMAIN used = Budgets /\ used["pool"] \in Nat
  BY DEF Basic
<1>2. CASE pool
  <2>1. used' = [used EXCEPT !["pool"] = used["pool"], !["fail"] = used["fail"] + k]
    BY <1>2, <1>1 DEF Spent, Budgets
  <2> QED
    BY <1>1, <1>2, <2>1, Zenon DEF Budgets
<1>3. CASE ~pool
  <2>1. used' = [used EXCEPT !["pool"] = used["pool"] + 1, !["fail"] = used["fail"] + k]
    BY <1>3, <1>1 DEF Spent, Budgets
  <2> QED
    BY <1>1, <1>3, <2>1 DEF Budgets
<1> QED
  BY <1>2, <1>3, ZenonT(30)

(* The handlers of a running worker.                                       *)
LEMMA HandlerBasic ==
  ASSUME Basic, PidsInv', NEW w \in Workers, state[w] = "running",
         UNCHANGED <<state, inc, allocated, restarted>>, ReadTime(w), NEW q,
         q \in {queue, Consumed(queue, Pid(w), version)},
         \/ queue' = q /\ UNCHANGED version
         \/ /\ \E n \in Names, c \in Contents \union {Absent} : queue' = Sent(q, w, n, c)
            /\ version' = version + 1,
         DOMAIN view' = Workers, DOMAIN failed' = Workers, DOMAIN intended' = Names,
         NEW pool \in BOOLEAN, NEW k, used' = Spent(pool, k)
  PROVE  Basic'
<1>1. PidsInv /\ Ranked(status) /\ Table(status) /\ version \in Nat
      /\ late \in [Workers -> SUBSET Workers] /\ Numbered(queue, version)
      /\ queue \in SUBSET Message
  BY Zenon DEF Basic, PidsInv, Numbered, Fits
<1>2. Pid(w) \in Workers \X Nat
  BY <1>1 DEF PidsInv, Pid
<1>3. Ranked(status)'
  <2>1. status' = ReadStatus(status, Pid(w))
    BY Zenon DEF ReadTime
  <2>2. Ranked(status')
    BY <1>1, <1>2, <2>1, ReadRanked, ZenonT(30)
  <2> QED
    BY <2>2, Zenon DEF Ranked
<1>4. late' \in [Workers -> SUBSET Workers]
  BY <1>1, ZenonT(30) DEF ReadTime
<1>5. Numbered(q, version)
  BY <1>1, NumbersKept, Zenon
<1>6. Numbered(queue', version')
  <2>1. CASE queue' = q /\ UNCHANGED version
    BY <1>5, <2>1, ZenonT(30)
  <2>2. ASSUME NEW n, NEW c, queue' = Sent(q, w, n, c), version' = version + 1
        PROVE  Numbered(queue', version')
    BY <1>1, <1>5, <2>2, SentNumbered, Zenon
  <2> QED
    BY <2>1, <2>2, Zenon
<1>7. /\ DOMAIN used' = Budgets
      /\ used'["early"] \in Nat /\ used'["pool"] \in Nat /\ used'["stall"] \in Nat
  <2>1. used["early"] \in Nat /\ used["pool"] \in Nat /\ used["stall"] \in Nat
    BY Zenon DEF Basic
  <2>2. /\ DOMAIN used' = Budgets
        /\ used'["early"] = used["early"] /\ used'["stall"] = used["stall"]
        /\ pool => used'["pool"] = used["pool"]
        /\ ~pool => used'["pool"] = used["pool"] + 1
    BY SpentFact, Zenon
  <2>3. used["pool"] + 1 \in Nat
    BY <2>1, Counting, Zenon
  <2> QED
    BY <2>1, <2>2, <2>3, Zenon
<1>8. /\ restarted' \in SUBSET Workers
      /\ \A v \in Workers : 1 <= inc'[v] /\ (v \notin restarted' => inc'[v] = 1)
  BY Zenon DEF Basic
<1>9. allocated'
  <2>1. ~allocated => state[w] = "forked"
    BY Zenon DEF Basic
  <2> QED
    BY <2>1, Zenon
<1> QED
  BY <1>3, <1>4, <1>6, <1>7, <1>8, <1>9, ZenonT(30) DEF Basic, Numbered

(* The other steps.                                                        *)
LEMMA LifeBasic ==
  ASSUME Basic, PidsInv', NEW w \in Workers,
         (\E k \in 0..version : Crash(w, k)) \/ Respawn(w) \/ InitProcess(w) \/ WakeUp(w)
  PROVE  Basic'
<1>1. PidsInv /\ Ranked(status) /\ Table(status) /\ version \in Nat
      /\ late \in [Workers -> SUBSET Workers] /\ Numbered(queue, version)
      /\ queue \in SUBSET Message /\ inc \in [Workers -> Nat]
  BY Zenon DEF Basic, PidsInv, Numbered, Fits
<1>2. Pid(w) \in Workers \X Nat
  BY <1>1 DEF PidsInv, Pid
<1>3. Ranked(status')
  <2>1. \/ status' = status \/ status' = ReadStatus(status, Pid(w))
        \/ status' = Touched(status, Oldest(status), Pid(w))
    BY ZenonT(30) DEF Crash, Respawn, InitProcess, WakeUp
  <2> QED
    BY <1>1, <1>2, <2>1, ReadRanked, WakeRanked, Zenon
<1>4. late' \in [Workers -> SUBSET Workers]
  BY <1>1 DEF Crash, Respawn, InitProcess, WakeUp
<1>5. Numbered(queue', version') /\ version' = version
  <2>1. /\ version' = version
        /\ \/ queue' = queue \/ \E k \in 0..version : queue' = Consumed(queue, Pid(w), k)
           \/ \E o : queue' = Purge(queue, o, Pid(w))
    BY Zenon DEF Crash, Respawn, InitProcess, WakeUp
  <2>2. \A k \in 0..version : k \in Nat
    BY <1>1, Counting, Zenon
  <2> QED
    BY <1>1, <2>1, <2>2, NumbersKept, Zenon
<1>6. /\ DOMAIN view' = Workers /\ DOMAIN failed' = Workers /\ DOMAIN intended' = Names
  BY DEF Crash, Respawn, InitProcess, WakeUp, Basic
<1>7. /\ DOMAIN used' = Budgets
      /\ used'["early"] \in Nat /\ used'["pool"] \in Nat /\ used'["stall"] \in Nat
  <2>1. Counts(used)
    BY Zenon DEF Basic, Counts
  <2>2. CASE UNCHANGED used
    BY <2>1, <2>2, Zenon DEF Counts
  <2>3. CASE used' = [used EXCEPT !["stall"] = @ + 1]
    <3>1. Counts(used')
      BY <2>1, <2>3, CountsUp, Zenon
    <3> QED
      BY <3>1, Zenon DEF Counts
  <2>4. ASSUME NEW x \in {used["early"], used["early"] + 1},
               used' = [used EXCEPT !["crash"] = @ + 1, !["early"] = x]
        PROVE  Counts(used')
    BY <2>1, <2>4, CountsUp, Zenon
  <2>5. \/ UNCHANGED used \/ used' = [used EXCEPT !["stall"] = @ + 1]
        \/ \E x \in {used["early"], used["early"] + 1} :
              used' = [used EXCEPT !["crash"] = @ + 1, !["early"] = x]
    BY <2>1 DEF Crash, Respawn, InitProcess, WakeUp, Budgets, Counts
  <2> QED
    BY <2>2, <2>3, <2>4, <2>5, Zenon DEF Counts
<1>8. /\ restarted' \in SUBSET Workers
      /\ \A v \in Workers : 1 <= inc'[v] /\ (v \notin restarted' => inc'[v] = 1)
  <2>1. CASE UNCHANGED <<inc, restarted>>
    BY <2>1, ZenonT(30) DEF Basic
  <2>2. CASE Respawn(w)
    <3>1. /\ \A v \in Workers : v # w => inc'[v] = inc[v]
          /\ inc'[w] = inc[w] + 1 /\ restarted' = restarted \union {w}
      BY <1>1, <2>2 DEF Respawn
    <3>2. /\ restarted \in SUBSET Workers
          /\ \A v \in Workers : 1 <= inc[v] /\ (v \notin restarted => inc[v] = 1)
      BY Zenon DEF Basic
    <3>3. inc[w] \in Nat
      BY <1>1
    <3>4. restarted' \in SUBSET Workers
      <4>1. restarted' = restarted \union {w} /\ restarted \in SUBSET Workers
        BY <3>1, <3>2, Zenon
      <4> QED
        BY <4>1, Zenon
    <3>5. 1 <= inc[w] + 1
      BY <3>3, Counting, Zenon
    <3>6. ASSUME NEW v \in Workers
          PROVE  1 <= inc'[v] /\ (v \notin restarted' => inc'[v] = 1)
      <4>1. CASE v = w
        BY <3>1, <3>5, <4>1, Zenon
      <4>2. CASE v # w
        <5>1. v \notin restarted' => v \notin restarted
          BY <3>1, Zenon
        <5> QED
          BY <3>1, <3>2, <4>2, <5>1, Zenon
      <4> QED
        BY <4>1, <4>2
    <3> QED
      BY <3>4, <3>6, Zenon
  <2> QED
    BY <2>1, <2>2, Zenon DEF Crash, InitProcess, WakeUp
<1>9. allocated'
  <2>1. ~allocated => state[w] = "forked"
    BY Zenon DEF Basic
  <2>2. CASE InitProcess(w)
    BY <2>2, Zenon DEF InitProcess
  <2>3. CASE ~InitProcess(w)
    <3>1. state[w] \in {"asleep", "running", "dead"} /\ allocated' = allocated
      BY <2>3, Zenon DEF Crash, Respawn, WakeUp
    <3> QED
      BY <2>1, <3>1, Zenon
  <2> QED
    BY <2>2, <2>3
<1>10. Ranked(status)' /\ \A m \in queue' : m.id \in 1..version'
  BY <1>3, <1>5, Zenon DEF Ranked, Numbered
<1> QED
  BY <1>4, <1>6, <1>7, <1>8, <1>9, <1>10, Zenon DEF Basic

(* A message is not destroyed before the survivors have applied it.        *)
LEMMA SurvivorsWaited ==
  ASSUME Basic, Sound, NEW w \in Survivors
  PROVE  /\ \A m \in queue : Pid(w) \notin m.acks => ~Full(m)
         /\ w \in Workers /\ Pid(w) = <<w, inc[w]>>
<1>1. w \in Workers /\ w \notin restarted /\ Survivors \in SUBSET Workers
  BY DEF Survivors
<1>2. inc[w] = 1 /\ Fits(queue) /\ Pid(w) = <<w, inc[w]>>
  BY <1>1, Zenon DEF Basic, PidsInv, Pid
<1>3. Acked(queue, inc, state) /\ Owed(queue, inc, state, late, Survivors)
  BY Zenon DEF Sound
<1> QED
  BY <1>1, <1>2, <1>3, OwedNotFull, ZenonT(30)

(* What a survivor has once it has read the queue.                         *)
LEMMA OwnRead ==
  ASSUME Basic, Sound, NEW w \in Survivors, NEW left, NEW n \in Names
  PROVE  n \in FailedRead(w, TRUE, left) \/ ViewRead(w, TRUE, left)[n] = intended[n]
<1> DEFINE S == Unread(queue, Pid(w))
           T == Todo(queue, Pid(w), n)
<1>1. Seen(w, TRUE) = S
  BY Zenon DEF Seen
<1>2. About(S, n) = T
  <2>1. \A m \in queue : Pid(w) \notin m.acks => ~Full(m)
    BY SurvivorsWaited, Zenon
  <2> QED
    BY <2>1, Zenon DEF About, Unread, Todo
<1>3. Ends(T, intended[n]) /\ (T = {} => n \in failed[w] \/ view[w][n] = intended[n])
  BY Zenon DEF Sound, Streamed
<1>4. /\ ViewRead(w, TRUE, left)[n] = Applied(S, left, n, view[w][n])
      /\ n \in FailedRead(w, TRUE, left) <=>
            IF T = {} THEN n \in failed[w] ELSE Newest(T) \in DOMAIN left
  BY <1>1, <1>2, Zenon DEF ViewRead, FailedRead
<1>5. \A m \in T : m.id \in 1..version
  BY Zenon DEF Todo, Basic
<1>6. version \in Nat
  BY Zenon DEF Basic, PidsInv
<1> HIDE DEF S, T
<1>7. CASE T = {}
  BY <1>2, <1>3, <1>4, <1>7, Zenon DEF Applied
<1>8. CASE T # {}
  <2>1. Newest(T) \in T /\ \A x \in T : x.id <= Newest(T).id
    BY <1>5, <1>6, <1>8, NewestFound, Zenon
  <2>2. Newest(T).content = intended[n]
    BY <1>3, <2>1, Zenon DEF Ends
  <2>3. Newest(T) \notin DOMAIN left => Applied(S, left, n, view[w][n]) = Newest(T).content
    BY <1>2, <1>8, Zenon DEF Applied
  <2> QED
    BY <1>4, <1>8, <2>2, <2>3, Zenon
<1> QED
  BY <1>7, <1>8, Zenon

(* What the others have to do.                                             *)
LEMMA OtherStreamed ==
  ASSUME NEW w, NEW n, Streamed(w, n), Pid(w)' = Pid(w), NEW q,
         Alike(Todo(queue, Pid(w), n), Todo(q, Pid(w), n)), queue' = q,
         intended'[n] = intended[n], failed'[w] = failed[w], view'[w] = view[w]
  PROVE  Streamed(w, n)'
<1> DEFINE T == Todo(queue, Pid(w), n)
           U == Todo(q, Pid(w), n)
<1>1. Ends(T, intended[n]) /\ (T = {} => n \in failed[w] \/ view[w][n] = intended[n])
  BY Zenon DEF Streamed
<1>2. U = Todo(queue', Pid(w)', n)
  BY Zenon
<1>3. Alike(T, U)
  BY Zenon
<1> HIDE DEF T, U
<1>4. Ends(U, intended[n]) /\ (U = {} => T = {})
  BY <1>1, <1>3, AlikeEnds, Zenon
<1>5. Ends(U, intended'[n]) /\ (U = {} => n \in failed'[w] \/ view'[w][n] = intended'[n])
  BY <1>1, <1>4, Zenon
<1> QED
  BY <1>2, <1>5, Zenon DEF Streamed, Ends, Todo

(* The queue of a handler of w: q, or q and a message.                     *)
MaySend(q, w) ==
    \/ queue' = q /\ UNCHANGED intended
    \/ \E n \in Names : \E c :
          queue' = Sent(q, w, n, c) /\ intended' = [intended EXCEPT ![n] = c]

(* Its own copies, f, are good, but for those that failed, F.              *)
CopiesGood(w, f, F) ==
    w \in Survivors => \A n \in Names : n \in F \/ f[n] = intended'[n]

(* The queue after a handler of w, with a message about n0 or without.     *)
LEMMA HandlerStreams ==
  ASSUME Basic, Sound, NEW w \in Workers, UNCHANGED <<state, inc, restarted>>,
         NEW q, q = Consumed(queue, Pid(w), version),
         MaySend(q, w),
         NEW f, view' = [view EXCEPT ![w] = f],
         NEW F, failed' = [failed EXCEPT ![w] = F],
         CopiesGood(w, f, F),
         NEW v \in Survivors, NEW n \in Names
  PROVE  Streamed(v, n)'
<1> USE DEF MaySend, CopiesGood
<1>1. /\ v \in Workers /\ version \in Nat /\ queue \in SUBSET Message
      /\ DOMAIN view = Workers /\ DOMAIN failed = Workers /\ DOMAIN intended = Names
      /\ \A m \in queue : m.id \in 1..version
  BY BasicTypes, Zenon DEF Survivors
<1>2. Pid(v)' = Pid(v) /\ (v # w => Pid(w) # Pid(v))
  BY DEF Pid
<1>3. CASE v = w
  <2>1. \A m \in q : Pid(w) \in m.acks
    <3>1. ASSUME NEW x \in q PROVE Pid(w) \in x.acks
      <4>1. PICK m \in queue : Marked(m, x, Pid(w), version)
        BY <1>1, ConsumedFrom, Zenon
      <4>2. m.id \in 1..version
        BY <1>1, Zenon
      <4> QED
        BY <1>1, <4>1, <4>2, Counting, Zenon DEF Marked
    <3> QED
      BY <3>1, ZenonT(30)
  <2>2. \A m \in queue' : Pid(w) \in m.acks
    <3>1. ASSUME NEW n1, NEW c, queue' = Sent(q, w, n1, c), NEW m \in queue'
          PROVE  Pid(w) \in m.acks
      BY <2>1, <3>1 DEF Sent
    <3> QED
      BY <2>1, <3>1, ZenonT(30)
  <2>3. Todo(queue', Pid(v)', n) = {}
    BY <1>2, <1>3, <2>2, Zenon DEF Todo
  <2>4. view'[v] = f /\ failed'[v] = F
    BY <1>1, <1>3, Zenon
  <2>5. n \in failed'[v] \/ view'[v][n] = intended'[n]
    BY <1>3, <2>4, Zenon
  <2>6. Ends({}, intended'[n])
    BY Zenon DEF Ends
  <2> QED
    BY <2>3, <2>5, <2>6, ZenonT(30) DEF Streamed, Ends, Todo
<1>4. CASE v # w
  <2>1. view'[v] = view[v] /\ failed'[v] = failed[v] /\ Streamed(v, n)
    BY <1>1, <1>4, Zenon DEF Sound
  <2>2. \A m \in queue : Pid(v) \notin m.acks => ~Full(m)
    BY SurvivorsWaited, Zenon
  <2>3. Alike(Todo(queue, Pid(v), n), Todo(q, Pid(v), n))
    BY <1>1, <1>2, <1>4, <2>2, ConsumedAlike, Zenon
  <2>4. CASE queue' = q /\ UNCHANGED intended
    BY <1>2, <2>1, <2>3, <2>4, OtherStreamed, ZenonT(30)
  <2>5. ASSUME NEW n1 \in Names, NEW c, queue' = Sent(q, w, n1, c),
               intended' = [intended EXCEPT ![n1] = c]
        PROVE  Streamed(v, n)'
    <3> DEFINE y == [id |-> version + 1, name |-> n1, content |-> c, acks |-> {Pid(w)}]
    <3>1. queue' = q \union {y}
      BY <2>5, Zenon DEF Sent
    <3>2. y.id = version + 1 /\ y.name = n1 /\ y.content = c /\ Pid(v) \notin y.acks
      BY <1>2, <1>4
    <3> HIDE DEF y
    <3>3. CASE n # n1
      <4>1. Todo(queue', Pid(v), n) = Todo(q, Pid(v), n)
        BY <3>1, <3>2, <3>3, Zenon DEF Todo
      <4>2. intended'[n] = intended[n]
        BY <1>1, <2>5, <3>3, Zenon
      <4>3. Alike(Todo(queue, Pid(v), n), Todo(queue', Pid(v), n))
        BY <2>3, <4>1, Zenon
      <4> QED
        BY <1>2, <2>1, <4>2, <4>3, OtherStreamed, Zenon
    <3>4. CASE n = n1
      <4> DEFINE U == Todo(q, Pid(v), n)
      <4>1. Todo(queue', Pid(v), n) = U \union {y}
        BY <3>1, <3>2, <3>4, Zenon DEF Todo
      <4>2. \A m \in U : m.id \in 1..version
        <5>1. Numbered(q, version)
          BY <1>1, NumbersKept, Zenon DEF Numbered
        <5> QED
          BY <5>1, Zenon DEF Numbered, Todo
      <4> HIDE DEF U
      <4>3. Ends(U \union {y}, c)
        BY <1>1, <3>2, <4>2, SentEnds, Zenon
      <4>4. intended'[n] = c
        BY <1>1, <2>5, <3>4, Zenon
      <4>5. Ends(Todo(queue', Pid(v)', n), intended'[n]) /\ Todo(queue', Pid(v)', n) # {}
        BY <1>2, <4>1, <4>3, <4>4, Zenon
      <4> QED
        BY <4>5, Zenon DEF Streamed, Ends, Todo
    <3> QED
      BY <3>3, <3>4
  <2> QED
    BY <2>4, <2>5, Zenon
<1> QED
  BY <1>3, <1>4, ZenonT(30)

(* The handlers of a running worker, when memory is not short.             *)
LEMMA HandlerSound ==
  ASSUME Basic, Basic', Sound, NEW w \in Workers, state[w] = "running",
         UNCHANGED <<state, inc, restarted>>, ReadTime(w),
         NEW q, q = Consumed(queue, Pid(w), version),
         MaySend(q, w),
         NEW f, view' = [view EXCEPT ![w] = f],
         NEW F, failed' = [failed EXCEPT ![w] = F],
         CopiesGood(w, f, F)
  PROVE  Sound'
<1>1. Places'
  BY PlacesRead, Zenon DEF Sound, ReadTime
<1>2. Survivors' = Survivors
  BY Zenon DEF Survivors
<1>3. /\ queue \in SUBSET Message /\ inc \in [Workers -> Nat] /\ version \in Nat
      /\ late \in [Workers -> SUBSET Workers] /\ 1 <= inc[w]
      /\ \A m \in queue : m.id <= version
  BY BasicTypes, Zenon
<1>4. Acked(queue, inc, state) /\ Owed(queue, inc, state, late, Survivors)
  BY Zenon DEF Sound
<1>5. Acked(q, inc, state) /\ Owed(q, inc, state, late', Survivors)
  <2>1. HeardOf(late', late, w) /\ OnlyOf(state, state, w)
    BY <1>3 DEF ReadTime, HeardOf, OnlyOf
  <2>2. state[w] \in {"running", "dead"} /\ Survivors \in SUBSET Survivors
    BY Zenon
  <2> QED
    BY <1>3, <1>4, <2>1, <2>2, OwedRead, Zenon DEF Pid
<1>6. Acked(queue', inc, state) /\ Owed(queue', inc, state, late', Survivors)
  <2>1. ASSUME NEW n, NEW c, queue' = Sent(q, w, n, c)
        PROVE  Acked(queue', inc, state) /\ Owed(queue', inc, state, late', Survivors)
    <3> DEFINE y == [id |-> version + 1, name |-> n, content |-> c, acks |-> {Pid(w)}]
    <3>1. y.acks = {<<w, inc[w]>>} /\ queue' = q \union {y}
      BY <2>1 DEF Sent, Pid
    <3> HIDE DEF y
    <3> QED
      BY <1>3, <1>5, <3>1, OwedSent, ZenonT(30)
  <2> QED
    BY <1>5, <2>1, Zenon DEF MaySend
<1>7. \A v \in Survivors, n \in Names : Streamed(v, n)'
  BY HandlerStreams, Zenon
<1>8. Acked(queue', inc', state') /\ Owed(queue', inc', state', late', Survivors')
  BY <1>2, <1>6, Zenon
<1> QED
  BY <1>1, <1>2, <1>7, <1>8, Zenon DEF Sound, Acked, Owed, Owes

(* Nothing was counted that is excluded, so nothing was before.            *)
LEMMA HandlerFine ==
  ASSUME Basic, NEW pool \in BOOLEAN, NEW k, used' = Spent(pool, k), Fine'
  PROVE  Fine /\ pool
<1>1. /\ used'["early"] = used["early"] /\ used'["stall"] = used["stall"]
      /\ pool => used'["pool"] = used["pool"]
      /\ ~pool => used'["pool"] = used["pool"] + 1
  BY SpentFact, Zenon
<1>2. used["pool"] \in Nat
  BY Zenon DEF Basic
<1>3. used["pool"] + 1 # 0
  BY <1>2
<1> QED
  BY <1>1, <1>3, Zenon DEF Fine

(* read_msg: a survivor has all that was sent, or it failed here.          *)
LEMMA ReadMsgSound ==
  ASSUME Basic, Basic', Fine => Sound, NEW w \in Workers, ReadMsg(w), Fine'
  PROVE  Sound'
<1>0. PICK pool \in BOOLEAN :
         /\ MayRead(w, pool) /\ UNCHANGED <<state, inc, intended, restarted>> /\ ReadTime(w)
         /\ queue' = QueueRead(w, pool)
         /\ \E left :
            /\ view' = [view EXCEPT ![w] = ViewRead(w, pool, left)]
            /\ failed' = [failed EXCEPT ![w] = FailedRead(w, pool, left)]
            /\ used' = Spent(pool, Cardinality(DOMAIN left))
  BY Zenon DEF ReadMsg
<1>1. PICK left :
         /\ view' = [view EXCEPT ![w] = ViewRead(w, pool, left)]
         /\ failed' = [failed EXCEPT ![w] = FailedRead(w, pool, left)]
         /\ used' = Spent(pool, Cardinality(DOMAIN left))
  BY <1>0, Zenon
<1>2. Fine /\ pool = TRUE
  BY <1>0, <1>1, HandlerFine, Zenon
<1>3. Sound /\ state[w] = "running" /\ queue' = Consumed(queue, Pid(w), version)
  BY <1>0, <1>1, <1>2, Zenon DEF MayRead, QueueRead
<1>4. w \in Survivors => \A n \in Names : n \in FailedRead(w, TRUE, left)
                                          \/ ViewRead(w, TRUE, left)[n] = intended'[n]
  <2>1. UNCHANGED intended
    BY <1>0, Zenon
  <2> QED
    BY <1>3, <2>1, OwnRead, ZenonT(30)
<1> DEFINE f == ViewRead(w, TRUE, left)
           F == FailedRead(w, TRUE, left)
<1>5. view' = [view EXCEPT ![w] = f] /\ failed' = [failed EXCEPT ![w] = F]
  BY <1>0, <1>1, <1>2, Zenon
<1> HIDE DEF f, F
<1>6. CopiesGood(w, f, F) /\ MaySend(queue', w)
  BY <1>0, <1>1, <1>4, Zenon DEF f, F, CopiesGood, MaySend
<1> QED
  BY <1>0, <1>1, <1>3, <1>5, <1>6, HandlerSound, Zenon

(* A command that succeeds is the last message for all the others.         *)
LEMMA CommandSound ==
  ASSUME Basic, Basic', Fine => Sound, NEW w \in Workers, NEW n0 \in Names, NEW c,
         Command(w, n0, c), Fine'
  PROVE  Sound'
<1>0. PICK pool \in BOOLEAN :
         /\ MayRead(w, pool) /\ UNCHANGED <<state, inc, restarted>> /\ ReadTime(w)
         /\ queue' = Sent(QueueRead(w, pool), w, n0, c)
         /\ intended' = [intended EXCEPT ![n0] = c]
         /\ \E left :
            /\ view' = [view EXCEPT ![w] = [ViewRead(w, pool, left) EXCEPT ![n0] = c]]
            /\ failed' = [failed EXCEPT ![w] = FailedRead(w, pool, left) \ {n0}]
            /\ used' = Spent(pool, Cardinality(DOMAIN left))
  BY Zenon DEF Command
<1>1. PICK left :
         /\ view' = [view EXCEPT ![w] = [ViewRead(w, pool, left) EXCEPT ![n0] = c]]
         /\ failed' = [failed EXCEPT ![w] = FailedRead(w, pool, left) \ {n0}]
         /\ used' = Spent(pool, Cardinality(DOMAIN left))
  BY <1>0, Zenon
<1>2. Fine /\ pool = TRUE
  BY <1>0, <1>1, HandlerFine, Zenon
<1> DEFINE q == Consumed(queue, Pid(w), version)
           f == [ViewRead(w, TRUE, left) EXCEPT ![n0] = c]
           F == FailedRead(w, TRUE, left) \ {n0}
<1>3. Sound /\ state[w] = "running" /\ queue' = Sent(q, w, n0, c)
  BY <1>0, <1>1, <1>2, Zenon DEF MayRead, QueueRead
<1>4. view' = [view EXCEPT ![w] = f] /\ failed' = [failed EXCEPT ![w] = F]
  BY <1>0, <1>1, <1>2, Zenon
<1>5. ASSUME w \in Survivors, NEW n \in Names PROVE n \in F \/ f[n] = intended'[n]
  <2>1. n \in FailedRead(w, TRUE, left) \/ ViewRead(w, TRUE, left)[n] = intended[n]
    BY <1>3, <1>5, OwnRead, Zenon
  <2>2. DOMAIN intended = Names /\ DOMAIN ViewRead(w, TRUE, left) = Names
    BY Zenon DEF Basic, ViewRead
  <2>3. /\ intended'[n] = IF n = n0 THEN c ELSE intended[n]
        /\ f[n] = IF n = n0 THEN c ELSE ViewRead(w, TRUE, left)[n]
    BY <1>0, <1>1, <2>2, Zenon
  <2> QED
    BY <2>1, <2>3, Zenon
<1> HIDE DEF f, F, q
<1>6. q = Consumed(queue, Pid(w), version)
  BY DEF q
<1>7. CopiesGood(w, f, F) /\ MaySend(q, w)
  BY <1>0, <1>1, <1>3, <1>5, Zenon DEF CopiesGood, MaySend
<1> QED
  BY <1>0, <1>1, <1>3, <1>4, <1>6, <1>7, HandlerSound, ZenonT(30)

(* A command that fails is counted as failed.                              *)
LEMMA CommandFailsSound ==
  ASSUME Basic, Basic', Fine => Sound, NEW w \in Workers, NEW n0 \in Names, NEW c, NEW v,
         CommandFails(w, n0, c, v), Fine'
  PROVE  Sound'
<1>0. PICK pool \in BOOLEAN :
         /\ MayRead(w, pool) /\ UNCHANGED <<state, inc, intended, restarted>> /\ ReadTime(w)
         /\ queue' = QueueRead(w, pool)
         /\ \E left :
            /\ view' = [view EXCEPT ![w] = [ViewRead(w, pool, left) EXCEPT ![n0] = v]]
            /\ failed' = [failed EXCEPT ![w] = FailedRead(w, pool, left) \union {n0}]
            /\ used' = Spent(pool, Cardinality(DOMAIN left) + 1)
  BY Zenon DEF CommandFails
<1>1. PICK left :
         /\ view' = [view EXCEPT ![w] = [ViewRead(w, pool, left) EXCEPT ![n0] = v]]
         /\ failed' = [failed EXCEPT ![w] = FailedRead(w, pool, left) \union {n0}]
         /\ used' = Spent(pool, Cardinality(DOMAIN left) + 1)
  BY <1>0, Zenon
<1>2. Fine /\ pool = TRUE
  BY <1>0, <1>1, HandlerFine, Zenon
<1> DEFINE f == [ViewRead(w, TRUE, left) EXCEPT ![n0] = v]
           F == FailedRead(w, TRUE, left) \union {n0}
<1>3. Sound /\ state[w] = "running" /\ queue' = Consumed(queue, Pid(w), version)
  BY <1>0, <1>1, <1>2, Zenon DEF MayRead, QueueRead
<1>4. view' = [view EXCEPT ![w] = f] /\ failed' = [failed EXCEPT ![w] = F]
  BY <1>0, <1>1, <1>2, Zenon
<1>5. ASSUME w \in Survivors, NEW n \in Names PROVE n \in F \/ f[n] = intended'[n]
  <2>1. n \in FailedRead(w, TRUE, left) \/ ViewRead(w, TRUE, left)[n] = intended[n]
    BY <1>3, <1>5, OwnRead, Zenon
  <2>2. DOMAIN ViewRead(w, TRUE, left) = Names
    BY Zenon DEF ViewRead
  <2>3. n # n0 => f[n] = ViewRead(w, TRUE, left)[n]
    BY <2>2, Zenon
  <2> QED
    BY <1>0, <1>1, <2>1, <2>3, Zenon
<1> HIDE DEF f, F
<1>6. CopiesGood(w, f, F) /\ MaySend(queue', w)
  BY <1>0, <1>1, <1>5, Zenon DEF CopiesGood, MaySend
<1> QED
  BY <1>0, <1>1, <1>3, <1>4, <1>6, HandlerSound, Zenon

(* A queue left alone.                                                     *)
LEMMA AlikeItself ==
  ASSUME NEW T
  PROVE  Alike(T, T)
BY Zenon DEF Alike, Same

(* Replacing the pid of an entry nobody has taken changes nothing.         *)
LEMMA PurgeNothing ==
  ASSUME NEW q \in SUBSET Message, NEW p, NEW v, NEW n
  PROVE  Alike(Todo(q, p, n), Todo(Purge(q, NoPid, v), p, n))
<1>0. ASSUME NEW m \in q, NEW x, Purged(m, x, NoPid, v)
      PROVE  Same(m, x) /\ m.name = x.name /\ (p \in m.acks <=> p \in x.acks)
  <2>1. m.acks \in SUBSET (Workers \X Nat)
    BY DEF Message
  <2>2. NoPid \notin m.acks
    BY <2>1, RealPid, Zenon
  <2> QED
    BY <1>0, <2>2, ZenonT(30) DEF Purged, Same
<1>1. ASSUME NEW m \in Todo(q, p, n)
      PROVE  \E x \in Todo(Purge(q, NoPid, v), p, n) : Same(m, x)
  <2>1. PICK x \in Purge(q, NoPid, v) : Purged(m, x, NoPid, v)
    BY PurgeFrom, Zenon DEF Todo
  <2> QED
    BY <1>0, <2>1, Zenon DEF Todo
<1>2. ASSUME NEW x \in Todo(Purge(q, NoPid, v), p, n)
      PROVE  \E m \in Todo(q, p, n) : Same(m, x)
  <2>1. PICK m \in q : Purged(m, x, NoPid, v)
    BY PurgeFrom, Zenon DEF Todo
  <2> QED
    BY <1>0, <2>1, Zenon DEF Todo
<1> QED
  BY <1>1, <1>2, Zenon DEF Alike

(* A crash after all entries were taken.                                   *)
LEMMA CrashSound ==
  ASSUME Basic, Basic', Fine => Sound, NEW w \in Workers, NEW k \in 0..version,
         Crash(w, k), Fine'
  PROVE  Sound'
<1>1. Fine /\ Taken(status)
  <2>1. used["early"] \in Nat /\ DOMAIN used = Budgets
    BY Zenon DEF Basic
  <2>2. CASE Taken(status)
    <3>1. used' = [used EXCEPT !["crash"] = used["crash"] + 1, !["early"] = used["early"]]
      BY <2>1, <2>2, Zenon DEF Crash, Taken, Budgets
    <3> QED
      BY <2>1, <2>2, <3>1, ZenonT(30) DEF Fine, Budgets
  <2>3. CASE ~Taken(status)
    <3>1. used' = [used EXCEPT !["crash"] = used["crash"] + 1, !["early"] = used["early"] + 1]
      BY <2>1, <2>3, Zenon DEF Crash, Taken, Budgets
    <3> QED
      BY <2>1, <3>1 DEF Fine, Budgets
  <2> QED
    BY <2>2, <2>3
<1>2. Sound /\ Places'
  BY <1>1, PlacesCrash, Zenon DEF Sound
<1>3. /\ queue \in SUBSET Message /\ inc \in [Workers -> Nat] /\ version \in Nat
      /\ late \in [Workers -> SUBSET Workers] /\ 1 <= inc[w] /\ k \in Nat
      /\ state \in [Workers -> {"dead", "forked", "asleep", "running"}]
  <2>1. version \in Nat => k \in Nat
    OBVIOUS
  <2> QED
    BY <2>1, BasicTypes, Zenon
<1>4. /\ state' = [state EXCEPT ![w] = "dead"] /\ UNCHANGED <<inc, restarted>>
      /\ UNCHANGED <<view, failed, intended>>
      /\ \/ queue' = queue
         \/ state[w] = "running" /\ queue' = Consumed(queue, Pid(w), k)
      /\ late' = [s \in Workers |-> IF s = w THEN {} ELSE late[s] \ {w}]
  BY Zenon DEF Crash
<1>5. \A v \in Workers : state'[v] = IF v = w THEN "dead" ELSE state[v]
  BY <1>3, <1>4, ZenonT(30)
<1>6. Survivors' = Survivors \ {w} /\ Survivors \in SUBSET Workers
  BY <1>4, <1>5 DEF Survivors
<1>7. Acked(queue, inc, state) /\ Owed(queue, inc, state, late, Survivors)
  BY <1>2, ZenonT(30) DEF Sound
<1>8. Acked(queue', inc, state') /\ Owed(queue', inc, state', late', Survivors \ {w})
  <2>1. CASE queue' = queue
    <3>1. NoneRuns(state', state, inc, inc, Survivors \ {w})
      BY <1>5, ZenonT(30) DEF NoneRuns
    <3>2. StillWait(queue, state', state, late', late, Survivors \ {w})
      BY <1>4, <1>5 DEF StillWait
    <3>3. Acked(queue, inc, state') /\ Owed(queue, inc, state', late', Survivors \ {w})
      BY <1>3, <1>6, <1>7, <3>1, <3>2, OwedLess, Zenon
    <3> QED
      BY <2>1, <3>3, Zenon
  <2>2. CASE state[w] = "running" /\ queue' = Consumed(queue, Pid(w), k)
    <3>1. /\ OnlyOf(state', state, w) /\ state'[w] \in {"running", "dead"}
          /\ HeardOf(late', late, w)
          /\ Survivors \ {w} \in SUBSET Survivors /\ w \notin Survivors \ {w}
      BY <1>4, <1>5 DEF OnlyOf, HeardOf
    <3>2. Pid(w) = <<w, inc[w]>>
      BY DEF Pid
    <3>3. PICK z : z = Survivors \ {w}
      BY Zenon
    <3>4. z \in SUBSET Survivors /\ (w \in z => \A m \in queue : m.id <= k)
      BY <3>3, Zenon
    <3>5. /\ Acked(Consumed(queue, <<w, inc[w]>>, k), inc, state')
          /\ Owed(Consumed(queue, <<w, inc[w]>>, k), inc, state', late', z)
      BY <1>3, <1>7, <2>2, <3>1, <3>4, OwedRead, ZenonT(30)
    <3> QED
      BY <2>2, <3>2, <3>3, <3>5, ZenonT(30)
  <2> QED
    BY <1>4, <2>1, <2>2, ZenonT(30)
<1>9. ASSUME NEW v \in Survivors', NEW n \in Names PROVE Streamed(v, n)'
  <2>1. v \in Survivors /\ v # w
    BY <1>6, ZenonT(30)
  <2>2. Pid(v)' = Pid(v) /\ Pid(w) # Pid(v)
    BY <1>4, <2>1 DEF Pid
  <2>3. Alike(Todo(queue, Pid(v), n), Todo(queue', Pid(v), n))
    <3>1. CASE queue' = queue
      BY <3>1, AlikeItself, Zenon
    <3>2. \A m \in queue : Pid(v) \notin m.acks => ~Full(m)
      BY <1>2, <2>1, SurvivorsWaited, Zenon
    <3>3. CASE queue' = Consumed(queue, Pid(w), k)
      BY <1>3, <2>2, <3>2, <3>3, ConsumedAlike, ZenonT(30)
    <3> QED
      BY <1>4, <3>1, <3>3, Zenon
  <2>4. Streamed(v, n)
    BY <1>2, <2>1, Zenon DEF Sound
  <2> QED
    BY <1>4, <2>2, <2>3, <2>4, OtherStreamed, ZenonT(30)
<1>10. Acked(queue', inc', state') /\ Owed(queue', inc', state', late', Survivors')
  BY <1>4, <1>6, <1>8, Zenon
<1> QED
  BY <1>2, <1>9, <1>10, Zenon DEF Sound, Acked, Owed, Owes

(* Steps that leave the queue and the copies of the survivors.             *)
LEMMA StreamsKept ==
  ASSUME Sound, UNCHANGED <<queue, intended>>, Survivors' \in SUBSET Survivors,
         \A v \in Survivors' : /\ Pid(v)' = Pid(v) /\ failed'[v] = failed[v]
                               /\ view'[v] = view[v]
  PROVE  \A v \in Survivors', n \in Names : Streamed(v, n)'
<1> SUFFICES ASSUME NEW v \in Survivors', NEW n \in Names PROVE Streamed(v, n)'
  OBVIOUS
<1>1. Streamed(v, n) /\ Pid(v)' = Pid(v) /\ failed'[v] = failed[v] /\ view'[v] = view[v]
  BY Zenon DEF Sound
<1>2. Alike(Todo(queue, Pid(v), n), Todo(queue, Pid(v), n))
  BY AlikeItself, Zenon
<1> QED
  BY <1>1, <1>2, OtherStreamed, ZenonT(30)

(* The master starts a new process: it is no survivor.                     *)
LEMMA RespawnSound ==
  ASSUME Basic, Basic', Sound, NEW w \in Workers, Respawn(w)
  PROVE  Sound'
<1>1. Places' /\ Survivors' \in SUBSET Survivors /\ w \notin Survivors'
  BY PlacesRespawn, Zenon DEF Sound
<1>2. /\ inc \in [Workers -> Nat] /\ DOMAIN view = Workers /\ DOMAIN failed = Workers
      /\ state \in [Workers -> {"dead", "forked", "asleep", "running"}]
      /\ inc' \in [Workers -> Nat] /\ Survivors \in SUBSET Workers
  BY BasicTypes, Zenon DEF Basic, PidsInv
<1>3. /\ state[w] = "dead" /\ state' = [state EXCEPT ![w] = "forked"]
      /\ inc' = [inc EXCEPT ![w] = @ + 1] /\ UNCHANGED <<queue, intended, late>>
      /\ view' = [view EXCEPT ![w] = Static] /\ failed' = [failed EXCEPT ![w] = {}]
  BY Zenon DEF Respawn
<1>4. \A v \in Survivors' : /\ Pid(v)' = Pid(v) /\ failed'[v] = failed[v]
                            /\ view'[v] = view[v]
  <2> SUFFICES ASSUME NEW v \in Survivors' PROVE inc'[v] = inc[v] /\ failed'[v] = failed[v]
                            /\ view'[v] = view[v]
    BY Zenon DEF Pid
  <2>1. v \in Workers /\ v # w
    BY <1>1, <1>2, Zenon
  <2> QED
    BY <1>2, <1>3, <2>1, SMTT(30)
<1>5. Acked(queue, inc, state) /\ Owed(queue, inc, state, late, Survivors)
  BY Zenon DEF Sound
<1>6. NoneRuns(state', state, inc', inc, Survivors')
  BY <1>1, <1>2, <1>3, ZenonT(30) DEF NoneRuns
<1>7. StillWait(queue, state', state, late, late, Survivors')
  BY <1>2, <1>3 DEF StillWait
<1>8. Acked(queue, inc', state') /\ Owed(queue, inc', state', late, Survivors')
  BY <1>1, <1>2, <1>5, <1>6, <1>7, OwedLess, ZenonT(30)
<1>9. Acked(queue', inc', state') /\ Owed(queue', inc', state', late', Survivors')
  BY <1>3, <1>8, ZenonT(30)
<1>10. \A v \in Survivors', n \in Names : Streamed(v, n)'
  BY <1>1, <1>3, <1>4, StreamsKept, ZenonT(30)
<1> QED
  BY <1>1, <1>9, <1>10, Zenon DEF Sound, Acked, Owed, Owes

(* A process that sleeps waits for all the survivors.                      *)
LEMMA InitProcessSound ==
  ASSUME Basic, Basic', Sound, NEW w \in Workers, InitProcess(w)
  PROVE  Sound'
<1>1. /\ Places' /\ Survivors' = Survivors
      /\ \A v \in Survivors : v \in Runs \/ inc[w] = 1
  BY PlacesInit, Zenon DEF Sound
<1>2. /\ inc \in [Workers -> Nat] /\ version \in Nat
      /\ state \in [Workers -> {"dead", "forked", "asleep", "running"}]
      /\ late \in [Workers -> SUBSET Workers] /\ Survivors \in SUBSET Workers
  BY BasicTypes, Zenon
<1>3. /\ state[w] = "forked" /\ UNCHANGED <<queue, intended, view, failed, inc>>
      /\ \/ /\ state' = [state EXCEPT ![w] = "asleep"]
            /\ late' = [late EXCEPT ![w] = Runs]
         \/ /\ state' = [state EXCEPT ![w] = "running"] /\ late' = late
            /\ ~(allocated /\ version # 0)
  BY ZenonT(30) DEF InitProcess, Runs
<1>4. \A v \in Survivors', n \in Names : Streamed(v, n)'
  <2>1. \A v \in Survivors' : /\ Pid(v)' = Pid(v) /\ failed'[v] = failed[v]
                              /\ view'[v] = view[v]
    BY <1>3, Zenon DEF Pid
  <2>2. Survivors' \in SUBSET Survivors
    BY <1>1, Zenon
  <2> QED
    BY <1>3, <2>1, <2>2, StreamsKept, ZenonT(30)
<1>5. Acked(queue, inc, state) /\ Owed(queue, inc, state, late, Survivors)
  BY Zenon DEF Sound
<1>6. Acked(queue, inc, state') /\ Owed(queue, inc, state', late', Survivors)
  <2>1. CASE ~(allocated /\ version # 0)
    <3>1. version = 0
      BY <2>1, Zenon DEF Basic
    <3>2. \A m \in queue : m.id \in 1..0
      BY <3>1, Zenon DEF Basic
    <3>3. queue = {}
      BY <3>2
    <3> QED
      BY <3>3, Zenon DEF Acked, Owed
  <2>2. CASE state' = [state EXCEPT ![w] = "asleep"] /\ late' = [late EXCEPT ![w] = Runs]
    <3>1. NoneRuns(state', state, inc, inc, Survivors)
      BY <1>2, <1>3, <2>2, ZenonT(30) DEF NoneRuns
    <3>2. ASSUME NEW m \in queue, NEW u \in Workers, NEW j \in Nat, NEW v \in Survivors,
                 <<u, j>> \in m.acks, state'[u] = "asleep"
          PROVE  \/ state[u] = "asleep" /\ (v \in late[u] => v \in late'[u])
                 \/ v \in late'[u]
      <4>1. CASE u # w
        BY <1>2, <2>2, <3>2, <4>1, ZenonT(30)
      <4>2. CASE u = w
        <5>1. 1 <= j /\ j < inc[w]
          BY <1>3, <1>5, <3>2, <4>2, ZenonT(30) DEF Acked
        <5>2. inc[w] # 1
          BY <1>2, <5>1
        <5>3. v \in Runs
          BY <1>1, <5>2, Zenon
        <5> QED
          BY <1>2, <2>2, <4>2, <5>3, ZenonT(30)
      <4> QED
        BY <4>1, <4>2, ZenonT(30)
    <3>3. Survivors \in SUBSET Survivors
      BY Zenon
    <3>4. StillWait(queue, state', state, late', late, Survivors)
      BY <3>2, Zenon DEF StillWait
    <3> QED
      BY <1>2, <1>5, <3>1, <3>3, <3>4, OwedLess, ZenonT(30)
  <2> QED
    BY <1>3, <2>1, <2>2, Zenon
<1>7. Acked(queue', inc', state') /\ Owed(queue', inc', state', late', Survivors')
  BY <1>1, <1>3, <1>6, Zenon
<1> QED
  BY <1>1, <1>4, <1>7, Zenon DEF Sound, Acked, Owed, Owes

(* It wakes up after they have read: the pid it replaces is of none of them. *)
LEMMA WakeUpSound ==
  ASSUME Basic, Basic', Fine => Sound, NEW w \in Workers, WakeUp(w), Fine'
  PROVE  Sound'
<1>1. Fine /\ late[w] = {}
  <2>1. used["stall"] \in Nat /\ DOMAIN used = Budgets
    BY Zenon DEF Basic
  <2>2. CASE late[w] = {} /\ UNCHANGED used
    BY <2>2, Zenon DEF Fine
  <2>3. CASE used' = [used EXCEPT !["stall"] = @ + 1]
    BY <2>1, <2>3 DEF Fine, Budgets
  <2> QED
    BY <2>2, <2>3, Zenon DEF WakeUp
<1>2. PICK o : o = status[Oldest(status)].pid
  BY Zenon
<1>3. /\ Sound /\ Places' /\ Survivors' = Survivors
      /\ \A v \in Survivors : o # Pid(v)
      /\ w \in Survivors => o = NoPid
  BY <1>1, <1>2, PlacesWake, Zenon DEF Sound
<1>4. /\ queue \in SUBSET Message /\ inc \in [Workers -> Nat]
      /\ late \in [Workers -> SUBSET Workers] /\ 1 <= inc[w]
      /\ state \in [Workers -> {"dead", "forked", "asleep", "running"}]
      /\ Survivors \in SUBSET Workers
  BY BasicTypes, Zenon
<1>5. /\ state[w] = "asleep" /\ state' = [state EXCEPT ![w] = "running"]
      /\ queue' = Purge(queue, o, Pid(w)) /\ late' = [late EXCEPT ![w] = {}]
      /\ UNCHANGED <<inc, view, failed, intended>>
  BY <1>2, Zenon DEF WakeUp
<1>6. Acked(queue, inc, state) /\ Owed(queue, inc, state, late, Survivors)
  BY <1>3, Zenon DEF Sound
<1>7. Acked(queue', inc, state') /\ Owed(queue', inc, state', late', Survivors)
  <2>1. /\ \A v \in Survivors : o # <<v, inc[v]>>
        /\ OnlyOf(state', state, w) /\ state'[w] = "running"
        /\ OnlyOf(late', late, w) /\ Pid(w) = <<w, inc[w]>>
    BY <1>3, <1>4, <1>5, ZenonT(30) DEF OnlyOf, Pid
  <2>2. /\ Acked(Purge(queue, o, <<w, inc[w]>>), inc, state')
        /\ Owed(Purge(queue, o, <<w, inc[w]>>), inc, state', late', Survivors)
    BY <1>1, <1>4, <1>5, <1>6, <2>1, OwedWake, ZenonT(30)
  <2> QED
    BY <1>5, <2>1, <2>2, ZenonT(30)
<1>8. ASSUME NEW v \in Survivors, NEW n \in Names PROVE Streamed(v, n)'
  <2>1. Pid(v)' = Pid(v) /\ (v # w => Pid(w) # Pid(v)) /\ Streamed(v, n)
    BY <1>3, <1>5, ZenonT(30) DEF Pid, Sound
  <2>2. Alike(Todo(queue, Pid(v), n), Todo(queue', Pid(v), n))
    <3>1. CASE v = w
      BY <1>3, <1>4, <1>5, <3>1, PurgeNothing, ZenonT(30)
    <3>2. CASE v # w
      BY <1>3, <1>4, <1>5, <2>1, <3>2, PurgeAlike, ZenonT(30)
    <3> QED
      BY <3>1, <3>2
  <2> QED
    BY <1>5, <2>1, <2>2, OtherStreamed, Zenon
<1>9. Acked(queue', inc', state') /\ Owed(queue', inc', state', late', Survivors')
  BY <1>3, <1>5, <1>7, Zenon
<1> QED
  BY <1>3, <1>8, <1>9, Zenon DEF Sound, Acked, Owed, Owes

DeliveryInv == Basic /\ (Fine => Sound)

(* At first there is nothing to deliver.                                   *)
LEMMA InitDelivery ==
  ASSUME Init
  PROVE  DeliveryInv
<1>1. PidsInv /\ N \in Nat \ {0}
  BY InitPids, NFact, ZenonT(30)
<1>2. /\ status = [i \in Slots |-> [pid |-> NoPid, time |-> 0]] /\ queue = {}
      /\ \A w \in Workers : state[w] = "forked" /\ inc[w] = 1
      /\ restarted = {} /\ view = [w \in Workers |-> Static] /\ intended = Static
      /\ DOMAIN Static = Names
  BY ConstantsAssumption, ZenonT(30) DEF Init
<1>3. \A i \in Slots : status[i].pid = NoPid
  BY <1>2
<1>4. Basic
  <2>1. Ranked(status)
    BY <1>3, Zenon DEF Ranked
  <2>2. late \in [Workers -> SUBSET Workers] /\ DOMAIN failed = Workers /\ version = 0
    BY DEF Init
  <2>3. /\ DOMAIN used = Budgets /\ used["early"] = 0 /\ used["pool"] = 0
        /\ used["stall"] = 0
    BY ZenonT(30) DEF Init, Budgets
  <2>4. \A w \in Workers : 1 <= inc[w]
    BY <1>2, Counting, Zenon
  <2>5. DOMAIN view = Workers /\ restarted \in SUBSET Workers
    BY <1>2
  <2>6. 0 \in Nat
    OBVIOUS
  <2> QED
    BY <1>1, <1>2, <2>1, <2>2, <2>3, <2>4, <2>5, <2>6, ZenonT(30) DEF Basic
<1>5. Sound
  <2>1. Places
    <3>1. 1 \in Slots
      BY <1>1 DEF Slots
    <3>2. ~Taken(status)
      BY <1>3, <3>1, ZenonT(30) DEF Taken
    <3>3. \A w \in Workers : state[w] # "dead"
      BY <1>2
    <3> QED
      BY <1>2, <1>3, <3>2, <3>3, Zenon DEF Places, Filling
  <2>2. Acked(queue, inc, state) /\ Owed(queue, inc, state, late, Survivors)
    BY <1>2, Zenon DEF Acked, Owed
  <2>3. ASSUME NEW w \in Survivors, NEW n \in Names PROVE Streamed(w, n)
    <3>1. w \in Workers
      BY DEF Survivors
    <3>2. view[w][n] = intended[n]
      BY <1>2, <3>1, Zenon
    <3> QED
      BY <1>2, <3>2, Zenon DEF Streamed, Ends, Todo
  <2> QED
    BY <2>1, <2>2, <2>3, Zenon DEF Sound
<1> QED
  BY <1>4, <1>5, Zenon DEF DeliveryInv

(* The types and numbers after every step.                                 *)
LEMMA BasicNext ==
  ASSUME Basic, Next
  PROVE  Basic'
<1>1. PidsInv'
  BY PidsNext, Zenon DEF Basic
<1>2. DOMAIN view = Workers /\ DOMAIN failed = Workers /\ DOMAIN intended = Names
  BY Zenon DEF Basic
<1>3. ASSUME NEW w \in Workers, ReadMsg(w) PROVE Basic'
  <2>0. PICK pool \in BOOLEAN :
           /\ state[w] = "running" /\ UNCHANGED <<state, inc, allocated, restarted>>
           /\ ReadTime(w) /\ queue' = QueueRead(w, pool) /\ UNCHANGED <<version, intended>>
           /\ \E k :
              /\ (\E x : view' = [view EXCEPT ![w] = x])
              /\ (\E x : failed' = [failed EXCEPT ![w] = x])
              /\ used' = Spent(pool, k)
    BY <1>3, Zenon DEF ReadMsg, MayRead
  <2>1. PICK k :
           /\ (\E x : view' = [view EXCEPT ![w] = x])
           /\ (\E x : failed' = [failed EXCEPT ![w] = x])
           /\ used' = Spent(pool, k)
    BY <2>0, Zenon
  <2>2. /\ queue' \in {queue, Consumed(queue, Pid(w), version)}
        /\ DOMAIN view' = Workers /\ DOMAIN failed' = Workers /\ DOMAIN intended' = Names
    BY <1>2, <2>0, <2>1, Zenon DEF QueueRead
  <2> QED
    BY <1>1, <2>0, <2>1, <2>2, HandlerBasic, Zenon
<1>4. ASSUME NEW w \in Workers, NEW n \in Names, NEW c \in Contents \union {Absent},
             Command(w, n, c)
      PROVE  Basic'
  <2>0. PICK pool \in BOOLEAN :
           /\ state[w] = "running" /\ UNCHANGED <<state, inc, allocated, restarted>>
           /\ ReadTime(w) /\ queue' = Sent(QueueRead(w, pool), w, n, c)
           /\ version' = version + 1 /\ intended' = [intended EXCEPT ![n] = c]
           /\ \E k :
              /\ (\E x : view' = [view EXCEPT ![w] = x])
              /\ (\E x : failed' = [failed EXCEPT ![w] = x])
              /\ used' = Spent(pool, k)
    BY <1>4, Zenon DEF Command, MayRead
  <2>1. PICK k :
           /\ (\E x : view' = [view EXCEPT ![w] = x])
           /\ (\E x : failed' = [failed EXCEPT ![w] = x])
           /\ used' = Spent(pool, k)
    BY <2>0, Zenon
  <2>2. /\ QueueRead(w, pool) \in {queue, Consumed(queue, Pid(w), version)}
        /\ DOMAIN view' = Workers /\ DOMAIN failed' = Workers /\ DOMAIN intended' = Names
    BY <1>2, <2>0, <2>1, ZenonT(30) DEF QueueRead
  <2> QED
    BY <1>1, <2>0, <2>1, <2>2, HandlerBasic, Zenon
<1>5. ASSUME NEW w \in Workers, NEW n, NEW c, NEW v, CommandFails(w, n, c, v)
      PROVE  Basic'
  <2>0. PICK pool \in BOOLEAN :
           /\ state[w] = "running" /\ UNCHANGED <<state, inc, allocated, restarted>>
           /\ ReadTime(w) /\ queue' = QueueRead(w, pool) /\ UNCHANGED <<version, intended>>
           /\ \E k :
              /\ (\E x : view' = [view EXCEPT ![w] = x])
              /\ (\E x : failed' = [failed EXCEPT ![w] = x])
              /\ used' = Spent(pool, k)
    BY <1>5, Zenon DEF CommandFails, MayRead
  <2>1. PICK k :
           /\ (\E x : view' = [view EXCEPT ![w] = x])
           /\ (\E x : failed' = [failed EXCEPT ![w] = x])
           /\ used' = Spent(pool, k)
    BY <2>0, Zenon
  <2>2. /\ queue' \in {queue, Consumed(queue, Pid(w), version)}
        /\ DOMAIN view' = Workers /\ DOMAIN failed' = Workers /\ DOMAIN intended' = Names
    BY <1>2, <2>0, <2>1, Zenon DEF QueueRead
  <2> QED
    BY <1>1, <2>0, <2>1, <2>2, HandlerBasic, Zenon
<1> QED
  BY <1>1, <1>3, <1>4, <1>5, LifeBasic, Zenon DEF Next

(* No command is lost or overtaken on its way to a worker that has not     *)
(* crashed, however many workers there are, whichever of them crash and    *)
(* whatever commands fail: purge_msg never takes the pid of a live worker  *)
(* for that of a dead one, and read_msg_locked destroys a message only     *)
(* after every survivor has applied it.                                    *)
THEOREM SurvivorsCurrentCorrect == Spec => []SurvivorsCurrent
<1>1. Init => DeliveryInv
  BY InitDelivery
<1>2. DeliveryInv /\ [Next]_vars => DeliveryInv'
  <2>1. ASSUME DeliveryInv, UNCHANGED vars PROVE DeliveryInv'
    <3> USE <2>1 DEF vars
    <3>1. PidsInv <=> PidsInv'
      BY Zenon DEF PidsInv, Fits, Known
    <3>2. Basic <=> Basic'
      BY <3>1, Zenon DEF Basic
    <3>3. /\ Pids' = Pids /\ Runs' = Runs /\ Sleeps' = Sleeps /\ Survivors' = Survivors
          /\ \A w \in Workers : Pid(w)' = Pid(w)
      BY Zenon DEF Pids, Pid, Runs, Sleeps, Survivors
    <3>4. Places <=> Places'
      BY <3>3, Zenon DEF Places, Filling, Filled
    <3>5. \A w \in Workers, n \in Names : Streamed(w, n) <=> Streamed(w, n)'
      BY <3>3, Zenon DEF Streamed
    <3>6. Survivors \in SUBSET Workers
      BY DEF Survivors
    <3>7. Sound <=> Sound'
      BY <3>3, <3>4, <3>5, <3>6, Zenon DEF Sound
    <3> QED
      BY <3>2, <3>7, Zenon DEF DeliveryInv, Fine
  <2>2. ASSUME DeliveryInv, Next PROVE DeliveryInv'
    <3>1. Basic /\ Basic' /\ (Fine => Sound)
      BY <2>2, BasicNext, Zenon DEF DeliveryInv
    <3>2. ASSUME Fine' PROVE Sound'
      <4>1. ASSUME NEW w \in Workers, Respawn(w) \/ InitProcess(w) PROVE Sound'
        <5>1. Fine
          BY <3>2, <4>1, Zenon DEF Respawn, InitProcess, Fine
        <5> QED
          BY <3>1, <4>1, <5>1, RespawnSound, InitProcessSound, ZenonT(30)
      <4> QED
        BY <2>2, <3>1, <3>2, <4>1, ReadMsgSound, CommandSound, CommandFailsSound, CrashSound,
           WakeUpSound, ZenonT(30) DEF Next
    <3> QED
      BY <3>1, <3>2, Zenon DEF DeliveryInv
  <2> QED
    BY <2>1, <2>2
<1>3. DeliveryInv => SurvivorsCurrent
  <2> SUFFICES ASSUME DeliveryInv, \A b \in {"early", "pool", "stall"} : used[b] = 0,
                      NEW w \in Workers \ restarted, NEW n \in Names,
                      state[w] = "running", About(Unread(queue, Pid(w)), n) = {},
                      n \notin failed[w]
               PROVE  view[w][n] = intended[n]
    BY Zenon DEF SurvivorsCurrent, Current
  <2>1. Basic /\ Sound
    BY Zenon DEF DeliveryInv, Fine
  <2>2. w \in Survivors
    BY DEF Survivors
  <2>3. \A m \in queue : Pid(w) \notin m.acks => ~Full(m)
    BY <2>1, <2>2, SurvivorsWaited, Zenon
  <2>4. Todo(queue, Pid(w), n) = {}
    BY <2>3, Zenon DEF About, Unread, Todo
  <2> QED
    BY <2>1, <2>2, <2>4, Zenon DEF Sound, Streamed
<1> QED
  BY <1>1, <1>2, <1>3, PTL DEF Spec

=============================================================================
