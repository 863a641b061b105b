------------------------- MODULE ConnectionsProofs --------------------------
(***************************************************************************)
(* Proofs about Connections, for any number of slots and of calls and any  *)
(* limits of ngx_drain_connections: the pool stays sound, the instance bit *)
(* tells an odd number of reuses, and a connection is refused only when    *)
(* all are busy.                                                           *)
(***************************************************************************)
EXTENDS Connections, FiniteSetTheorems, TLAPS

(* The queue q has the elements of X, each of them once.                   *)
Holds(q, X) ==
    /\ q \in Seq(X)
    /\ \A i, j \in DOMAIN q : q[i] = q[j] => i = j
    /\ \A x \in X : \E i \in DOMAIN q : q[i] = x

(* What sequences are.                                                     *)
LEMMA SeqFacts ==
  ASSUME NEW X, NEW q \in Seq(X)
  PROVE  /\ Len(q) \in Nat /\ DOMAIN q = 1..Len(q)
         /\ \A i \in 1..Len(q) : q[i] \in X
         /\ q = << >> <=> Len(q) = 0
  OBVIOUS

(* u is q up to the position before k, v is q after k, and r is u and then *)
(* v: Without(q, k), as Shorter says it.                                  *)
IsFront(u, q, k, X) ==
    u \in Seq(X) /\ Len(u) = k - 1 /\ \A i \in 1..(k - 1) : u[i] = q[i]
IsBack(v, q, k, X) ==
    v \in Seq(X) /\ Len(v) = Len(q) - k /\ \A i \in 1..(Len(q) - k) : v[i] = q[k + i]
IsConcat(r, u, v, X) ==
    /\ r \in Seq(X) /\ Len(r) = Len(u) + Len(v)
    /\ \A i \in 1..Len(u) : r[i] = u[i]
    /\ \A i \in 1..Len(v) : r[Len(u) + i] = v[i]
Shorter(r, q, k, X) ==
    /\ r \in Seq(X) /\ Len(r) = Len(q) - 1
    /\ \A i \in 1..(k - 1) : r[i] = q[i]
    /\ \A i \in k..(Len(q) - 1) : r[i] = q[i + 1]

(* The part of a queue before the position k.                              *)
LEMMA FrontFacts ==
  ASSUME NEW X, NEW q \in Seq(X), NEW k \in 1..Len(q)
  PROVE  IsFront(SubSeq(q, 1, k - 1), q, k, X)
<1>1. Len(q) \in Nat
  OBVIOUS
<1>2. Len(SubSeq(q, 1, k - 1)) = k - 1
  BY <1>1
<1>3. SubSeq(q, 1, k - 1) \in Seq(X)
  BY <1>1
<1>4. ASSUME NEW i \in 1..(k - 1)
      PROVE  SubSeq(q, 1, k - 1)[i] = q[i]
  BY <1>1
<1> QED
  BY <1>2, <1>3, <1>4 DEF IsFront

(* The part of a queue after the position k.                               *)
LEMMA BackFacts ==
  ASSUME NEW X, NEW q \in Seq(X), NEW k \in 1..Len(q)
  PROVE  IsBack(SubSeq(q, k + 1, Len(q)), q, k, X)
<1>1. Len(q) \in Nat
  OBVIOUS
<1>2. Len(SubSeq(q, k + 1, Len(q))) = Len(q) - k
  BY <1>1
<1>3. SubSeq(q, k + 1, Len(q)) \in Seq(X)
  BY <1>1
<1>4. ASSUME NEW i \in 1..(Len(q) - k)
      PROVE  SubSeq(q, k + 1, Len(q))[i] = q[k + i]
  BY <1>1
<1> QED
  BY <1>2, <1>3, <1>4 DEF IsBack

(* Two sequences one after the other.                                      *)
LEMMA ConcatFacts ==
  ASSUME NEW X, NEW u \in Seq(X), NEW v \in Seq(X)
  PROVE  IsConcat(u \o v, u, v, X)
<1>1. Len(u) \in Nat /\ Len(v) \in Nat
  OBVIOUS
<1>2. u \o v \in Seq(X) /\ Len(u \o v) = Len(u) + Len(v)
  OBVIOUS
<1>3. ASSUME NEW i \in 1..Len(u)
      PROVE  (u \o v)[i] = u[i]
  BY <1>1
<1>4. ASSUME NEW i \in 1..Len(v)
      PROVE  (u \o v)[Len(u) + i] = v[i]
  BY <1>1
<1> QED
  BY <1>2, <1>3, <1>4 DEF IsConcat

(* The two parts together are the queue without the position k.            *)
LEMMA JoinedFacts ==
  ASSUME NEW X, NEW q \in Seq(X), NEW k \in 1..Len(q), NEW r, NEW u, NEW v,
         IsFront(u, q, k, X), IsBack(v, q, k, X), IsConcat(r, u, v, X)
  PROVE  Shorter(r, q, k, X)
<1>1. Len(q) \in Nat
  OBVIOUS
<1>2. Len(u) = k - 1 /\ \A i \in 1..(k - 1) : u[i] = q[i]
  BY DEF IsFront
<1>3. Len(v) = Len(q) - k /\ \A i \in 1..(Len(q) - k) : v[i] = q[k + i]
  BY DEF IsBack
<1>4. ASSUME NEW i \in k..(Len(q) - 1)
      PROVE  r[i] = q[i + 1]
  <2>1. PICK j \in 1..(Len(q) - k) : i = (k - 1) + j
    BY <1>1
  <2>2. r[i] = v[j]
    BY <1>2, <1>3, <2>1 DEF IsConcat
  <2>3. v[j] = q[k + j] /\ k + j = i + 1
    BY <1>1, <1>3, <2>1
  <2> QED
    BY <2>2, <2>3
<1>5. r \in Seq(X) /\ Len(r) = Len(q) - 1
  BY <1>1, <1>2, <1>3 DEF IsConcat
<1>6. \A i \in 1..(k - 1) : r[i] = q[i]
  BY <1>2 DEF IsConcat
<1> QED
  BY <1>4, <1>5, <1>6 DEF Shorter

(* What Without returns.                                                  *)
LEMMA WithoutFacts ==
  ASSUME NEW X, NEW q \in Seq(X), NEW k \in 1..Len(q)
  PROVE  Shorter(Without(q, k), q, k, X)
<1> DEFINE u == SubSeq(q, 1, k - 1)
           v == SubSeq(q, k + 1, Len(q))
<1>1. IsFront(u, q, k, X) /\ IsBack(v, q, k, X)
  BY FrontFacts, BackFacts, Zenon
<1>2. Without(q, k) = u \o v
  BY Zenon DEF Without
<1> HIDE DEF u, v
<1>3. u \in Seq(X) /\ v \in Seq(X)
  BY <1>1, Zenon DEF IsFront, IsBack
<1>4. IsConcat(u \o v, u, v, X)
  BY <1>3, ConcatFacts, Zenon
<1> QED
  BY <1>1, <1>2, <1>4, JoinedFacts, Zenon

(* A sequence that has the elements of X once, as PoolSound says it.       *)
LEMMA HoldsFacts ==
  ASSUME NEW X, NEW q, Holds(q, X)
  PROVE  /\ IsInjective(q) /\ Range(q) = X
         /\ Len(q) \in Nat /\ DOMAIN q = 1..Len(q)
         /\ q = << >> <=> X = {}
         /\ q = << >> <=> Len(q) = 0
<1>1. q \in Seq(X)
  BY DEF Holds
<1>2. Len(q) \in Nat /\ DOMAIN q = 1..Len(q) /\ (q = << >> <=> Len(q) = 0)
  BY <1>1, SeqFacts
<1>3. \A i \in DOMAIN q : q[i] \in X
  BY <1>1, SeqFacts
<1>4. Range(q) = X
  <2>1. Range(q) \subseteq X
    BY <1>3 DEF Range
  <2>2. X \subseteq Range(q)
    BY DEF Holds, Range
  <2> QED
    BY <2>1, <2>2
<1>5. IsInjective(q)
  BY DEF Holds, IsInjective
<1>6. Len(q) = 0 => X = {}
  BY <1>2 DEF Holds
<1>7. X = {} => Len(q) = 0
  BY <1>2, <1>3
<1> QED
  BY <1>2, <1>4, <1>5, <1>6, <1>7

(* An element enters at the head.                                          *)
LEMMA ConsHolds ==
  ASSUME NEW X, NEW q, Holds(q, X), NEW s, s \notin X
  PROVE  Holds(<<s>> \o q, X \union {s}) /\ Len(<<s>> \o q) = Len(q) + 1
<1> DEFINE Y == X \union {s}
           r == <<s>> \o q
<1>1. q \in Seq(X)
  BY DEF Holds
<1>2. q \in Seq(Y) /\ <<s>> \in Seq(Y)
  BY <1>1
<1>3. Len(q) \in Nat /\ DOMAIN q = 1..Len(q)
  BY <1>1, SeqFacts
<1>4. r \in Seq(Y) /\ Len(r) = Len(q) + 1
  BY <1>2
<1>5. DOMAIN r = 1..(Len(q) + 1)
  BY <1>4, SeqFacts
<1>6. r[1] = s
  BY <1>2, <1>3
<1>7. \A i \in 1..Len(q) : r[i + 1] = q[i]
  BY <1>2, <1>3
<1>8. \A i \in 1..(Len(q) + 1) : i = 1 \/ (i - 1 \in 1..Len(q) /\ r[i] = q[i - 1])
  BY <1>3, <1>7
<1> HIDE DEF r
<1>9. \A i \in 1..Len(q) : q[i] # s
  BY <1>1, SeqFacts
<1>10. \A i, j \in DOMAIN r : r[i] = r[j] => i = j
  <2> TAKE i, j \in DOMAIN r
  <2> HAVE r[i] = r[j]
  <2>1. \A a, b \in 1..Len(q) : q[a] = q[b] => a = b
    BY <1>3 DEF Holds
  <2> QED
    BY <1>3, <1>5, <1>6, <1>8, <1>9, <2>1
<1>11. \A x \in Y : \E i \in DOMAIN r : r[i] = x
  <2> TAKE x \in Y
  <2>1. CASE x = s
    BY <1>3, <1>5, <1>6, <2>1
  <2>2. CASE x \in X
    <3>1. PICK i \in 1..Len(q) : q[i] = x
      BY <1>3, <2>2 DEF Holds
    <3> QED
      BY <1>3, <1>5, <1>7, <3>1
  <2> QED
    BY <2>1, <2>2
<1> QED
  BY <1>4, <1>10, <1>11, SMTT(30) DEF Holds, r

(* One enters at the tail.                                                 *)
LEMMA AppendHolds ==
  ASSUME NEW X, NEW q, Holds(q, X), NEW s, s \notin X
  PROVE  Holds(Append(q, s), X \union {s})
<1> DEFINE Y == X \union {s}
           r == Append(q, s)
<1>1. q \in Seq(X)
  BY DEF Holds
<1>2. q \in Seq(Y)
  BY <1>1
<1>3. Len(q) \in Nat /\ DOMAIN q = 1..Len(q)
  BY <1>1, SeqFacts
<1>4. r \in Seq(Y) /\ Len(r) = Len(q) + 1
  BY <1>2
<1>5. DOMAIN r = 1..(Len(q) + 1)
  BY <1>4, SeqFacts
<1>6. r[Len(q) + 1] = s
  BY <1>2, <1>3
<1>7. \A i \in 1..Len(q) : r[i] = q[i]
  BY <1>2, <1>3
<1> HIDE DEF r
<1>8. \A i \in 1..Len(q) : q[i] # s
  BY <1>1, SeqFacts
<1>9. \A i, j \in DOMAIN r : r[i] = r[j] => i = j
  <2>1. \A a, b \in 1..Len(q) : q[a] = q[b] => a = b
    BY <1>3 DEF Holds
  <2> QED
    BY <1>3, <1>5, <1>6, <1>7, <1>8, <2>1
<1>10. \A x \in Y : \E i \in DOMAIN r : r[i] = x
  <2> TAKE x \in Y
  <2>1. CASE x = s
    BY <1>3, <1>5, <1>6, <2>1
  <2>2. CASE x \in X
    <3>1. PICK i \in 1..Len(q) : q[i] = x
      BY <1>3, <2>2 DEF Holds
    <3> QED
      BY <1>3, <1>5, <1>7, <3>1
  <2> QED
    BY <2>1, <2>2
<1> QED
  BY <1>4, <1>9, <1>10, SMTT(30) DEF Holds, r

(* The first one leaves.                                                   *)
LEMMA TailHolds ==
  ASSUME NEW X, NEW q, Holds(q, X), q # << >>
  PROVE  /\ Head(q) \in X
         /\ Holds(Tail(q), X \ {Head(q)}) /\ Len(Tail(q)) = Len(q) - 1
<1> DEFINE s == Head(q)
           Y == X \ {s}
           r == Tail(q)
<1>1. q \in Seq(X)
  BY DEF Holds
<1>2. Len(q) \in Nat /\ DOMAIN q = 1..Len(q) /\ Len(q) # 0
  BY <1>1, SeqFacts
<1>3. s = q[1] /\ s \in X
  BY <1>1
<1>4. r \in Seq(X) /\ Len(r) = Len(q) - 1
  BY <1>1
<1>5. DOMAIN r = 1..(Len(q) - 1)
  BY <1>4, SeqFacts
<1>6. \A i \in 1..(Len(q) - 1) : r[i] = q[i + 1] /\ i + 1 \in 1..Len(q)
  BY <1>1, <1>2
<1> HIDE DEF r, s
<1>7. \A a, b \in 1..Len(q) : q[a] = q[b] => a = b
  BY <1>2 DEF Holds
<1>8. \A i \in 1..(Len(q) - 1) : r[i] # s
  BY <1>2, <1>3, <1>6, <1>7
<1>9. r \in Seq(Y)
  <2>1. \A i \in 1..Len(r) : r[i] \in Y
    BY <1>4, <1>8, SeqFacts
  <2> QED
    BY <1>4, <2>1
<1>10. \A i, j \in DOMAIN r : r[i] = r[j] => i = j
  BY <1>2, <1>5, <1>6, <1>7
<1>11. \A x \in Y : \E i \in DOMAIN r : r[i] = x
  <2> TAKE x \in Y
  <2>1. PICK i \in 1..Len(q) : q[i] = x
    BY <1>2 DEF Holds
  <2>2. i # 1 /\ i - 1 \in 1..(Len(q) - 1)
    BY <1>2, <1>3, <2>1
  <2>3. r[i - 1] = x
    BY <1>6, <2>1, <2>2
  <2> QED
    BY <1>5, <2>2, <2>3
<1>12. Holds(r, Y)
  BY <1>9, <1>10, <1>11 DEF Holds
<1> QED
  BY <1>3, <1>4, <1>12 DEF r, s

(* An element leaves, wherever it is.                                      *)
LEMMA ShorterHolds ==
  ASSUME NEW X, NEW q, Holds(q, X), NEW k \in 1..Len(q), NEW r, Shorter(r, q, k, X)
  PROVE  Holds(r, X \ {q[k]})
<1> DEFINE s == q[k]
           Y == X \ {s}
<1>1. q \in Seq(X)
  BY DEF Holds
<1>2. Len(q) \in Nat /\ DOMAIN q = 1..Len(q)
  BY <1>1, SeqFacts
<1>3. q[k] = s
  OBVIOUS
<1>4. r \in Seq(X) /\ Len(r) = Len(q) - 1
  BY DEF Shorter
<1>5. DOMAIN r = 1..(Len(q) - 1)
  BY <1>4, SeqFacts
<1>6. \A i \in 1..(k - 1) : r[i] = q[i]
  BY DEF Shorter
<1>7. \A i \in k..(Len(q) - 1) : r[i] = q[i + 1]
  BY DEF Shorter
<1>8. \A i \in 1..(Len(q) - 1) : \/ i < k /\ i \in 1..Len(q) /\ r[i] = q[i]
                                 \/ i >= k /\ i + 1 \in 1..Len(q) /\ r[i] = q[i + 1]
  BY <1>2, <1>6, <1>7
<1>9. \A a, b \in 1..Len(q) : q[a] = q[b] => a = b
  BY <1>2 DEF Holds
<1>10. \A i \in 1..(Len(q) - 1) : r[i] # s
  <2> TAKE i \in 1..(Len(q) - 1)
  <2>1. PICK j \in 1..Len(q) : r[i] = q[j] /\ j # k
    BY <1>2, <1>8
  <2> QED
    BY <1>3, <1>9, <2>1, Zenon
<1>11. r \in Seq(Y)
  <2>1. \A i \in 1..Len(r) : r[i] \in Y
    BY <1>4, <1>10, SeqFacts
  <2> QED
    BY <1>4, <2>1
<1>12. \A i, j \in DOMAIN r : r[i] = r[j] => i = j
  BY <1>2, <1>5, <1>8, <1>9
<1>13. \A x \in Y : \E i \in DOMAIN r : r[i] = x
  <2> TAKE x \in Y
  <2>1. PICK i \in 1..Len(q) : q[i] = x
    BY <1>2 DEF Holds
  <2>2. i # k
    BY <1>3, <2>1
  <2>3. CASE i < k
    <3>1. i \in 1..(Len(q) - 1) /\ r[i] = x
      BY <1>2, <1>6, <2>1, <2>3
    <3> QED
      BY <1>5, <3>1
  <2>4. CASE i > k
    <3>1. i - 1 \in 1..(Len(q) - 1) /\ i - 1 \in k..(Len(q) - 1) /\ (i - 1) + 1 = i
      BY <1>2, <2>4
    <3>2. r[i - 1] = x
      BY <1>7, <2>1, <3>1
    <3> QED
      BY <1>5, <3>1, <3>2
  <2> QED
    BY <2>2, <2>3, <2>4
<1>14. Holds(r, Y)
  BY <1>11, <1>12, <1>13 DEF Holds
<1> QED
  BY <1>14

(* ngx_queue_remove takes s out of the queue and leaves the rest.          *)
LEMMA RemoveHolds ==
  ASSUME NEW X, NEW q, Holds(q, X), NEW s \in X
  PROVE  Holds(QueueRemove(q, s), X \ {s}) /\ Len(QueueRemove(q, s)) = Len(q) - 1
<1> DEFINE k == CHOOSE i \in DOMAIN q : q[i] = s
<1>1. q \in Seq(X) /\ DOMAIN q = 1..Len(q)
  BY HoldsFacts DEF Holds
<1>2. s \in Range(q)
  BY HoldsFacts
<1>3. \E i \in DOMAIN q : q[i] = s
  BY <1>2 DEF Range
<1>4. k \in 1..Len(q) /\ q[k] = s
  BY <1>1, <1>3
<1>5. QueueRemove(q, s) = Without(q, k)
  BY <1>2, Zenon DEF QueueRemove
<1> HIDE DEF k
<1>6. Shorter(Without(q, k), q, k, X)
  BY <1>1, <1>4, WithoutFacts, Zenon
<1>7. Holds(Without(q, k), X \ {s})
  BY <1>4, <1>6, ShorterHolds, Zenon
<1>8. Len(Without(q, k)) = Len(q) - 1
  BY <1>6, Zenon DEF Shorter
<1> QED
  BY <1>5, <1>7, <1>8, Zenon

(* It changes nothing if the element is not there.                         *)
LEMMA RemoveAny ==
  ASSUME NEW X, NEW q, Holds(q, X), NEW a
  PROVE  Holds(QueueRemove(q, a), X \ {a})
<1>1. Range(q) = X
  BY HoldsFacts, Zenon
<1>2. CASE a \in X
  BY <1>2, RemoveHolds, Zenon
<1>3. CASE a \notin X
  <2>1. QueueRemove(q, a) = q
    BY <1>1, <1>3, Zenon DEF QueueRemove
  <2>2. X \ {a} = X
    BY <1>3, Zenon
  <2> QED
    BY <2>1, <2>2, Zenon
<1> QED
  BY <1>2, <1>3

-----------------------------------------------------------------------------
(* A sequence of the elements of X has as many places as X has elements,   *)
(* so that the two counters of the cycle stay within connection_n.         *)
LEMMA HoldsCardinality ==
  ASSUME NEW X, NEW q, Holds(q, X), NEW S, IsFiniteSet(S), X \subseteq S
  PROVE  Len(q) <= Cardinality(S) /\ Cardinality(S) \in Nat /\ Len(q) \in Nat
<1>1. Len(q) \in Nat /\ DOMAIN q = 1..Len(q)
  BY HoldsFacts
<1>2. q \in [1..Len(q) -> S]
  <2>1. q \in Seq(X)
    BY DEF Holds
  <2>2. \A i \in 1..Len(q) : q[i] \in S
    BY <2>1, SeqFacts
  <2>3. q \in [1..Len(q) -> X]
    BY <2>1
  <2> QED
    BY <2>2, <2>3
<1>3. q \in Injection(1..Len(q), S)
  BY <1>1, <1>2, HoldsFacts, Zenon DEF Injection
<1>4. Cardinality(1..Len(q)) <= Cardinality(S)
  BY <1>3, FS_Injection, Zenon
<1>5. \A n \in Nat : Cardinality(1..n) = n
  BY FS_Interval
<1>6. Cardinality(1..Len(q)) = Len(q)
  BY <1>1, <1>5, Zenon
<1>7. Cardinality(S) \in Nat
  BY FS_CardinalityType
<1> QED
  BY <1>1, <1>4, <1>6, <1>7, Zenon

(* The elements of S in any order.                                         *)
LEMMA OrderHolds ==
  ASSUME NEW S, IsFiniteSet(S), NEW f \in Orders(S)
  PROVE  Holds(f, S) /\ Len(f) = Cardinality(S)
<1> DEFINE n == Cardinality(S)
<1>1. n \in Nat
  BY FS_CardinalityType
<1>2. f \in Injection(1..n, S) /\ f \in Surjection(1..n, S)
  BY DEF Orders, Bijection
<1> HIDE DEF n
<1>3. f \in [1..n -> S] /\ DOMAIN f = 1..n
  BY <1>2 DEF Injection
<1>4. f \in Seq(S) /\ Len(f) = n
  BY <1>1, <1>3
<1>5. \A x \in S : \E i \in DOMAIN f : f[i] = x
  BY <1>2, <1>3, Zenon DEF Surjection
<1>6. \A i, j \in DOMAIN f : f[i] = f[j] => i = j
  BY <1>2, Zenon DEF Injection, IsInjective
<1> QED
  BY <1>4, <1>5, <1>6 DEF Holds, n

-----------------------------------------------------------------------------
(* The stack of free connections, the queue of idle ones and the posted    *)
(* events agree with the flags of the slots.                               *)
Stack(free, n, fd) == Holds(free, {s \in Slots : fd[s] = 0}) /\ n = Len(free)

Idle(rq, n, reusable, fd) ==
    /\ Holds(rq, {s \in Slots : reusable[s] = 1}) /\ n = Len(rq)
    /\ \A s \in Slots : reusable[s] = 1 => fd[s] = 1

Pending(posted, fd) ==
    Holds(posted, Range(posted)) /\ \A e \in Range(posted) : e \in Events /\ fd[e[1]] = 1

Flags == [Slots -> {0, 1}]

(* ngx_free_connection: a closed slot is pushed.                           *)
LEMMA StackPush ==
  ASSUME NEW free, NEW n, NEW fd \in Flags, Stack(free, n, fd),
         NEW s \in Slots, fd[s] = 1
  PROVE  Stack(<<s>> \o free, n + 1, [fd EXCEPT ![s] = 0])
<1> DEFINE X == {t \in Slots : fd[t] = 0}
           Y == {t \in Slots : [fd EXCEPT ![s] = 0][t] = 0}
<1>1. Y = X \union {s} /\ s \notin X
  BY DEF Flags
<1>2. Holds(free, X) /\ n = Len(free)
  BY DEF Stack
<1> HIDE DEF X
<1>3. Holds(<<s>> \o free, X \union {s}) /\ Len(<<s>> \o free) = Len(free) + 1
  BY <1>1, <1>2, ConsHolds, Zenon
<1> QED
  BY <1>1, <1>2, <1>3, Zenon DEF Stack

(* ngx_get_connection: the slot on top is closed, and opened.              *)
LEMMA StackPop ==
  ASSUME NEW free, NEW n, NEW fd \in Flags, Stack(free, n, fd), free # << >>
  PROVE  /\ Head(free) \in Slots /\ fd[Head(free)] = 0
         /\ Stack(Tail(free), n - 1, [fd EXCEPT ![Head(free)] = 1])
<1> DEFINE X == {t \in Slots : fd[t] = 0}
<1>1. Holds(free, X) /\ n = Len(free)
  BY DEF Stack
<1>2. /\ Head(free) \in X
      /\ Holds(Tail(free), X \ {Head(free)}) /\ Len(Tail(free)) = Len(free) - 1
  <2> HIDE DEF X
  <2> QED
    BY <1>1, TailHolds, Zenon
<1>3. PICK s \in X : s = Head(free)
  BY <1>2, Zenon
<1> DEFINE Y == {t \in Slots : [fd EXCEPT ![s] = 1][t] = 0}
<1>4. Y = X \ {s}
  BY DEF Flags
<1>5. Holds(Tail(free), Y) /\ n - 1 = Len(Tail(free))
  BY <1>1, <1>2, <1>3, <1>4, Zenon
<1> QED
  BY <1>3, <1>5, Zenon DEF Stack

(* ngx_reusable_connection: s leaves the queue if it was idle, and enters  *)
(* at its head if it is now.                                               *)
LEMMA IdleSet ==
  ASSUME NEW rq, NEW n, NEW reusable \in Flags, NEW fd \in Flags,
         Idle(rq, n, reusable, fd), NEW s \in Slots, fd[s] = 1, NEW q, NEW r \in {0, 1},
         q = IF reusable[s] = 1 THEN QueueRemove(rq, s) ELSE rq
  PROVE  Idle(IF r = 1 THEN <<s>> \o q ELSE q, (n - reusable[s]) + r,
              [reusable EXCEPT ![s] = r], fd)
<1> DEFINE X == {t \in Slots : reusable[t] = 1}
           Y == {t \in Slots : [reusable EXCEPT ![s] = r][t] = 1}
<1>1. Holds(rq, X) /\ n = Len(rq) /\ \A t \in Slots : reusable[t] = 1 => fd[t] = 1
  BY DEF Idle
<1>2. n \in Nat /\ reusable[s] \in {0, 1}
  <2>1. Len(rq) \in Nat
    BY <1>1, HoldsFacts, Zenon
  <2> QED
    BY <1>1, <2>1 DEF Flags
<1>3. Holds(q, X \ {s}) /\ Len(q) = n - reusable[s]
  <2>1. CASE reusable[s] = 1
    <3>1. q = QueueRemove(rq, s) /\ s \in X
      BY <2>1
    <3> HIDE DEF X
    <3>2. /\ Holds(QueueRemove(rq, s), X \ {s})
          /\ Len(QueueRemove(rq, s)) = Len(rq) - 1
      BY <1>1, <3>1, RemoveHolds, Zenon
    <3>3. Holds(q, X \ {s}) /\ Len(q) = Len(rq) - 1
      BY <3>1, <3>2, Zenon
    <3>4. Len(q) = n - reusable[s]
      BY <1>1, <2>1, <3>3
    <3> QED
      BY <3>3, <3>4, Zenon
  <2>2. CASE reusable[s] = 0
    <3>1. q = rq /\ X \ {s} = X
      BY <2>2
    <3>2. n - reusable[s] = n
      BY <1>2, <2>2
    <3> HIDE DEF X
    <3> QED
      BY <1>1, <3>1, <3>2, Zenon
  <2> QED
    BY <1>2, <2>1, <2>2
<1>4. \A t \in Slots : [reusable EXCEPT ![s] = r][t] = 1 => fd[t] = 1
  BY <1>1 DEF Flags
<1>5. CASE r = 1
  <2>1. Y = (X \ {s}) \union {s}
    BY <1>5 DEF Flags
  <2> DEFINE Z == X \ {s}
  <2>2. s \notin Z /\ Holds(q, Z) /\ Y = Z \union {s}
    BY <1>3, <2>1
  <2> HIDE DEF X, Y, Z
  <2>3. Holds(<<s>> \o q, Z \union {s}) /\ Len(<<s>> \o q) = Len(q) + 1
    BY <2>2, ConsHolds, Zenon
  <2>4. Holds(<<s>> \o q, Y) /\ Len(<<s>> \o q) = Len(q) + 1
    BY <2>2, <2>3, Zenon
  <2>5. Len(<<s>> \o q) = (n - reusable[s]) + r
    <3> PICK m : m = Len(<<s>> \o q)
      BY Zenon
    <3>1. m = Len(q) + 1 /\ Len(q) = n - reusable[s]
      BY <1>3, <2>4, Zenon
    <3> QED
      BY <1>5, <3>1
  <2> QED
    BY <1>4, <1>5, <2>4, <2>5, Zenon DEF Idle, Y
<1>6. CASE r = 0
  <2>1. Y = X \ {s}
    BY <1>6 DEF Flags
  <2>2. Len(q) = (n - reusable[s]) + r
    BY <1>2, <1>3, <1>6
  <2>3. Holds(q, Y)
    BY <1>3, <2>1, Zenon
  <2>4. (IF r = 1 THEN <<s>> \o q ELSE q) = q
    BY <1>6
  <2> QED
    BY <1>4, <2>2, <2>3, <2>4, Zenon DEF Idle
<1> QED
  BY <1>5, <1>6

(* The last of the queue is open and idle.                                 *)
LEMMA IdleLast ==
  ASSUME NEW rq, NEW n, NEW reusable \in Flags, NEW fd \in Flags,
         Idle(rq, n, reusable, fd), n # 0
  PROVE  rq[Len(rq)] \in Slots /\ reusable[rq[Len(rq)]] = 1 /\ fd[rq[Len(rq)]] = 1
<1> DEFINE X == {t \in Slots : reusable[t] = 1}
<1>1. rq \in Seq(X) /\ Len(rq) # 0
  BY DEF Idle, Holds
<1>2. rq[Len(rq)] \in X
  <2> HIDE DEF X
  <2>1. Len(rq) \in Nat /\ \A i \in 1..Len(rq) : rq[i] \in X
    BY <1>1, SeqFacts
  <2>2. Len(rq) \in 1..Len(rq)
    BY <1>1, <2>1
  <2> QED
    BY <2>1, <2>2, Zenon
<1> QED
  BY <1>2 DEF Idle

(* A slot that is not idle may be closed, and any slot opened.             *)
LEMMA IdleFd ==
  ASSUME NEW rq, NEW n, NEW reusable \in Flags, NEW fd \in Flags,
         Idle(rq, n, reusable, fd), NEW s \in Slots, NEW b \in {0, 1},
         reusable[s] = 0
  PROVE  Idle(rq, n, reusable, [fd EXCEPT ![s] = b])
  BY DEF Idle, Flags

(* A connection has two events.                                            *)
LEMMA EventFacts ==
  ASSUME NEW e \in Events, NEW s \in Slots
  PROVE  /\ e[1] \in Slots
         /\ e[1] = s => e = <<s, "read">> \/ e = <<s, "write">>
         /\ <<s, "read">> \in Events /\ <<s, "write">> \in Events
         /\ <<s, "read">>[1] = s /\ <<s, "write">>[1] = s
  BY DEF Events

(* The posted events of a slot that is closed are deleted.                 *)
LEMMA PendingClose ==
  ASSUME NEW posted, NEW fd \in Flags, Pending(posted, fd), NEW s \in Slots, NEW q,
         q = QueueRemove(QueueRemove(posted, <<s, "read">>), <<s, "write">>)
  PROVE  Pending(q, [fd EXCEPT ![s] = 0]) /\ Range(q) \subseteq Range(posted)
<1>1. PICK X : X = Range(posted)
  BY Zenon
<1>2. PICK a, b : a = <<s, "read">> /\ b = <<s, "write">>
  BY Zenon
<1>3. Holds(posted, X) /\ \A e \in X : e \in Events /\ fd[e[1]] = 1
  BY <1>1, Zenon DEF Pending
<1>4. PICK r : r = QueueRemove(posted, a)
  BY Zenon
<1>5. Holds(r, X \ {a})
  BY <1>3, <1>4, RemoveAny, Zenon
<1>6. q = QueueRemove(r, b)
  BY <1>2, <1>4, Zenon
<1>7. PICK Y : Y = X \ {a}
  BY Zenon
<1>8. Holds(q, Y \ {b})
  <2>1. Holds(r, Y)
    BY <1>5, <1>7, Zenon
  <2>2. Holds(QueueRemove(r, b), Y \ {b})
    BY <2>1, RemoveAny, ZenonT(30)
  <2> QED
    BY <1>6, <2>2, Zenon
<1>9. Range(q) = Y \ {b}
  BY <1>8, HoldsFacts, Zenon
<1>10. ASSUME NEW e \in Y \ {b}
       PROVE  e \in Events /\ [fd EXCEPT ![s] = 0][e[1]] = 1
  <2>1. e \in Events /\ fd[e[1]] = 1 /\ e # a /\ e # b
    BY <1>3, <1>7, Zenon
  <2>2. e[1] \in Slots /\ e[1] # s
    BY <1>2, <2>1, EventFacts, Zenon
  <2> QED
    BY <2>1, <2>2 DEF Flags
<1>11. Pending(q, [fd EXCEPT ![s] = 0])
  BY <1>8, <1>9, <1>10, Zenon DEF Pending
<1> QED
  BY <1>1, <1>7, <1>9, <1>11

(* ngx_post_event puts an event at the end.                                *)
LEMMA PendingAppend ==
  ASSUME NEW posted, NEW fd \in Flags, Pending(posted, fd), NEW e \in Events,
         fd[e[1]] = 1, e \notin Range(posted)
  PROVE  /\ Pending(Append(posted, e), fd)
         /\ Range(Append(posted, e)) = Range(posted) \union {e}
<1> DEFINE X == Range(posted)
           q == Append(posted, e)
<1>1. Holds(posted, X) /\ \A t \in X : t \in Events /\ fd[t[1]] = 1
  BY Zenon DEF Pending
<1> HIDE DEF X
<1>2. Holds(q, X \union {e})
  BY <1>1, AppendHolds, Zenon DEF X
<1> HIDE DEF q
<1>3. Range(q) = X \union {e}
  BY <1>2, HoldsFacts, Zenon
<1>4. \A t \in X \union {e} : t \in Events /\ fd[t[1]] = 1
  BY <1>1, Zenon
<1>5. Pending(q, fd)
  BY <1>2, <1>3, <1>4, Zenon DEF Pending
<1> QED
  BY <1>3, <1>5, Zenon DEF q, X

(* ngx_event_process_posted takes the first.                               *)
LEMMA PendingTail ==
  ASSUME NEW posted, NEW fd \in Flags, Pending(posted, fd), posted # << >>
  PROVE  Pending(Tail(posted), fd) /\ Range(Tail(posted)) \subseteq Range(posted)
<1> DEFINE X == Range(posted)
           q == Tail(posted)
<1>1. Holds(posted, X) /\ \A t \in X : t \in Events /\ fd[t[1]] = 1
  BY Zenon DEF Pending
<1> HIDE DEF X
<1>2. Holds(q, X \ {Head(posted)})
  BY <1>1, TailHolds, Zenon
<1> HIDE DEF q
<1>3. Range(q) = X \ {Head(posted)}
  BY <1>2, HoldsFacts, Zenon
<1>4. Range(q) \subseteq X
  BY <1>3, Zenon
<1>5. Pending(q, fd)
  BY <1>1, <1>2, <1>3, <1>4, Zenon DEF Pending
<1> QED
  BY <1>4, <1>5, Zenon DEF q, X

(* Opening a slot disturbs no posted event.                                *)
LEMMA PendingOpen ==
  ASSUME NEW posted, NEW fd \in Flags, Pending(posted, fd), NEW s \in Slots
  PROVE  Pending(posted, [fd EXCEPT ![s] = 1])
<1>1. ASSUME NEW e \in Events, fd[e[1]] = 1
      PROVE  [fd EXCEPT ![s] = 1][e[1]] = 1
  <2>1. e[1] \in Slots
    BY EventFacts, Zenon
  <2> QED
    BY <1>1, <2>1 DEF Flags
<1> QED
  BY <1>1, Zenon DEF Pending

-----------------------------------------------------------------------------
(* The pool is a record of sound parts.                                    *)
IsPool(p) ==
    p = [free |-> p.free, freeN |-> p.freeN, fd |-> p.fd, instance |-> p.instance,
         reusable |-> p.reusable, rq |-> p.rq, rn |-> p.rn, linger |-> p.linger,
         posted |-> p.posted]

Good(p) ==
    /\ IsPool(p)
    /\ p.fd \in Flags /\ p.instance \in Flags /\ p.reusable \in Flags /\ p.linger \in Flags
    /\ Stack(p.free, p.freeN, p.fd)
    /\ Idle(p.rq, p.rn, p.reusable, p.fd)
    /\ Pending(p.posted, p.fd)

(* What p became, p2, has no other posted events than p.                   *)
Kept(p, p2) == p2.instance = p.instance /\ Range(p2.posted) \subseteq Range(p.posted)

(* ngx_reusable_connection of an open connection.                          *)
Reused(p, s, r, p2) ==
    /\ Good(p2) /\ Kept(p, p2)
    /\ p2.free = p.free /\ p2.freeN = p.freeN /\ p2.fd = p.fd
    /\ p2.linger = p.linger /\ p2.posted = p.posted
    /\ p2.reusable = [p.reusable EXCEPT ![s] = r]

(* It keeps the pool sound.                                                *)
LEMMA ReusableGood ==
  ASSUME NEW p, Good(p), NEW s \in Slots, p.fd[s] = 1, NEW r, r \in {0, 1}
  PROVE  Reused(p, s, r, ReusableConnection(p, s, r))
<1> DEFINE p2 == ReusableConnection(p, s, r)
           q == IF p.reusable[s] = 1 THEN QueueRemove(p.rq, s) ELSE p.rq
           rq == IF r = 1 THEN <<s>> \o q ELSE q
           rn == (p.rn - p.reusable[s]) + r
           re == [p.reusable EXCEPT ![s] = r]
<1>1. p2 = [p EXCEPT !.rq = rq, !.rn = rn, !.reusable = re]
  BY Zenon DEF ReusableConnection
<1>2. Idle(p.rq, p.rn, p.reusable, p.fd) /\ p.fd \in Flags /\ p.reusable \in Flags
  BY Zenon DEF Good
<1>3. Idle(rq, rn, re, p.fd)
  BY <1>2, IdleSet, Zenon
<1>4. re \in Flags
  BY <1>2 DEF Flags
<1> HIDE DEF p2, q, rq, rn, re
<1>5. /\ p2.free = p.free /\ p2.freeN = p.freeN /\ p2.fd = p.fd
      /\ p2.linger = p.linger /\ p2.posted = p.posted /\ p2.instance = p.instance
      /\ p2.rq = rq /\ p2.rn = rn /\ p2.reusable = re /\ IsPool(p2)
  BY <1>1, Zenon DEF Good, IsPool
<1>6. Good(p2)
  BY <1>3, <1>4, <1>5, Zenon DEF Good
<1> QED
  BY <1>5, <1>6, Zenon DEF p2, re, Kept, Reused

(* ngx_close_connection.                                                   *)
LEMMA CloseGood ==
  ASSUME NEW p, Good(p), NEW s \in Slots, NEW p2, p2 = CloseConnection(p, s)
  PROVE  /\ Good(p2) /\ Kept(p, p2)
         /\ p.fd[s] = 1 => p2.freeN = p.freeN + 1
<1>1. CASE p.fd[s] = 0
  <2>1. p2 = p
    BY <1>1, Zenon DEF CloseConnection
  <2> QED
    BY <1>1, <2>1 DEF Kept
<1>2. CASE p.fd[s] = 1
  <2>1. PICK p1 : p1 = ReusableConnection(p, s, 0)
    BY Zenon
  <2>2. Reused(p, s, 0, p1)
    BY <1>2, <2>1, ReusableGood, Zenon
  <2>3. /\ Good(p1) /\ p1.free = p.free /\ p1.freeN = p.freeN /\ p1.fd = p.fd
        /\ p1.posted = p.posted /\ p1.instance = p.instance
        /\ p1.reusable = [p.reusable EXCEPT ![s] = 0]
    BY <2>2, Zenon DEF Reused, Kept
  <2> DEFINE fd == [p.fd EXCEPT ![s] = 0]
             free == <<s>> \o p.free
             n == p.freeN + 1
             posted == QueueRemove(QueueRemove(p.posted, <<s, "read">>), <<s, "write">>)
  <2>4. p2 = [[p1 EXCEPT !.free = <<s>> \o p1.free, !.freeN = p1.freeN + 1]
                EXCEPT !.fd = fd, !.posted = posted]
    <3>1. p.fd[s] # 0
      BY <1>2
    <3> QED
      BY <2>1, <3>1, Zenon DEF CloseConnection, FreeConnection
  <2>5. p.fd \in Flags /\ p.reusable \in Flags /\ Stack(p.free, p.freeN, p.fd)
    BY Zenon DEF Good
  <2>6. Stack(free, n, fd)
    BY <1>2, <2>5, StackPush, Zenon
  <2>7. Idle(p1.rq, p1.rn, p1.reusable, fd)
    <3>1. p1.reusable[s] = 0 /\ p1.reusable \in Flags
      BY <2>3, <2>5 DEF Flags
    <3>2. Idle(p1.rq, p1.rn, p1.reusable, p.fd)
      BY <2>3, Zenon DEF Good
    <3> QED
      BY <2>5, <3>1, <3>2, IdleFd, Zenon
  <2>8. Pending(posted, fd) /\ Range(posted) \subseteq Range(p.posted)
    BY <2>5, PendingClose, Zenon DEF Good
  <2>9. fd \in Flags
    BY <2>5 DEF Flags
  <2> HIDE DEF fd, free, n, posted
  <2>10. /\ p2.free = free /\ p2.freeN = n /\ p2.fd = fd /\ p2.posted = posted
         /\ p2.instance = p1.instance /\ p2.reusable = p1.reusable /\ p2.rq = p1.rq
         /\ p2.rn = p1.rn /\ p2.linger = p1.linger /\ IsPool(p2)
    <3>1. PICK p3 : p3 = [p1 EXCEPT !.free = free, !.freeN = n]
      BY Zenon
    <3>2. /\ p3.fd = p1.fd /\ p3.instance = p1.instance /\ p3.reusable = p1.reusable
          /\ p3.rq = p1.rq /\ p3.rn = p1.rn /\ p3.linger = p1.linger
          /\ p3.posted = p1.posted /\ p3.free = free /\ p3.freeN = n /\ IsPool(p3)
      BY <2>3, <3>1, Zenon DEF Good, IsPool
    <3>3. p2 = [p3 EXCEPT !.fd = fd, !.posted = posted]
      BY <2>3, <2>4, <3>1, Zenon DEF free, n
    <3> QED
      BY <3>2, <3>3, Zenon DEF IsPool
  <2>11. Good(p2)
    BY <2>3, <2>6, <2>7, <2>8, <2>9, <2>10, Zenon DEF Good
  <2> QED
    BY <2>3, <2>8, <2>10, <2>11, Zenon DEF Kept, n
<1>3. p.fd[s] \in {0, 1}
  BY DEF Good, Flags
<1> QED
  BY <1>1, <1>2, <1>3

(* A handler that finds c->close: it lingers once and stays idle, or the   *)
(* connection is free.                                                     *)
Lingered(p, s, p2) == /\ p.linger[s] = 0 /\ p2.linger[s] = 1 /\ p2.freeN = p.freeN
                      /\ p2.reusable[s] = 1 /\ p2.fd[s] = 1

(* Either way the pool stays sound.                                        *)
LEMMA HandlerGood ==
  ASSUME NEW p, Good(p), NEW s \in Slots, p.fd[s] = 1, NEW lingers
  PROVE  LET p2 == CloseHandler(p, s, lingers)
         IN  /\ Good(p2) /\ Kept(p, p2)
             /\ Lingered(p, s, p2) \/ p2.freeN = p.freeN + 1
<1> DEFINE p2 == CloseHandler(p, s, lingers)
           p1 == ReusableConnection(p, s, 1)
           li == [p.linger EXCEPT ![s] = 1]
<1>1. CASE lingers /\ p.linger[s] = 0
  <2>1. p2 = [p1 EXCEPT !.linger = li]
    BY <1>1, Zenon DEF CloseHandler
  <2>2. Reused(p, s, 1, p1)
    BY ReusableGood, Zenon
  <2>3. /\ Good(p1) /\ Kept(p, p1) /\ p1.freeN = p.freeN /\ p1.fd = p.fd
        /\ p1.reusable = [p.reusable EXCEPT ![s] = 1]
    BY <2>2, Zenon DEF Reused
  <2>4. li \in Flags /\ li[s] = 1
    BY DEF Good, Flags
  <2>5. p1.reusable[s] = 1
    BY <2>3 DEF Good, Flags
  <2> HIDE DEF p1, p2, li
  <2>6. /\ p2.free = p1.free /\ p2.freeN = p1.freeN /\ p2.fd = p1.fd /\ p2.posted = p1.posted
        /\ p2.instance = p1.instance /\ p2.reusable = p1.reusable /\ p2.rq = p1.rq
        /\ p2.rn = p1.rn /\ p2.linger = li /\ IsPool(p2)
    BY <2>1, <2>3, Zenon DEF Good, IsPool
  <2>7. Good(p2)
    BY <2>3, <2>4, <2>6, Zenon DEF Good
  <2>8. Kept(p, p2)
    BY <2>3, <2>6, Zenon DEF Kept
  <2>9. Lingered(p, s, p2)
    BY <1>1, <2>3, <2>4, <2>5, <2>6, Zenon DEF Lingered
  <2> QED
    BY <2>7, <2>8, <2>9 DEF p2
<1>2. CASE ~(lingers /\ p.linger[s] = 0)
  <2>1. p2 = CloseConnection(p, s)
    BY <1>2, Zenon DEF CloseHandler
  <2> HIDE DEF p2
  <2>2. Good(p2) /\ Kept(p, p2) /\ p2.freeN = p.freeN + 1
    BY <2>1, CloseGood, Zenon
  <2> QED
    BY <2>2, Zenon DEF p2
<1> QED
  BY <1>1, <1>2, Zenon

(* The counters are the lengths.                                           *)
LEMMA Counters ==
  ASSUME NEW p, Good(p)
  PROVE  /\ p.freeN \in Nat /\ (p.free = << >> <=> p.freeN = 0)
         /\ p.rn \in Nat /\ (p.rq = << >> <=> p.rn = 0)
<1>1. Stack(p.free, p.freeN, p.fd) /\ Idle(p.rq, p.rn, p.reusable, p.fd)
  BY Zenon DEF Good
<1>2. p.freeN = Len(p.free) /\ Len(p.free) \in Nat /\ (p.free = << >> <=> Len(p.free) = 0)
  BY <1>1, HoldsFacts, Zenon DEF Stack
<1>3. p.rn = Len(p.rq) /\ Len(p.rq) \in Nat /\ (p.rq = << >> <=> Len(p.rq) = 0)
  BY <1>1, HoldsFacts, Zenon DEF Idle
<1> QED
  BY <1>2, <1>3, Zenon

(* ngx_get_connection takes the slot on top of the stack.                  *)
LEMMA TakenGood ==
  ASSUME NEW p, Good(p), p.free # << >>
  PROVE  LET s  == Head(p.free)
             p2 == Taken(p, s)
         IN  /\ s \in Slots /\ p.fd[s] = 0 /\ Good(p2) /\ p2.posted = p.posted
             /\ p2.instance = [p.instance EXCEPT ![s] = 1 - p.instance[s]]
<1> DEFINE s  == Head(p.free)
           p2 == Taken(p, s)
           fd == [p.fd EXCEPT ![s] = 1]
           li == [p.linger EXCEPT ![s] = 0]
           re == [p.reusable EXCEPT ![s] = 0]
           in == [p.instance EXCEPT ![s] = 1 - p.instance[s]]
           free == Tail(p.free)
           n == p.freeN - 1
<1>1. /\ p.fd \in Flags /\ p.linger \in Flags /\ p.reusable \in Flags /\ p.instance \in Flags
      /\ Stack(p.free, p.freeN, p.fd) /\ Idle(p.rq, p.rn, p.reusable, p.fd)
      /\ Pending(p.posted, p.fd)
  BY Zenon DEF Good
<1>2. s \in Slots /\ p.fd[s] = 0 /\ Stack(free, n, fd)
  BY <1>1, StackPop, Zenon
<1> HIDE DEF s
<1>3. p2 = [[p EXCEPT !.free = free, !.freeN = n, !.fd = fd, !.linger = li, !.reusable = re]
              EXCEPT !.instance = in]
  BY Zenon DEF Taken, Opened
<1>4. fd \in Flags /\ li \in Flags /\ re \in Flags /\ in \in Flags
  BY <1>1, <1>2 DEF Flags
<1>5. p.reusable[s] = 0 /\ re = p.reusable
  BY <1>1, <1>2 DEF Idle, Flags
<1>6. Idle(p.rq, p.rn, re, fd)
  <2>1. Idle(p.rq, p.rn, p.reusable, fd)
    BY <1>1, <1>2, <1>5, IdleFd, Zenon
  <2> QED
    BY <1>5, <2>1, Zenon
<1>7. Pending(p.posted, fd)
  BY <1>1, <1>2, PendingOpen, Zenon
<1> HIDE DEF p2, fd, li, re, in, free, n
<1>8. /\ p2.free = free /\ p2.freeN = n /\ p2.fd = fd /\ p2.posted = p.posted
      /\ p2.instance = in /\ p2.reusable = re /\ p2.rq = p.rq /\ p2.rn = p.rn
      /\ p2.linger = li /\ IsPool(p2)
  <2>1. PICK p1 :
           p1 = [p EXCEPT !.free = free, !.freeN = n, !.fd = fd, !.linger = li, !.reusable = re]
    BY Zenon
  <2>2. /\ p1.free = free /\ p1.freeN = n /\ p1.fd = fd /\ p1.posted = p.posted
        /\ p1.reusable = re /\ p1.rq = p.rq /\ p1.rn = p.rn /\ p1.linger = li /\ IsPool(p1)
    BY <2>1, Zenon DEF Good, IsPool
  <2>3. p2 = [p1 EXCEPT !.instance = in]
    BY <1>3, <2>1, Zenon
  <2> QED
    BY <2>2, <2>3, Zenon DEF IsPool
<1>9. Good(p2)
  BY <1>2, <1>4, <1>6, <1>7, <1>8, Zenon DEF Good
<1> QED
  BY <1>2, <1>8, <1>9, Zenon DEF s, p2, in

-----------------------------------------------------------------------------
(* The inductive invariant: the pool is sound; a posted event is about the *)
(* connection that is open; instance is the parity of the openings, in the *)
(* slots and in the events reported; a refusal is told to a handler.       *)
(* DrainInv is about ngx_get_connection: while none is free, the next turn *)
(* finds an idle connection, or the last one found lingers and is idle.    *)
Stamped == {e \in Entries : e.inst = (1 + e.born) % 2}

Types ==
    /\ born \in [Slots -> Nat] /\ pborn \in [Events -> Nat]
    /\ pc \in {"wait", "events", "posted", "handler", "drain", "take"}
    /\ ret \in {"events", "posted"} /\ leg \in {"read", "write"} /\ posts \in {0, 1}
    /\ turns \in 0..ReuseMax /\ last \in Slots \union {NoSlot}
    /\ refused \in {0, 1} /\ spare \in {0, 1}

PostedInv == \A e \in Range(pool.posted) : pborn[e] = born[e[1]]

InstanceInv ==
    /\ \A s \in Slots : pool.instance[s] = (1 + born[s]) % 2
    /\ batch \in Seq(Stamped)

RefusedInv == refused = 1 => pc = "handler"

Lingering(p, s) ==
    s \in Slots /\ p.fd[s] = 1 /\ p.reusable[s] = 1 /\ p.linger[s] = 1

DrainInv ==
    /\ pc = "drain" /\ pool.free = << >> => (turns # 0 /\ pool.rq # << >>) \/ Lingering(pool, last)
    /\ pc = "take" /\ spare = 1 => pool.free # << >>

ConnInv == Good(pool) /\ Types /\ PostedInv /\ InstanceInv /\ RefusedInv /\ DrainInv

(* ngx_event_process_init puts all connections on the stack.               *)
LEMMA InitInv == Init => ConnInv
<1> SUFFICES ASSUME Init PROVE ConnInv
  OBVIOUS
<1>1. PICK f \in Orders(Slots) :
         pool = [free |-> f, freeN |-> Cardinality(Slots),
                 fd |-> [s \in Slots |-> 0], instance |-> [s \in Slots |-> 1],
                 reusable |-> [s \in Slots |-> 0], rq |-> << >>, rn |-> 0,
                 linger |-> [s \in Slots |-> 0], posted |-> << >>]
  BY Zenon DEF Init
<1>2. /\ pool.free = f /\ pool.freeN = Cardinality(Slots) /\ pool.fd = [s \in Slots |-> 0]
      /\ pool.instance = [s \in Slots |-> 1] /\ pool.reusable = [s \in Slots |-> 0]
      /\ pool.rq = << >> /\ pool.rn = 0 /\ pool.linger = [s \in Slots |-> 0]
      /\ pool.posted = << >>
  BY <1>1
<1>3. IsPool(pool)
  BY <1>1 DEF IsPool
<1>4. Holds(f, Slots) /\ Len(f) = Cardinality(Slots)
  BY SlotsAssumption, OrderHolds, Zenon
<1>5. Stack(pool.free, pool.freeN, pool.fd)
  <2>1. {s \in Slots : pool.fd[s] = 0} = Slots
    BY <1>2
  <2> QED
    BY <1>2, <1>4, <2>1, Zenon DEF Stack
<1>6. Holds(<< >>, {})
  BY DEF Holds
<1>7. Idle(pool.rq, pool.rn, pool.reusable, pool.fd)
  <2>1. {s \in Slots : pool.reusable[s] = 1} = {} /\ Len(<< >>) = 0
    BY <1>2
  <2>2. \A s \in Slots : pool.reusable[s] = 1 => pool.fd[s] = 1
    BY <1>2
  <2> QED
    BY <1>2, <1>6, <2>1, <2>2, Zenon DEF Idle
<1>8. Range(pool.posted) = {}
  BY <1>2, <1>6, HoldsFacts, Zenon
<1>9. Pending(pool.posted, pool.fd)
  BY <1>2, <1>6, <1>8, Zenon DEF Pending
<1>10. /\ pool.fd \in Flags /\ pool.instance \in Flags
       /\ pool.reusable \in Flags /\ pool.linger \in Flags
  BY <1>2 DEF Flags
<1>11. Good(pool)
  BY <1>3, <1>5, <1>7, <1>9, <1>10, Zenon DEF Good
<1>12. Types /\ RefusedInv /\ DrainInv
  BY SlotsAssumption DEF Init, Types, RefusedInv, DrainInv
<1>13. PostedInv
  BY <1>8 DEF PostedInv
<1>14. InstanceInv
  <2>1. \A s \in Slots : born[s] = 0 /\ pool.instance[s] = 1
    BY <1>2 DEF Init
  <2>2. (1 + 0) % 2 = 1
    OBVIOUS
  <2>3. batch \in Seq(Stamped)
    BY DEF Init
  <2> QED
    BY <2>1, <2>2, <2>3 DEF InstanceInv
<1> QED
  BY <1>11, <1>12, <1>13, <1>14 DEF ConnInv

-----------------------------------------------------------------------------
(* epoll_wait stamps the events it reports with the bit of their slot.     *)
LEMMA WaitStep ==
  ASSUME ConnInv, EpollWait
  PROVE  ConnInv'
<1>1. PICK S \in SUBSET {s \in Slots : pool.fd[s] = 1} : \E q \in Orders(S) :
          batch' = [i \in DOMAIN q |->
                      [slot |-> q[i], inst |-> pool.instance[q[i]], born |-> born[q[i]]]]
  BY Zenon DEF EpollWait
<1>2. PICK q \in Orders(S) :
          batch' = [i \in DOMAIN q |->
                      [slot |-> q[i], inst |-> pool.instance[q[i]], born |-> born[q[i]]]]
  BY <1>1, Zenon
<1>3. S \in SUBSET Slots
  BY <1>1
<1>4. Holds(q, S)
  BY <1>3, SlotsAssumption, FS_Subset, OrderHolds, Zenon
<1>5. PICK n \in Nat : DOMAIN q = 1..n /\ \A i \in 1..n : q[i] \in Slots
  <2>1. q \in Seq(S)
    BY <1>4, Zenon DEF Holds
  <2> QED
    BY <1>3, <2>1, SeqFacts
<1>6. \A s \in Slots :
        [slot |-> s, inst |-> pool.instance[s], born |-> born[s]] \in Stamped
  <2> TAKE s \in Slots
  <2>1. pool.instance[s] \in {0, 1} /\ pool.instance[s] = (1 + born[s]) % 2
    BY DEF ConnInv, Good, Flags, InstanceInv
  <2>2. born[s] \in Nat
    BY DEF ConnInv, Types
  <2> QED
    BY <2>1, <2>2 DEF Stamped, Entries
<1>7. batch' \in Seq(Stamped)
  <2> PICK b : b = batch'
    BY Zenon
  <2>1. b = [i \in 1..n |->
               [slot |-> q[i], inst |-> pool.instance[q[i]], born |-> born[q[i]]]]
    BY <1>2, <1>5, Zenon
  <2>2. b \in [1..n -> Stamped]
    BY <1>5, <1>6, <2>1, Zenon
  <2>3. b \in Seq(Stamped)
    BY <2>2
  <2> QED
    BY <2>3
<1>8. /\ UNCHANGED <<pool, born, pborn, ret, turns, last, spare, refused>>
      /\ pc = "wait" /\ pc' = "events" /\ leg' = "read" /\ posts' \in {0, 1}
  BY Zenon DEF EpollWait, drain
<1>9. Good(pool)' /\ PostedInv'
  BY <1>8, Zenon DEF ConnInv, PostedInv
<1>10. Types' /\ RefusedInv' /\ DrainInv'
  BY <1>8 DEF ConnInv, Types, RefusedInv, DrainInv
<1>11. InstanceInv'
  BY <1>7, <1>8, Zenon DEF ConnInv, InstanceInv
<1> QED
  BY <1>9, <1>10, <1>11 DEF ConnInv

(* The loop over the events and the turns that leave the pool alone.       *)
LEMMA BatchFacts ==
  ASSUME batch \in Seq(Stamped), batch # << >>
  PROVE  Head(batch) \in Stamped /\ Tail(batch) \in Seq(Stamped)
  OBVIOUS

(* The next event, of the same entry or of the next one.                   *)
LEMMA NextLegFacts ==
  ASSUME batch \in Seq(Stamped), batch # << >>, leg \in {"read", "write"}, NextLeg
  PROVE  batch' \in Seq(Stamped) /\ leg' \in {"read", "write"}
<1>1. CASE leg = "read"
  BY <1>1 DEF NextLeg
<1>2. CASE leg # "read"
  <2>1. batch' = Tail(batch) /\ leg' = "read"
    BY <1>2, Zenon DEF NextLeg
  <2>2. Tail(batch) \in Seq(Stamped)
    BY BatchFacts, Zenon
  <2> QED
    BY <2>1, <2>2
<1> QED
  BY <1>1, <1>2

(* No event, or one that is only handed to its handler.                    *)
LEMMA QuietStep ==
  ASSUME ConnInv, SkipEntry \/ PassEvent \/ HandleEvent \/ OtherEvent \/ EventsDone \/ Return
  PROVE  ConnInv'
<1>1. UNCHANGED <<pool, born, pborn, posts, turns, last, spare>>
  BY Zenon DEF SkipEntry, PassEvent, HandleEvent, OtherEvent, EventsDone, Return, drain, loop
<1>2. Good(pool)' /\ PostedInv'
  BY <1>1, Zenon DEF ConnInv, PostedInv
<1>3. Types /\ RefusedInv /\ batch \in Seq(Stamped) /\ leg \in {"read", "write"}
  BY Zenon DEF ConnInv, InstanceInv, Types
<1>4. batch' \in Seq(Stamped) /\ leg' \in {"read", "write"}
  <2>1. CASE SkipEntry
    <3>1. batch # << >> /\ batch' = Tail(batch) /\ leg' = "read"
      BY <2>1, Zenon DEF SkipEntry, Looking
    <3> QED
      BY <1>3, <3>1, BatchFacts
  <2>2. CASE PassEvent \/ HandleEvent
    <3>1. batch # << >> /\ NextLeg
      BY <2>2, Zenon DEF PassEvent, HandleEvent, Looking
    <3> QED
      BY <1>3, <3>1, NextLegFacts, Zenon
  <2>3. CASE OtherEvent \/ EventsDone \/ Return
    <3>1. batch' = batch /\ leg' = leg
      BY <2>3, Zenon DEF OtherEvent, EventsDone, Return, loop
    <3> QED
      BY <1>3, <3>1, Zenon
  <2> QED
    BY <2>1, <2>2, <2>3
<1>5. InstanceInv'
  BY <1>1, <1>4, Zenon DEF ConnInv, InstanceInv
<1>6. /\ ret' \in {"events", "posted"} /\ pc' \in {"events", "posted", "handler"}
      /\ refused' \in {0, 1} /\ (refused' = 1 => pc' = "handler")
  <2>1. CASE SkipEntry \/ PassEvent
    BY <1>3, <2>1 DEF SkipEntry, PassEvent, Looking, Types, RefusedInv
  <2>2. CASE HandleEvent \/ OtherEvent
    BY <1>3, <2>2 DEF HandleEvent, OtherEvent, Looking, Types, RefusedInv
  <2>3. CASE EventsDone \/ Return
    BY <1>3, <2>3 DEF EventsDone, Return, Types, RefusedInv, loop
  <2> QED
    BY <2>1, <2>2, <2>3
<1>7. Types' /\ RefusedInv' /\ DrainInv'
  BY <1>1, <1>3, <1>4, <1>6 DEF Types, RefusedInv, DrainInv
<1> QED
  BY <1>2, <1>5, <1>7 DEF ConnInv

(* ngx_post_event of an open connection.                                   *)
LEMMA PostStep ==
  ASSUME ConnInv, NEW e \in Events, pool.fd[e[1]] = 1, PostEvent(e), born' = born
  PROVE  /\ Good(pool)' /\ PostedInv' /\ pool'.instance = pool.instance
         /\ pborn' \in [Events -> Nat]
<1>1. Good(pool) /\ PostedInv /\ pborn \in [Events -> Nat] /\ born \in [Slots -> Nat]
  BY DEF ConnInv, Types
<1>2. CASE e \in Range(pool.posted)
  <2>1. pool' = pool /\ pborn' = pborn
    BY <1>2, Zenon DEF PostEvent
  <2> QED
    BY <1>1, <2>1, Zenon DEF PostedInv
<1>3. CASE e \notin Range(pool.posted)
  <2> DEFINE q == Append(pool.posted, e)
  <2>1. pool' = [pool EXCEPT !.posted = q] /\ pborn' = [pborn EXCEPT ![e] = born[e[1]]]
    BY <1>3, Zenon DEF PostEvent
  <2>2. pool.fd \in Flags /\ Pending(pool.posted, pool.fd)
    BY <1>1, Zenon DEF Good
  <2>3. Pending(q, pool.fd) /\ Range(q) = Range(pool.posted) \union {e}
    BY <1>3, <2>2, PendingAppend, Zenon
  <2> HIDE DEF q
  <2>4. PICK p2 : p2 = pool'
    BY Zenon
  <2>5. /\ p2.free = pool.free /\ p2.freeN = pool.freeN /\ p2.fd = pool.fd
        /\ p2.posted = q /\ p2.instance = pool.instance /\ p2.reusable = pool.reusable
        /\ p2.rq = pool.rq /\ p2.rn = pool.rn /\ p2.linger = pool.linger /\ IsPool(p2)
    BY <1>1, <2>1, <2>4, Zenon DEF Good, IsPool
  <2>6. Good(p2)
    BY <1>1, <2>3, <2>5, Zenon DEF Good
  <2>7. \A t \in Range(q) : pborn'[t] = born[t[1]]
    <3> TAKE t \in Range(q)
    <3>1. t \in Events /\ (t = e \/ t \in Range(pool.posted))
      BY <2>2, <2>3, Zenon DEF Pending
    <3>2. t \in Range(pool.posted) => pborn[t] = born[t[1]]
      BY <1>1, Zenon DEF PostedInv
    <3> QED
      BY <1>1, <2>1, <3>1, <3>2, Zenon
  <2>8. pborn' \in [Events -> Nat]
    <3>1. e[1] \in Slots
      BY DEF Events
    <3>2. born[e[1]] \in Nat
      BY <1>1, <3>1
    <3> QED
      BY <1>1, <2>1, <3>2, Zenon
  <2> QED
    BY <2>4, <2>5, <2>6, <2>7, <2>8, Zenon DEF PostedInv
<1> QED
  BY <1>2, <1>3

(* A step that replaces the pool by a sound one with no new posted events. *)
LEMMA PoolStep ==
  ASSUME ConnInv, Good(pool'), Kept(pool, pool'), UNCHANGED <<born, pborn>>,
         batch' \in Seq(Stamped)
  PROVE  Good(pool)' /\ PostedInv' /\ InstanceInv'
<1>1. PostedInv'
  BY Zenon DEF ConnInv, PostedInv, Kept
<1>2. InstanceInv'
  BY Zenon DEF ConnInv, InstanceInv, Kept
<1> QED
  BY <1>1, <1>2

(* A good event is posted (NGX_POST_EVENTS).                               *)
LEMMA DeferStep ==
  ASSUME ConnInv, DeferEvent
  PROVE  ConnInv'
<1>1. /\ batch \in Seq(Stamped) /\ batch # << >> /\ ~Stale(Head(batch))
      /\ leg \in {"read", "write"} /\ pc = "events" /\ NextLeg
  BY Zenon DEF ConnInv, InstanceInv, Types, DeferEvent, Looking
<1>2. Head(batch) \in Stamped
  BY <1>1, BatchFacts, Zenon
<1>3. PICK s : s = Head(batch).slot
  BY Zenon
<1>4. s \in Slots
  BY <1>2, <1>3 DEF Stamped, Entries
<1>5. pool.fd[s] = 1
  <2>1. pool.fd[s] # 0
    BY <1>1, <1>3, Zenon DEF Stale
  <2>2. pool.fd \in Flags
    BY Zenon DEF ConnInv, Good
  <2> QED
    BY <1>4, <2>1, <2>2 DEF Flags
<1>6. /\ PostEvent(<<s, leg>>)
      /\ UNCHANGED <<born, pc, ret, posts, turns, last, spare, refused>>
  BY <1>3, Zenon DEF DeferEvent, drain
<1>7. <<s, leg>> \in Events /\ <<s, leg>>[1] = s
  BY <1>1, <1>4 DEF Events
<1>8. /\ Good(pool)' /\ PostedInv' /\ pool'.instance = pool.instance
      /\ pborn' \in [Events -> Nat]
  <2>1. pool.fd[<<s, leg>>[1]] = 1
    BY <1>5, <1>7, Zenon
  <2> QED
    BY <1>6, <1>7, <2>1, PostStep, Zenon
<1>9. batch' \in Seq(Stamped) /\ leg' \in {"read", "write"}
  BY <1>1, NextLegFacts, Zenon
<1>10. InstanceInv'
  BY <1>6, <1>8, <1>9, Zenon DEF ConnInv, InstanceInv
<1>11. Types' /\ RefusedInv'
  BY <1>6, <1>8, <1>9, Zenon DEF ConnInv, Types, RefusedInv
<1>12. DrainInv'
  BY <1>1, <1>6 DEF DrainInv
<1> QED
  BY <1>8, <1>10, <1>11, <1>12, Zenon DEF ConnInv

(* ngx_event_process_posted.                                               *)
LEMMA PostedStep ==
  ASSUME ConnInv, ProcessPosted
  PROVE  ConnInv'
<1>1. /\ UNCHANGED <<born, pborn, batch, leg, posts, turns, last, spare, refused>>
      /\ pc = "posted"
  BY Zenon DEF ProcessPosted, drain
<1>2. Good(pool) /\ Types /\ RefusedInv /\ batch \in Seq(Stamped)
  BY Zenon DEF ConnInv, InstanceInv
<1>3. refused # 1
  BY <1>1, <1>2 DEF RefusedInv
<1>4. CASE pool.posted = << >>
  <2>1. pc' = "wait" /\ UNCHANGED <<pool, ret>>
    BY <1>4, Zenon DEF ProcessPosted
  <2>2. Types' /\ RefusedInv' /\ DrainInv'
    BY <1>1, <1>2, <1>3, <2>1 DEF Types, RefusedInv, DrainInv
  <2> QED
    BY <1>1, <2>1, <2>2, Zenon DEF ConnInv, PostedInv, InstanceInv
<1>5. CASE pool.posted # << >>
  <2> DEFINE q == Tail(pool.posted)
  <2>1. pool' = [pool EXCEPT !.posted = q] /\ pc' = "handler" /\ ret' = "posted"
    BY <1>5, Zenon DEF ProcessPosted
  <2>2. pool.fd \in Flags /\ Pending(pool.posted, pool.fd)
    BY <1>2, Zenon DEF Good
  <2>3. Pending(q, pool.fd) /\ Range(q) \subseteq Range(pool.posted)
    BY <1>5, <2>2, PendingTail, Zenon
  <2> HIDE DEF q
  <2>4. PICK p2 : p2 = pool'
    BY Zenon
  <2>5. /\ p2.free = pool.free /\ p2.freeN = pool.freeN /\ p2.fd = pool.fd
        /\ p2.posted = q /\ p2.instance = pool.instance /\ p2.reusable = pool.reusable
        /\ p2.rq = pool.rq /\ p2.rn = pool.rn /\ p2.linger = pool.linger /\ IsPool(p2)
    BY <1>2, <2>1, <2>4, Zenon DEF Good, IsPool
  <2>6. Good(p2) /\ Kept(pool, p2)
    BY <1>2, <2>3, <2>5, Zenon DEF Good, Kept
  <2>7. Good(pool)' /\ PostedInv' /\ InstanceInv'
    BY <1>1, <1>2, <2>4, <2>6, PoolStep, Zenon
  <2>8. Types' /\ RefusedInv' /\ DrainInv'
    BY <1>1, <1>2, <2>1 DEF Types, RefusedInv, DrainInv
  <2> QED
    BY <2>7, <2>8, Zenon DEF ConnInv
<1> QED
  BY <1>4, <1>5

-----------------------------------------------------------------------------
(* What a handler does.  The number of turns is 1 at least, and what is    *)
(* enough is more than none.                                               *)
LEMMA TurnsFacts ==
  ASSUME Good(pool)
  PROVE  /\ Turns \in 1..ReuseMax
         /\ Enough => pool.freeN # 0 \/ pool.rn = 0
         /\ ~Enough => pool.rn # 0
<1>1. pool.freeN \in Nat /\ pool.rn \in Nat
  BY Counters, Zenon
<1>2. /\ FreeShare \in Nat \ {0} /\ ReuseShare \in Nat \ {0} /\ ReuseMax \in Nat \ {0}
      /\ Cardinality(Slots) \in Nat
  BY SlotsAssumption, FS_CardinalityType
<1>3. \A a \in Nat, b \in Nat \ {0} : a \div b \in Nat
  OBVIOUS
<1>4. pool.rn \div ReuseShare \in Nat /\ Cardinality(Slots) \div FreeShare \in Nat
  BY <1>1, <1>2, <1>3, Zenon
<1>5. Turns \in 1..ReuseMax
  BY <1>2, <1>4 DEF Turns
<1>6. Enough => pool.freeN # 0 \/ pool.rn = 0
  BY <1>1, <1>4 DEF Enough
<1> QED
  BY <1>5, <1>6, Zenon DEF Enough

(* ngx_get_connection is called.                                           *)
LEMMA GetStep ==
  ASSUME ConnInv, GetConnection
  PROVE  ConnInv'
<1>1. UNCHANGED <<pool, born, pborn, batch, leg, posts, ret>> /\ last' = NoSlot /\ refused' = 0
  BY Zenon DEF GetConnection, loop
<1>2. Good(pool) /\ Types /\ PostedInv /\ InstanceInv
  BY Zenon DEF ConnInv
<1>3. /\ pool.free = << >> <=> pool.freeN = 0
      /\ pool.rq = << >> <=> pool.rn = 0
  BY <1>2, Counters, Zenon
<1>4. /\ Turns \in 1..ReuseMax
      /\ Enough => pool.freeN # 0 \/ pool.rn = 0
      /\ ~Enough => pool.rn # 0
  BY <1>2, TurnsFacts, Zenon
<1>5. spare' = IF pool.free = << >> /\ pool.rq = << >> THEN 0 ELSE 1
  BY Zenon DEF GetConnection
<1>6. CASE Enough
  <2>1. pc' = "take" /\ turns' = 0
    BY <1>6, Zenon DEF GetConnection
  <2>2. spare' = 1 => pool.free # << >>
    BY <1>3, <1>4, <1>5, <1>6
  <2>3. DrainInv' /\ RefusedInv'
    BY <1>1, <2>1, <2>2 DEF DrainInv, RefusedInv
  <2>4. Types'
    BY <1>1, <1>2, <1>5, <2>1, SlotsAssumption DEF Types
  <2> QED
    BY <1>1, <1>2, <2>3, <2>4, Zenon DEF ConnInv, PostedInv, InstanceInv
<1>7. CASE ~Enough
  <2>1. pc' = "drain" /\ turns' = Turns
    BY <1>7, Zenon DEF GetConnection
  <2>2. turns' # 0 /\ turns' \in 0..ReuseMax
    BY <1>4, <2>1
  <2>3. DrainInv' /\ RefusedInv'
    BY <1>1, <1>3, <1>4, <1>7, <2>1, <2>2 DEF DrainInv, RefusedInv
  <2>4. Types'
    BY <1>1, <1>2, <1>5, <2>1, <2>2 DEF Types
  <2> QED
    BY <1>1, <1>2, <2>3, <2>4, Zenon DEF ConnInv, PostedInv, InstanceInv
<1> QED
  BY <1>6, <1>7

(* A turn of ngx_drain_connections: the connection it finds is closed, or  *)
(* it lingers.                                                             *)
LEMMA TurnStep ==
  ASSUME ConnInv, NEW lingers, DrainTurn(lingers)
  PROVE  ConnInv'
<1>1. /\ UNCHANGED <<born, pborn, batch, leg, posts, ret, pc, spare, refused>>
      /\ pc = "drain" /\ turns > 0 /\ pool.rq # << >> /\ turns' = turns - 1
      /\ last' = pool.rq[Len(pool.rq)] /\ pool' = CloseHandler(pool, last', lingers)
  BY DEF DrainTurn, loop
<1>2. Good(pool) /\ Types /\ RefusedInv /\ batch \in Seq(Stamped)
  BY Zenon DEF ConnInv, InstanceInv
<1>3. PICK c : c = last'
  BY Zenon
<1>4. c \in Slots /\ pool.fd[c] = 1
  <2>1. pool.reusable \in Flags /\ pool.fd \in Flags
         /\ Idle(pool.rq, pool.rn, pool.reusable, pool.fd)
    BY <1>2, Zenon DEF Good
  <2>2. pool.rn # 0
    BY <1>1, <1>2, Counters, Zenon
  <2> QED
    BY <1>1, <1>3, <2>1, <2>2, IdleLast, Zenon
<1>5. PICK p2 : p2 = pool'
  BY Zenon
<1>6. Good(p2) /\ Kept(pool, p2) /\ (Lingered(pool, c, p2) \/ p2.freeN = pool.freeN + 1)
  BY <1>1, <1>2, <1>3, <1>4, <1>5, HandlerGood, Zenon
<1>7. Good(pool)' /\ PostedInv' /\ InstanceInv'
  BY <1>1, <1>2, <1>5, <1>6, PoolStep, Zenon
<1>8. Types' /\ RefusedInv'
  <2>1. turns' \in 0..ReuseMax
    BY <1>1, <1>2, SlotsAssumption DEF Types
  <2>2. last' \in Slots \union {NoSlot}
    BY <1>3, <1>4, Zenon
  <2> QED
    BY <1>1, <1>2, <2>1, <2>2, Zenon DEF Types, RefusedInv
<1>9. p2.free = << >> => Lingering(p2, c)
  <2>1. Lingered(pool, c, p2) => Lingering(p2, c)
    BY <1>4, Zenon DEF Lingered, Lingering
  <2>2. pool.freeN \in Nat /\ (p2.free = << >> => p2.freeN = 0)
    BY <1>2, <1>6, Counters, Zenon
  <2>3. p2.freeN = pool.freeN + 1 => p2.free # << >>
    BY <2>2
  <2> QED
    BY <1>6, <2>1, <2>3, Zenon
<1>10. DrainInv'
  <2>1. pc' # "take"
    BY <1>1
  <2> QED
    BY <1>3, <1>5, <1>9, <2>1, Zenon DEF DrainInv
<1> QED
  BY <1>7, <1>8, <1>10, Zenon DEF ConnInv

(* The end of ngx_drain_connections: a connection that lingers is closed   *)
(* by the second call of its handler, so that one is free.                 *)
LEMMA EndsStep ==
  ASSUME ConnInv, NEW lingers, DrainEnds(lingers)
  PROVE  ConnInv'
<1>1. /\ UNCHANGED <<born, pborn, batch, leg, posts, ret, turns, last, spare, refused>>
      /\ pc = "drain" /\ (turns = 0 \/ pool.rq = << >>) /\ pc' = "take"
  BY Zenon DEF DrainEnds, loop, drain
<1>2. Good(pool) /\ Types /\ RefusedInv /\ DrainInv /\ batch \in Seq(Stamped)
  BY Zenon DEF ConnInv, InstanceInv
<1>3. /\ pool.freeN \in Nat /\ (pool.free = << >> <=> pool.freeN = 0)
  BY <1>2, Counters, Zenon
<1>4. PICK p2 : p2 = pool'
  BY Zenon
<1>5. p2 = IF pool.freeN = 0 /\ last # NoSlot /\ pool.reusable[last] = 1
           THEN CloseHandler(pool, last, lingers) ELSE pool
  BY <1>4, Zenon DEF DrainEnds
<1>6. Good(p2) /\ Kept(pool, p2) /\ p2.free # << >>
  <2>1. CASE pool.free = << >>
    <3>1. Lingering(pool, last) /\ pool.freeN = 0
      BY <1>1, <1>2, <1>3, <2>1, Zenon DEF DrainInv
    <3>2. last \in Slots /\ pool.fd[last] = 1 /\ pool.reusable[last] = 1 /\ pool.linger[last] = 1
      BY <3>1, Zenon DEF Lingering
    <3>3. p2 = CloseHandler(pool, last, lingers)
      BY <1>5, <3>1, <3>2, SlotsAssumption, Zenon
    <3>4. Good(p2) /\ Kept(pool, p2) /\ (Lingered(pool, last, p2) \/ p2.freeN = pool.freeN + 1)
      BY <1>2, <3>2, <3>3, HandlerGood, Zenon
    <3>5. ~Lingered(pool, last, p2)
      BY <3>2 DEF Lingered
    <3>6. p2.freeN # 0
      BY <3>1, <3>4, <3>5
    <3> QED
      BY <3>4, <3>6, Counters, Zenon
  <2>2. CASE pool.free # << >>
    <3>1. p2 = pool
      BY <1>3, <1>5, <2>2, Zenon
    <3> QED
      BY <1>2, <2>2, <3>1 DEF Kept
  <2> QED
    BY <2>1, <2>2
<1>7. Good(pool)' /\ PostedInv' /\ InstanceInv'
  BY <1>1, <1>2, <1>4, <1>6, PoolStep, Zenon
<1>8. Types' /\ RefusedInv'
  BY <1>1, <1>2 DEF Types, RefusedInv
<1>9. DrainInv'
  BY <1>1, <1>4, <1>6 DEF DrainInv
<1> QED
  BY <1>7, <1>8, <1>9, Zenon DEF ConnInv

(* The rest of ngx_get_connection.                                         *)
LEMMA TakeStep ==
  ASSUME ConnInv, TakeFree
  PROVE  ConnInv' /\ (refused' = 1 => spare = 0)
<1>1. /\ UNCHANGED <<pborn, batch, leg, posts, ret>> /\ pc = "take" /\ pc' = "handler"
      /\ turns' = 0 /\ last' = NoSlot /\ spare' = 0
  BY Zenon DEF TakeFree, loop
<1>2. /\ Good(pool) /\ Types /\ RefusedInv /\ PostedInv /\ InstanceInv /\ DrainInv
      /\ batch \in Seq(Stamped)
  BY Zenon DEF ConnInv, InstanceInv
<1>3. RefusedInv' /\ DrainInv'
  BY <1>1 DEF RefusedInv, DrainInv
<1>4. CASE pool.free = << >>
  <2>1. refused' = 1 /\ pool' = pool /\ born' = born
    BY <1>4, Zenon DEF TakeFree
  <2>2. Types'
    BY <1>1, <1>2, <2>1, SlotsAssumption DEF Types
  <2>3. spare = 0
    BY <1>1, <1>2, <1>4 DEF DrainInv, Types
  <2> QED
    BY <1>1, <1>2, <1>3, <2>1, <2>2, <2>3, Zenon DEF ConnInv, PostedInv, InstanceInv
<1>5. CASE pool.free # << >>
  <2>1. PICK s : s = Head(pool.free)
    BY Zenon
  <2>2. refused' = 0 /\ pool' = Taken(pool, s) /\ born' = [born EXCEPT ![s] = born[s] + 1]
    BY <1>5, <2>1, Zenon DEF TakeFree
  <2>3. /\ s \in Slots /\ pool.fd[s] = 0 /\ Good(pool') /\ pool'.posted = pool.posted
        /\ pool'.instance = [pool.instance EXCEPT ![s] = 1 - pool.instance[s]]
    BY <1>2, <1>5, <2>1, <2>2, TakenGood, Zenon
  <2>4. born \in [Slots -> Nat] /\ pool.instance \in Flags
    BY <1>2 DEF Types, Good
  <2>5. Types'
    <3>1. born' \in [Slots -> Nat]
      BY <2>2, <2>3, <2>4
    <3>2. refused' \in {0, 1} /\ turns' \in 0..ReuseMax /\ spare' \in {0, 1}
      BY <1>1, <2>2, SlotsAssumption
    <3>3. pc' \in {"wait", "events", "posted", "handler", "drain", "take"}
      BY <1>1
    <3> QED
      BY <1>1, <1>2, <3>1, <3>2, <3>3, Zenon DEF Types
  <2>6. PostedInv'
    <3>1. \A e \in Range(pool.posted) : e \in Events /\ pool.fd[e[1]] = 1
      BY <1>2, Zenon DEF Good, Pending
    <3>2. ASSUME NEW e \in Range(pool.posted)
          PROVE  born'[e[1]] = born[e[1]]
      <4>1. e[1] \in Slots
        BY <2>3, <3>1, EventFacts, Zenon
      <4>2. e[1] # s
        BY <2>3, <3>1
      <4> QED
        BY <2>2, <2>4, <4>1, <4>2
    <3> QED
      BY <1>1, <1>2, <2>3, <3>2, Zenon DEF PostedInv
  <2>7. InstanceInv'
    <3>1. ASSUME NEW t \in Slots
          PROVE  pool'.instance[t] = (1 + born'[t]) % 2
      <4>1. pool.instance[t] = (1 + born[t]) % 2 /\ born[t] \in Nat /\ pool.instance[t] \in {0, 1}
        BY <1>2, <2>4 DEF InstanceInv, Flags
      <4>2. CASE t # s
        <5>1. pool'.instance[t] = pool.instance[t] /\ born'[t] = born[t]
          BY <2>2, <2>3, <2>4, <4>2 DEF Flags
        <5> QED
          BY <4>1, <5>1, Zenon
      <4>3. CASE t = s
        <5>1. pool'.instance[t] = 1 - pool.instance[t] /\ born'[t] = born[t] + 1
          BY <2>2, <2>3, <2>4, <4>3 DEF Flags
        <5>2. \A a \in Nat : (1 + (a + 1)) % 2 = 1 - ((1 + a) % 2)
          OBVIOUS
        <5> QED
          BY <4>1, <5>1, <5>2
      <4> QED
        BY <4>2, <4>3
    <3> QED
      BY <1>1, <1>2, <3>1, Zenon DEF InstanceInv
  <2>8. refused' # 1
    BY <2>2
  <2> QED
    BY <1>3, <2>3, <2>5, <2>6, <2>7, <2>8 DEF ConnInv
<1> QED
  BY <1>4, <1>5

(* A handler closes a connection, or makes it idle or busy.                *)
LEMMA CloseStep ==
  ASSUME ConnInv, NEW s \in Slots,
         Close(s) \/ \E r \in {0, 1} : SetReusable(s, r)
  PROVE  ConnInv'
<1>1. /\ UNCHANGED <<born, pborn, batch, leg, posts, pc, ret, turns, last, spare>>
      /\ refused' = 0 /\ pc = "handler"
  BY Zenon DEF Close, SetReusable, loop, drain
<1>2. Good(pool) /\ Types /\ batch \in Seq(Stamped)
  BY Zenon DEF ConnInv, InstanceInv
<1>3. Good(pool') /\ Kept(pool, pool')
  <2>1. CASE Close(s)
    <3>1. pool' = CloseConnection(pool, s)
      BY <2>1, Zenon DEF Close
    <3> QED
      BY <1>2, <3>1, CloseGood, Zenon
  <2>2. ASSUME NEW r \in {0, 1}, SetReusable(s, r)
        PROVE  Good(pool') /\ Kept(pool, pool')
    <3>1. pool' = ReusableConnection(pool, s, r) /\ pool.fd[s] = 1
      BY <2>2, Zenon DEF SetReusable
    <3>2. Reused(pool, s, r, pool')
      BY <1>2, <3>1, ReusableGood, Zenon
    <3> QED
      BY <3>2, Zenon DEF Reused
  <2> QED
    BY <2>1, <2>2
<1>4. Good(pool)' /\ PostedInv' /\ InstanceInv'
  BY <1>1, <1>2, <1>3, PoolStep, Zenon
<1>5. Types' /\ RefusedInv' /\ DrainInv'
  BY <1>1, <1>2 DEF Types, RefusedInv, DrainInv
<1> QED
  BY <1>4, <1>5 DEF ConnInv

(* A handler posts an event of an open connection.                         *)
LEMMA HandlerPostStep ==
  ASSUME ConnInv, NEW e \in Events, Post(e)
  PROVE  ConnInv'
<1>1. /\ UNCHANGED <<born, batch, leg, posts, pc, ret, turns, last, spare>>
      /\ refused' = 0 /\ pc = "handler" /\ pool.fd[e[1]] = 1 /\ PostEvent(e)
  BY Zenon DEF Post, loop, drain
<1>2. /\ Good(pool)' /\ PostedInv' /\ pool'.instance = pool.instance
      /\ pborn' \in [Events -> Nat]
  BY <1>1, PostStep, Zenon
<1>3. InstanceInv'
  BY <1>1, <1>2, Zenon DEF ConnInv, InstanceInv
<1>4. Types' /\ RefusedInv' /\ DrainInv'
  BY <1>1, <1>2 DEF ConnInv, Types, RefusedInv, DrainInv
<1> QED
  BY <1>2, <1>3, <1>4 DEF ConnInv

(* Every step keeps the invariant.                                         *)
LEMMA StepInv == ConnInv /\ [Next]_vars => ConnInv'
<1> SUFFICES ASSUME ConnInv, [Next]_vars PROVE ConnInv'
  OBVIOUS
<1>1. CASE EpollWait
  BY <1>1, WaitStep
<1>2. CASE SkipEntry \/ PassEvent \/ HandleEvent \/ OtherEvent \/ EventsDone \/ Return
  BY <1>2, QuietStep
<1>3. CASE DeferEvent
  BY <1>3, DeferStep
<1>4. CASE ProcessPosted
  BY <1>4, PostedStep
<1>5. CASE GetConnection
  BY <1>5, GetStep
<1>6. CASE \E lingers \in BOOLEAN : DrainTurn(lingers) \/ DrainEnds(lingers)
  BY <1>6, TurnStep, EndsStep, Zenon
<1>7. CASE TakeFree
  BY <1>7, TakeStep
<1>8. CASE \E s \in Slots : Close(s) \/ \E r \in {0, 1} : SetReusable(s, r)
  BY <1>8, CloseStep, Zenon
<1>9. CASE \E e \in Events : Post(e)
  BY <1>9, HandlerPostStep, Zenon
<1>10. CASE UNCHANGED vars
  <2>1. UNCHANGED <<pool, batch, leg, posts, ret, pc, turns, last, spare, refused, born, pborn>>
    BY <1>10, Zenon DEF vars, loop, drain
  <2> QED
    BY <2>1, ZenonT(30) DEF ConnInv, Types, PostedInv, InstanceInv, RefusedInv, DrainInv
<1> QED
  BY <1>1, <1>2, <1>3, <1>4, <1>5, <1>6, <1>7, <1>8, <1>9, <1>10, ZenonT(30) DEF Next, Handler

-----------------------------------------------------------------------------
(* The invariant says more than PoolSound.                                 *)
LEMMA InvImpliesSound == ConnInv => PoolSound
<1> SUFFICES ASSUME ConnInv PROVE PoolSound
  OBVIOUS
<1> DEFINE C == {s \in Slots : pool.fd[s] = 0}
           R == {s \in Slots : pool.reusable[s] = 1}
           P == Range(pool.posted)
<1>1. Good(pool) /\ Types /\ PostedInv /\ batch \in Seq(Stamped)
  BY Zenon DEF ConnInv, InstanceInv
<1>2. /\ Holds(pool.free, C) /\ pool.freeN = Len(pool.free)
      /\ Holds(pool.rq, R) /\ pool.rn = Len(pool.rq) /\ \A s \in R : pool.fd[s] = 1
      /\ Holds(pool.posted, P) /\ \A e \in P : e \in Events /\ pool.fd[e[1]] = 1
  BY <1>1, Zenon DEF Good, Stack, Idle, Pending
<1>3. C \subseteq Slots /\ R \subseteq Slots /\ P \subseteq Events
  BY <1>2, Zenon
<1>4. /\ IsInjective(pool.free) /\ Range(pool.free) = C
      /\ IsInjective(pool.rq) /\ Range(pool.rq) = R /\ IsInjective(pool.posted)
  <2> HIDE DEF C, R, P
  <2> QED
    BY <1>2, HoldsFacts, Zenon
<1>5. pool.free \in Seq(Slots) /\ pool.rq \in Seq(Slots) /\ pool.posted \in Seq(Events)
  <2> HIDE DEF C, R, P
  <2>1. pool.free \in Seq(C) /\ pool.rq \in Seq(R) /\ pool.posted \in Seq(P)
    BY <1>2, Zenon DEF Holds
  <2>2. ASSUME NEW q, NEW X, NEW Y, q \in Seq(X), X \subseteq Y
        PROVE  q \in Seq(Y)
    BY <2>2
  <2> QED
    BY <1>3, <2>1, <2>2, Zenon
<1>6. pool.freeN \in 0..Cardinality(Slots) /\ pool.rn \in 0..Cardinality(Slots)
  <2> HIDE DEF C, R
  <2>1. /\ pool.freeN <= Cardinality(Slots) /\ pool.freeN \in Nat
        /\ pool.rn <= Cardinality(Slots) /\ pool.rn \in Nat /\ Cardinality(Slots) \in Nat
    BY <1>2, <1>3, SlotsAssumption, HoldsCardinality, Zenon
  <2> QED
    BY <2>1
<1>7. \A f \in {"fd", "instance", "reusable", "linger"} : pool[f] \in [Slots -> {0, 1}]
  BY <1>1, Zenon DEF Good, Flags
<1>8. batch \in Seq(Entries)
  <2>1. Stamped \subseteq Entries
    BY DEF Stamped
  <2> HIDE DEF Stamped, Entries
  <2> QED
    BY <1>1, <2>1
<1>9. TypeOK
  BY <1>1, <1>5, <1>6, <1>7, <1>8, Zenon DEF TypeOK, Types
<1> QED
  BY <1>1, <1>2, <1>4, <1>9, Zenon DEF PoolSound, PostedInv

(* The invariant holds always.                                             *)
LEMMA SpecInv == Spec => []ConnInv
<1>1. Init => ConnInv
  BY InitInv
<1>2. ConnInv /\ [Next]_vars => ConnInv'
  BY StepInv
<1> QED
  BY <1>1, <1>2, PTL DEF Spec

(* The pool is sound, for any number of connections: ngx_get_connection    *)
(* never hands out a slot that is open, a closed slot is never lost, the   *)
(* queue of idle connections holds open ones, the two counters are exact,  *)
(* and no posted event outlives its connection.                            *)
THEOREM PoolSoundCorrect == Spec => []PoolSound
  BY SpecInv, InvImpliesSound, PTL

(* An event that was reported before its slot was closed and opened an odd *)
(* number of times is never handled nor posted: instance is the parity of  *)
(* the number of openings.                                                 *)
THEOREM InstanceCatchesCorrect == Spec => InstanceCatches
<1> DEFINE Caught == Dispatched => (born[Head(batch).slot] - Head(batch).born) % 2 = 0
<1>1. ConnInv /\ [Next]_vars => [Caught]_vars
  <2> SUFFICES ASSUME ConnInv, Next, Dispatched
               PROVE  (born[Head(batch).slot] - Head(batch).born) % 2 = 0
    BY Zenon
  <2>1. /\ pc = "events" /\ (batch' # batch \/ leg' # leg)
        /\ (pc' = "handler" \/ pool' # pool)
    BY DEF Dispatched
  <2>2. DeferEvent \/ HandleEvent
    <3>1. ~EpollWait /\ ~ProcessPosted
      BY <2>1 DEF EpollWait, ProcessPosted
    <3>2. ~Handler
      BY <2>1 DEF Handler, GetConnection, DrainTurn, DrainEnds, TakeFree, Return, Close, Post,
                  SetReusable
    <3>3. ~SkipEntry /\ ~PassEvent /\ ~OtherEvent /\ ~EventsDone
      BY <2>1 DEF SkipEntry, PassEvent, Looking, OtherEvent, EventsDone, loop
    <3> QED
      BY <3>1, <3>2, <3>3, Zenon DEF Next
  <2>3. batch \in Seq(Stamped) /\ batch # << >> /\ ~Stale(Head(batch))
    BY <2>2, Zenon DEF DeferEvent, HandleEvent, Looking, ConnInv, InstanceInv
  <2>4. PICK e : e = Head(batch)
    BY Zenon
  <2>5. e \in Stamped
    BY <2>3, <2>4, BatchFacts, Zenon
  <2>6. e.slot \in Slots /\ e.born \in Nat /\ e.inst = (1 + e.born) % 2
    BY <2>5 DEF Stamped, Entries
  <2>7. pool.instance[e.slot] = e.inst
    BY <2>3, <2>4, Zenon DEF Stale
  <2>8. pool.instance[e.slot] = (1 + born[e.slot]) % 2
    BY <2>6, Zenon DEF ConnInv, InstanceInv
  <2>9. born[e.slot] \in Nat
    BY <2>6, SlotsAssumption DEF ConnInv, Types
  <2>10. \A a, b \in Nat : (1 + a) % 2 = (1 + b) % 2 => (a - b) % 2 = 0
    OBVIOUS
  <2>11. (born[e.slot] - e.born) % 2 = 0
    BY <2>6, <2>7, <2>8, <2>9, <2>10, Zenon
  <2> QED
    BY <2>4, <2>11, Zenon
<1>2. Spec => []ConnInv
  BY SpecInv
<1> QED
  BY <1>1, <1>2, PTL DEF Spec, InstanceCatches

(* A call of ngx_get_connection fails only if no connection was free and   *)
(* none was idle when it was made, for any number of turns of              *)
(* ngx_drain_connections: an idle connection that lingers at first is      *)
(* closed by the second call of its handler.                               *)
THEOREM RefusedOnlyIfBusyCorrect == Spec => RefusedOnlyIfBusy
<1> DEFINE Busy == refused' = 1 => spare = 0
<1>1. ConnInv /\ [Next]_vars => [Busy]_vars
  <2> SUFFICES ASSUME ConnInv, Next, refused' = 1
               PROVE  spare = 0
    BY Zenon
  <2>1. CASE TakeFree
    BY <2>1, TakeStep, Zenon
  <2>2. CASE ~TakeFree
    <3>1. pc # "handler" /\ refused' = refused
      <4>1. CASE Handler
        <5>1. \E lingers \in BOOLEAN : DrainTurn(lingers) \/ DrainEnds(lingers)
          BY <2>2, <4>1 DEF Handler, GetConnection, Return, Close, Post, SetReusable
        <5> QED
          BY <5>1 DEF DrainTurn, DrainEnds
      <4>2. CASE SkipEntry \/ PassEvent \/ DeferEvent \/ HandleEvent
        BY <4>2 DEF SkipEntry, PassEvent, DeferEvent, HandleEvent, Looking
      <4>3. CASE EpollWait \/ OtherEvent \/ EventsDone \/ ProcessPosted
        BY <4>3 DEF EpollWait, OtherEvent, EventsDone, ProcessPosted
      <4> QED
        BY <4>1, <4>2, <4>3, Zenon DEF Next
    <3> QED
      BY <3>1 DEF ConnInv, RefusedInv
  <2> QED
    BY <2>1, <2>2
<1>2. Spec => []ConnInv
  BY SpecInv
<1> QED
  BY <1>1, <1>2, PTL DEF Spec, RefusedOnlyIfBusy

=============================================================================
