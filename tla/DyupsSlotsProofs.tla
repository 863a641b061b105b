-------------------------- MODULE DyupsSlotsProofs --------------------------
(***************************************************************************)
(* Proofs about DyupsSlots, for any number of upstreams, requests,         *)
(* connections and failures: an upstream is freed only when nobody refers  *)
(* to it, and at most one of a name is served.                             *)
(***************************************************************************)
EXTENDS DyupsSlots, FiniteSetTheorems, WellFoundedInduction, TLAPS

SlotType == [dynamic : BOOLEAN, deleted : {"no", "deleting", "deleted"}, obj : Nat]

ObjType == [name : Names, ref : Nat, pool : BOOLEAN, freed : BOOLEAN, built : Built]

(* Who may be found: a slot that is served.                               *)
Served(s, i) == s[i].dynamic /\ s[i].deleted = "no"

(* The list s, the upstreams o and the tree t fit together: no two slots   *)
(* share an upstream, no two served slots a name; the tree has upstreams  *)
(* of served slots only, and nobody refers to a freed one.                *)
Listed(s, o, t) ==
    /\ s \in Seq(SlotType) /\ o \in Seq(ObjType) /\ t \subseteq 1..Len(o)
    /\ \A i \in DOMAIN s : IF s[i].dynamic THEN s[i].obj \in 1..Len(o) ELSE s[i].obj = 0
    /\ \A i, j \in DOMAIN s :
          s[i].dynamic /\ s[j].dynamic /\ s[i].obj = s[j].obj => i = j
    /\ \A i, j \in DOMAIN s :
          Served(s, i) /\ Served(s, j) /\ o[s[i].obj].name = o[s[j].obj].name => i = j
    /\ \A x \in t : \E i \in DOMAIN s : Served(s, i) /\ s[i].obj = x
    /\ \A x \in 1..Len(o) : o[x].freed => o[x].ref = 0 /\ x \notin t

(* The reference count covers the requests and the connections.           *)
Users(f, S, x) == {u \in S : f[u] = x}

Held(o, rq, cn) ==
    /\ rq \in [Requests -> (1..Len(o)) \union {0}]
    /\ cn \in [Conns -> (1..Len(o)) \union {0}]
    /\ \A x \in 1..Len(o) :
          o[x].ref >= Cardinality(Users(rq, Requests, x)) + Cardinality(Users(cn, Conns, x))

(* The inductive invariant.                                               *)
SlotsInv ==
    /\ Listed(slots, objs, tree)
    /\ Held(objs, request, conn)
    /\ crashed \in BOOLEAN /\ fails \in Nat

(* What a step of the list does to the upstreams there were.              *)
SameRefs(o, p) ==
    /\ p \in Seq(ObjType) /\ Len(p) >= Len(o)
    /\ \A x \in 1..Len(o) : p[x].ref = o[x].ref
    /\ \A x \in 1..Len(p) : x > Len(o) => p[x].ref = 0

-----------------------------------------------------------------------------
(* A set of positions that is not empty has a last one.                   *)
LEMMA LastExists ==
    ASSUME NEW n \in Nat, NEW D, D \subseteq 1..n, D # {}
    PROVE  \E i \in D : \A j \in D : i >= j
  <1> DEFINE Up(i) == {j \in D : j >= i}
             T == {Up(i) : i \in D}
             R == StrictSubsetOrdering(1..n)
  <1>1. T \subseteq FiniteSubsetsOf(1..n) /\ T # {}
    <2>1. IsFiniteSet(1..n)
      BY FS_Interval
    <2>2. \A i \in D : Up(i) \in SUBSET (1..n)
      BY Zenon
    <2>3. \A i \in D : IsFiniteSet(Up(i))
      <3> TAKE i \in D
      <3> HIDE DEF Up
      <3> QED
        BY <2>1, <2>2, FS_Subset
    <2> QED
      BY Zenon, <2>2, <2>3 DEF FiniteSubsetsOf
  <1>2. PICK t \in T : \A u \in T : ~(<<u, t>> \in R)
    <2> HIDE DEF T, R
    <2>1. IsWellFoundedOn(R, FiniteSubsetsOf(1..n))
      BY FS_StrictSubsetOrderingWellFounded DEF R
    <2>2. \E x \in T : \A y \in T : ~(<<y, x>> \in R)
      BY Zenon, <1>1, <2>1, WFMin, Zenon
    <2> QED
      BY <2>2
  <1>3. PICK i \in D : t = Up(i)
    BY <1>2
  <1>4. \A j \in D : i >= j
    <2> SUFFICES ASSUME NEW j \in D, ~(i >= j) PROVE FALSE
      OBVIOUS
    <2>1. Up(j) \in SUBSET (1..n) /\ Up(i) \in SUBSET (1..n)
      BY Zenon
    <2>2. Up(j) \subseteq Up(i) /\ i \in Up(i) /\ i \notin Up(j)
      <3>1. i \in Int /\ j \in Int /\ i < j
        OBVIOUS
      <3>2. ASSUME NEW k \in D, k >= j PROVE k >= i
        <4>1. k \in Int
          OBVIOUS
        <4> QED
          BY <3>1, <3>2, <4>1
      <3>3. Up(j) \subseteq Up(i)
        BY Zenon, <3>2
      <3>4. i \in Up(i) /\ i \notin Up(j)
        BY <3>1
      <3> QED
        BY <3>3, <3>4
    <2>3. Up(j) \in T
      OBVIOUS
    <2> HIDE DEF Up, T
    <2>4. <<Up(j), Up(i)>> \in R
      BY <2>1, <2>2 DEF StrictSubsetOrdering
    <2> QED
      BY <1>2, <1>3, <2>3, <2>4
  <1> QED
    BY <1>4

(* A function with the positions of a sequence is one.                    *)
LEMMA Sequence ==
    ASSUME NEW S, NEW k \in Nat, NEW f \in [1..k -> S]
    PROVE  f \in Seq(S) /\ Len(f) = k /\ DOMAIN f = 1..k
  <1>1. f \in Seq(S)
    OBVIOUS
  <1>2. DOMAIN f = 1..Len(f) /\ DOMAIN f = 1..k /\ Len(f) \in Nat
    BY <1>1
  <1> QED
    BY <1>1, <1>2

(* The search finds the slot that matches, if there is one.               *)
LEMMA MatchFacts ==
    ASSUME NEW s \in Seq(SlotType), NEW o, NEW n,
           \A i, j \in Matches(s, o, n) : i = j
    PROVE  /\ Match(s, o, n) = 0 => Matches(s, o, n) = {}
           /\ Match(s, o, n) # 0 => Matches(s, o, n) = {Match(s, o, n)}
           /\ Searched(s, o, n) \subseteq DOMAIN s
           /\ Unused(s, o, n) \subseteq DOMAIN s
  <1>1. DOMAIN s = 1..Len(s) /\ Len(s) \in Nat
    OBVIOUS
  <1>2. CASE Matches(s, o, n) = {}
    BY <1>2 DEF Match, Searched, Unused
  <1>3. CASE Matches(s, o, n) # {}
    <2>1. PICK i \in Matches(s, o, n) : TRUE
      BY <1>3
    <2>2. i \in 1..Len(s) /\ Matches(s, o, n) = {i}
      BY <1>1, <2>1 DEF Matches
    <2>3. Match(s, o, n) = i
      BY <2>2, <1>1 DEF Match
    <2>4. 1..i \subseteq DOMAIN s /\ i # 0
      BY <1>1, <2>2
    <2> QED
      BY <2>2, <2>3, <2>4 DEF Searched, Unused
  <1> QED
    BY <1>2, <1>3

(* The search of the list: what it frees and marks DELETED.               *)
LEMMA SweptShape ==
    ASSUME NEW s \in Seq(SlotType), NEW o \in Seq(ObjType), NEW n
    PROVE  /\ Swept(s, o, n) \in Seq(SlotType)
           /\ Len(Swept(s, o, n)) = Len(s)
           /\ \A i \in DOMAIN s :
                 /\ (Swept(s, o, n)[i].dynamic <=> s[i].dynamic)
                 /\ Swept(s, o, n)[i].obj = s[i].obj
                 /\ Swept(s, o, n)[i].deleted = "no" <=> s[i].deleted = "no"
           /\ Freed(s, o, n) \in Seq(ObjType)
           /\ Len(Freed(s, o, n)) = Len(o)
           /\ \A x \in DOMAIN o :
                 /\ Freed(s, o, n)[x].ref = o[x].ref
                 /\ Freed(s, o, n)[x].name = o[x].name
                 /\ Freed(s, o, n)[x].freed => \/ o[x].freed
                                               \/ \E i \in Unused(s, o, n) : s[i].obj = x
  <1>1. DOMAIN s = 1..Len(s) /\ Len(s) \in Nat /\ \A i \in DOMAIN s : s[i] \in SlotType
    OBVIOUS
  <1>2. DOMAIN o = 1..Len(o) /\ Len(o) \in Nat /\ \A x \in DOMAIN o : o[x] \in ObjType
    OBVIOUS
  <1>3. \A i \in Unused(s, o, n) : i \in DOMAIN s => s[i].deleted = "deleting"
    BY DEF Unused
  <1> DEFINE D == [i \in DOMAIN s |-> [s[i] EXCEPT !.deleted = "deleted"]]
             F == [x \in DOMAIN o |-> [o[x] EXCEPT !.freed = TRUE]]
  <1>4. \A i \in DOMAIN s : /\ D[i] \in SlotType /\ D[i].dynamic = s[i].dynamic
                            /\ D[i].obj = s[i].obj /\ D[i].deleted = "deleted"
    BY <1>1 DEF SlotType
  <1>5. \A x \in DOMAIN o : /\ F[x] \in ObjType /\ F[x].ref = o[x].ref
                            /\ F[x].name = o[x].name
    BY Zenon, <1>2 DEF ObjType
  <1>6. Swept(s, o, n) = [i \in DOMAIN s |-> IF i \in Unused(s, o, n) THEN D[i] ELSE s[i]]
    BY DEF Swept
  <1>7. Freed(s, o, n) =
           [x \in DOMAIN o |-> IF o[x].pool /\ \E i \in Unused(s, o, n) : s[i].obj = x
                               THEN F[x] ELSE o[x]]
    BY DEF Freed
  <1> HIDE DEF D, F
  <1>8. Swept(s, o, n) \in [1..Len(s) -> SlotType]
    BY <1>1, <1>4, <1>6
  <1>9. Freed(s, o, n) \in [1..Len(o) -> ObjType]
    BY <1>2, <1>5, <1>7
  <1>10. \A i \in DOMAIN s :
                 /\ (Swept(s, o, n)[i].dynamic <=> s[i].dynamic)
                 /\ Swept(s, o, n)[i].obj = s[i].obj
                 /\ Swept(s, o, n)[i].deleted = "no" <=> s[i].deleted = "no"
    BY <1>3, <1>4, <1>6
  <1>11. \A x \in DOMAIN o :
                 /\ Freed(s, o, n)[x].ref = o[x].ref
                 /\ Freed(s, o, n)[x].name = o[x].name
                 /\ Freed(s, o, n)[x].freed => \/ o[x].freed
                                               \/ \E i \in Unused(s, o, n) : s[i].obj = x
    BY <1>5, <1>7
  <1>12. Swept(s, o, n) \in Seq(SlotType) /\ Len(Swept(s, o, n)) = Len(s)
    BY <1>1, <1>8, Sequence, ZenonT(30)
  <1>13. Freed(s, o, n) \in Seq(ObjType) /\ Len(Freed(s, o, n)) = Len(o)
    BY <1>2, <1>9, Sequence
  <1> QED
    BY <1>10, <1>11, <1>12, <1>13

(* The search keeps the list in order: it frees what no served slot has.  *)
LEMMA SweepListed ==
    ASSUME NEW s, NEW o, NEW t, NEW n, Listed(s, o, t)
    PROVE  Listed(Swept(s, o, n), Freed(s, o, n), t)
  <1> DEFINE S == Swept(s, o, n)
             F == Freed(s, o, n)
  <1>1. s \in Seq(SlotType) /\ o \in Seq(ObjType) /\ t \subseteq 1..Len(o)
    BY DEF Listed
  <1>2. DOMAIN s = 1..Len(s) /\ DOMAIN o = 1..Len(o)
    BY <1>1
  <1>3. /\ S \in Seq(SlotType) /\ Len(S) = Len(s)
        /\ F \in Seq(ObjType) /\ Len(F) = Len(o)
    BY <1>1, SweptShape
  <1>4. \A i \in DOMAIN s :
          /\ S[i].dynamic <=> s[i].dynamic
          /\ S[i].obj = s[i].obj
          /\ S[i].deleted = "no" <=> s[i].deleted = "no"
    BY <1>1, SweptShape
  <1>5. \A x \in DOMAIN o :
          /\ F[x].ref = o[x].ref /\ F[x].name = o[x].name
          /\ F[x].freed => \/ o[x].freed
                          \/ \E i \in Unused(s, o, n) : s[i].obj = x
    BY SMTT(30), <1>1, SweptShape
  <1>6. \A i \in Unused(s, o, n) :
          i \in DOMAIN s => /\ s[i].dynamic /\ s[i].deleted # "no"
                           /\ o[s[i].obj].ref = 0
    BY DEF Unused
  <1>7. Unused(s, o, n) \subseteq DOMAIN s
    <2>1. \A i, j \in Matches(s, o, n) : i = j
      BY DEF Listed, Served, Matches
    <2> QED
      BY <1>1, <2>1, MatchFacts
  <1> HIDE DEF S, F
  <1>8. DOMAIN S = DOMAIN s /\ DOMAIN F = DOMAIN o
    BY <1>2, <1>3
  <1>9. \A i \in DOMAIN s : Served(S, i) <=> Served(s, i)
    BY <1>4 DEF Served
  <1>10. \A i \in DOMAIN s : IF S[i].dynamic THEN S[i].obj \in 1..Len(F) ELSE S[i].obj = 0
    BY <1>3, <1>4 DEF Listed
  <1>11. \A i, j \in DOMAIN s :
           S[i].dynamic /\ S[j].dynamic /\ S[i].obj = S[j].obj => i = j
    BY <1>4 DEF Listed
  <1>12. \A i, j \in DOMAIN s :
           Served(S, i) /\ Served(S, j) /\ F[S[i].obj].name = F[S[j].obj].name => i = j
    <2> SUFFICES ASSUME NEW i \in DOMAIN s, NEW j \in DOMAIN s,
                        Served(S, i), Served(S, j), F[S[i].obj].name = F[S[j].obj].name
                 PROVE  i = j
      OBVIOUS
    <2>1. s[i].dynamic /\ s[j].dynamic /\ Served(s, i) /\ Served(s, j)
      BY <1>9 DEF Served
    <2>2. s[i].obj \in DOMAIN o /\ s[j].obj \in DOMAIN o
      BY <1>2, <2>1 DEF Listed
    <2>3. o[s[i].obj].name = o[s[j].obj].name
      BY <1>4, <1>5, <2>2
    <2> QED
      BY <2>1, <2>3 DEF Listed
  <1>13. \A x \in t : \E i \in DOMAIN s : Served(S, i) /\ S[i].obj = x
    BY <1>4, <1>9 DEF Listed
  <1>14. \A x \in 1..Len(F) : F[x].freed => F[x].ref = 0 /\ x \notin t
    <2> SUFFICES ASSUME NEW x \in DOMAIN o, F[x].freed
                 PROVE  o[x].ref = 0 /\ x \notin t
      BY <1>2, <1>3, <1>5
    <2>1. CASE o[x].freed
      BY <1>2, <2>1 DEF Listed
    <2>2. CASE \E i \in Unused(s, o, n) : s[i].obj = x
      <3>1. PICK i \in Unused(s, o, n) : s[i].obj = x
        BY <2>2
      <3>2. i \in DOMAIN s /\ s[i].dynamic /\ s[i].deleted # "no" /\ o[x].ref = 0
        BY <1>6, <1>7, <3>1
      <3>3. ASSUME x \in t PROVE FALSE
        <4>1. PICK j \in DOMAIN s : Served(s, j) /\ s[j].obj = x
          BY <3>3 DEF Listed
        <4>2. i = j
          BY <3>1, <3>2, <4>1 DEF Listed, Served
        <4> QED
          BY <3>2, <4>1, <4>2 DEF Served
      <3> QED
        BY <3>2, <3>3
    <2> QED
      BY <1>5, <2>1, <2>2
  <1>15. t \subseteq 1..Len(F)
    BY <1>1, <1>3
  <1>16. /\ \A i \in DOMAIN S : IF S[i].dynamic THEN S[i].obj \in 1..Len(F) ELSE S[i].obj = 0
         /\ \A i, j \in DOMAIN S :
               S[i].dynamic /\ S[j].dynamic /\ S[i].obj = S[j].obj => i = j
         /\ \A i, j \in DOMAIN S :
               Served(S, i) /\ Served(S, j) /\ F[S[i].obj].name = F[S[j].obj].name => i = j
         /\ \A x \in t : \E i \in DOMAIN S : Served(S, i) /\ S[i].obj = x
    BY Zenon, <1>8, <1>10, <1>11, <1>12, <1>13, Zenon
  <1>17. Listed(S, F, t)
    BY Zenon, <1>3, <1>14, <1>15, <1>16, Zenon DEF Listed
  <1> QED
    BY <1>17 DEF S, F
(* ngx_dyups_mark_upstream_delete takes an upstream out of the list.      *)
LEMMA MarkListed ==
    ASSUME NEW s, NEW o, NEW t, NEW m, Listed(s, o, t), m \in DOMAIN s, Served(s, m)
    PROVE  /\ Listed(MarkedSlots(s, m), o, MarkedTree(t, s[m].obj))
           /\ \A i \in DOMAIN MarkedSlots(s, m) : Served(MarkedSlots(s, m), i) =>
                 /\ i \in DOMAIN s /\ Served(s, i) /\ i # m
                 /\ MarkedSlots(s, m)[i].obj = s[i].obj
  <1> DEFINE S == MarkedSlots(s, m)
             T == MarkedTree(t, s[m].obj)
  <1>1. s \in Seq(SlotType) /\ o \in Seq(ObjType) /\ t \subseteq 1..Len(o)
    BY DEF Listed
  <1>2. DOMAIN s = 1..Len(s) /\ Len(s) \in Nat /\ \A i \in DOMAIN s : s[i] \in SlotType
    BY <1>1
  <1>3. DOMAIN S = DOMAIN s /\ S = [i \in DOMAIN s |-> IF i = m THEN [s[m] EXCEPT !.deleted = "deleting"] ELSE s[i]]
    BY DEF MarkedSlots
  <1>4. /\ [s[m] EXCEPT !.deleted = "deleting"] \in SlotType
        /\ [s[m] EXCEPT !.deleted = "deleting"].dynamic = s[m].dynamic
        /\ [s[m] EXCEPT !.deleted = "deleting"].obj = s[m].obj
        /\ [s[m] EXCEPT !.deleted = "deleting"].deleted = "deleting"
    BY <1>2 DEF SlotType
  <1>5. S \in Seq(SlotType)
    <2>1. S \in [1..Len(s) -> SlotType]
      BY <1>2, <1>3, <1>4
    <2> QED
      BY <1>2, <2>1, Sequence
  <1>6. \A i \in DOMAIN s : (S[i].dynamic <=> s[i].dynamic) /\ S[i].obj = s[i].obj
    BY <1>3, <1>4
  <1>7. \A i \in DOMAIN s : Served(S, i) <=> Served(s, i) /\ i # m
    BY <1>3, <1>4 DEF Served
  <1>8. T = t \ {s[m].obj}
    BY DEF MarkedTree
  <1> HIDE DEF S, T
  <1>9. \A i \in DOMAIN S : IF S[i].dynamic THEN S[i].obj \in 1..Len(o) ELSE S[i].obj = 0
    BY <1>3, <1>6 DEF Listed
  <1>10. \A i, j \in DOMAIN S :
            S[i].dynamic /\ S[j].dynamic /\ S[i].obj = S[j].obj => i = j
    BY <1>3, <1>6 DEF Listed
  <1>11. \A i, j \in DOMAIN S :
            Served(S, i) /\ Served(S, j) /\ o[S[i].obj].name = o[S[j].obj].name => i = j
    BY <1>3, <1>6, <1>7 DEF Listed
  <1>12. \A x \in T : \E i \in DOMAIN S : Served(S, i) /\ S[i].obj = x
    <2> SUFFICES ASSUME NEW x \in T PROVE \E i \in DOMAIN S : Served(S, i) /\ S[i].obj = x
      OBVIOUS
    <2>1. PICK i \in DOMAIN s : Served(s, i) /\ s[i].obj = x
      BY <1>8 DEF Listed
    <2>2. i # m
      BY <1>8, <2>1
    <2> QED
      BY <1>3, <1>6, <1>7, <2>1, <2>2
  <1>13. \A x \in 1..Len(o) : o[x].freed => o[x].ref = 0 /\ x \notin T
    BY <1>8 DEF Listed
  <1>14. T \subseteq 1..Len(o)
    BY Zenon, <1>1, <1>8
  <1>15. Listed(S, o, T)
    BY Zenon, <1>1, <1>5, <1>9, <1>10, <1>11, <1>12, <1>13, <1>14, Zenon DEF Listed
  <1>16. \A i \in DOMAIN S : Served(S, i) =>
            i \in DOMAIN s /\ Served(s, i) /\ i # m /\ S[i].obj = s[i].obj
    BY <1>3, <1>6, <1>7
  <1> QED
    BY <1>15, <1>16 DEF S, T

(* The slot that is used again holds a DELETED upstream.                  *)
LEMMA ReusableFacts ==
    ASSUME NEW s \in Seq(SlotType), NEW o, NEW n,
           \A i, j \in Matches(s, o, n) : i = j
    PROVE  \/ Reusable(s, o, n) = 0
           \/ /\ Reusable(s, o, n) \in DOMAIN s
              /\ s[Reusable(s, o, n)].dynamic
              /\ Swept(s, o, n)[Reusable(s, o, n)].deleted = "deleted"
  <1> DEFINE D == {i \in Searched(s, o, n) : /\ s[i].dynamic
                                            /\ Swept(s, o, n)[i].deleted = "deleted"}
  <1>1. CASE D = {}
    BY <1>1 DEF Reusable
  <1>2. CASE D # {}
    <2>1. D \subseteq DOMAIN s
      BY MatchFacts
    <2>2. DOMAIN s = 1..Len(s) /\ Len(s) \in Nat
      OBVIOUS
    <2>3. \A i \in D : i \in DOMAIN s /\ s[i].dynamic /\ Swept(s, o, n)[i].deleted = "deleted"
      BY <2>1
    <2>4. Reusable(s, o, n) = CHOOSE i \in D : \A j \in D : i >= j
      BY <1>2 DEF Reusable
    <2> HIDE DEF D
    <2>5. \E i \in D : \A j \in D : i >= j
      BY <1>2, <2>1, <2>2, LastExists
    <2>6. Reusable(s, o, n) \in D
      BY Zenon, <2>4, <2>5, Zenon
    <2> QED
      BY <2>3, <2>6
  <1> QED
    BY <1>1, <1>2
(* No slot of the list is served under name n.                            *)
Unserved(s, o, n) == \A i \in DOMAIN s : Served(s, i) => o[s[i].obj].name # n

(* The slot a new upstream is entered in: a new one, or a DELETED one.    *)
FreeSlot(s, k) ==
    k = 0 \/ (k \in DOMAIN s /\ s[k].dynamic /\ s[k].deleted = "deleted")

(* The search by itself, when the name is not served.                     *)
LEMMA SearchClears ==
    ASSUME NEW s, NEW o, NEW t, NEW n, Listed(s, o, t), Unserved(s, o, n)
    PROVE  /\ Match(s, o, n) = 0
           /\ Listed(Swept(s, o, n), Freed(s, o, n), t)
           /\ Unserved(Swept(s, o, n), Freed(s, o, n), n)
           /\ FreeSlot(Swept(s, o, n), Reusable(s, o, n))
           /\ SameRefs(o, Freed(s, o, n)) /\ Len(Freed(s, o, n)) = Len(o)
  <1> DEFINE S == Swept(s, o, n)
             F == Freed(s, o, n)
             k == Reusable(s, o, n)
  <1>1. s \in Seq(SlotType) /\ o \in Seq(ObjType)
    BY DEF Listed
  <1>2. DOMAIN s = 1..Len(s) /\ DOMAIN o = 1..Len(o) /\ Len(o) \in Nat
    BY <1>1
  <1>3. Matches(s, o, n) = {}
    BY DEF Unserved, Served, Matches
  <1>4. Match(s, o, n) = 0
    BY <1>3 DEF Match
  <1>5. Listed(S, F, t)
    BY SweepListed
  <1>6. S \in Seq(SlotType) /\ Len(S) = Len(s)
    BY <1>1, SweptShape
  <1>7. F \in Seq(ObjType) /\ Len(F) = Len(o)
    BY <1>1, SweptShape
  <1>8. \A i \in DOMAIN s : /\ S[i].dynamic <=> s[i].dynamic
                            /\ S[i].obj = s[i].obj
                            /\ S[i].deleted = "no" <=> s[i].deleted = "no"
    BY <1>1, SweptShape
  <1>9. \A x \in DOMAIN o : F[x].ref = o[x].ref /\ F[x].name = o[x].name
    BY <1>1, SweptShape
  <1>10. \/ k = 0
         \/ k \in DOMAIN s /\ s[k].dynamic /\ S[k].deleted = "deleted"
    BY <1>1, <1>3, ReusableFacts
  <1> HIDE DEF S, F, k
  <1>11. DOMAIN S = DOMAIN s
    BY <1>2, <1>6
  <1>12. Unserved(S, F, n)
    <2> SUFFICES ASSUME NEW i \in DOMAIN s, Served(S, i)
                 PROVE  F[S[i].obj].name # n
      BY <1>11 DEF Unserved
    <2>1. Served(s, i) /\ s[i].dynamic
      BY <1>8 DEF Served
    <2>2. s[i].obj \in DOMAIN o
      BY <1>2, <2>1 DEF Listed
    <2> QED
      BY <1>8, <1>9, <2>1, <2>2 DEF Unserved
  <1>13. FreeSlot(S, k)
    BY <1>8, <1>10, <1>11 DEF FreeSlot
  <1>14. SameRefs(o, F)
    BY <1>2, <1>7, <1>9 DEF SameRefs
  <1> QED
    BY <1>4, <1>5, <1>7, <1>12, <1>13, <1>14 DEF S, F, k

(* The first half of an update: the old upstream is out of the list.      *)
LEMMA ClearedFacts ==
    ASSUME NEW n, Listed(slots, objs, tree)
    PROVE  /\ Listed(Cleared(n).slots, Cleared(n).objs, Cleared(n).tree)
           /\ Unserved(Cleared(n).slots, Cleared(n).objs, n)
           /\ FreeSlot(Cleared(n).slots, Cleared(n).idx)
           /\ SameRefs(objs, Cleared(n).objs) /\ Len(Cleared(n).objs) = Len(objs)
  <1> DEFINE m == Match(slots, objs, n)
             s1 == Swept(slots, objs, n)
             o1 == Freed(slots, objs, n)
             s2 == MarkedSlots(s1, m)
             t2 == MarkedTree(tree, slots[m].obj)
             k1 == Reusable(slots, objs, n)
             k2 == Reusable(s2, o1, n)
  <1>1. slots \in Seq(SlotType) /\ objs \in Seq(ObjType)
    BY DEF Listed
  <1>2. \A i, j \in Matches(slots, objs, n) : i = j
    BY DEF Listed, Served, Matches
  <1>3. /\ m = 0 => Matches(slots, objs, n) = {}
        /\ m # 0 => Matches(slots, objs, n) = {m}
    BY <1>1, <1>2, MatchFacts
  <1>4. CASE m = 0
    <2>1. Unserved(slots, objs, n)
      BY ZenonT(30), <1>3, <1>4 DEF Matches, Served, Unserved
    <2>2. /\ Cleared(n).slots = s1 /\ Cleared(n).objs = o1
          /\ Cleared(n).tree = tree /\ Cleared(n).idx = k1
      BY <1>4, ZenonT(30) DEF Cleared
    <2>3. /\ Listed(s1, o1, tree) /\ Unserved(s1, o1, n) /\ FreeSlot(s1, k1)
          /\ SameRefs(objs, o1) /\ Len(o1) = Len(objs)
      BY SMTT(30), <2>1, SearchClears
    <2> QED
      BY <2>2, <2>3
  <1>5. CASE m # 0
    <2>1. m \in DOMAIN slots /\ Served(slots, m) /\ objs[slots[m].obj].name = n
      BY <1>3, <1>5 DEF Matches, Served
    <2>2. Listed(s1, o1, tree)
      BY SweepListed
    <2>3. s1 \in Seq(SlotType) /\ Len(s1) = Len(slots)
      BY <1>1, SweptShape
    <2>4. \A i \in DOMAIN slots : /\ s1[i].dynamic <=> slots[i].dynamic
                                  /\ s1[i].obj = slots[i].obj
                                  /\ s1[i].deleted = "no" <=> slots[i].deleted = "no"
      BY <1>1, SweptShape
    <2>5. o1 \in Seq(ObjType) /\ Len(o1) = Len(objs)
      BY <1>1, SweptShape
    <2>6. \A x \in DOMAIN objs : o1[x].ref = objs[x].ref /\ o1[x].name = objs[x].name
      BY <1>1, SweptShape
    <2>7. DOMAIN s1 = DOMAIN slots /\ DOMAIN objs = 1..Len(objs)
      BY <1>1, <2>3
    <2>8. Served(s1, m) /\ s1[m].obj = slots[m].obj
      BY <2>1, <2>4 DEF Served
    <2>9. Listed(s2, o1, t2)
      BY <2>1, <2>2, <2>7, <2>8, MarkListed, SMTT(30)
    <2>10. \A i \in DOMAIN s2 : Served(s2, i) =>
              i \in DOMAIN s1 /\ Served(s1, i) /\ i # m /\ s2[i].obj = s1[i].obj
      BY <2>1, <2>2, <2>7, <2>8, MarkListed
    <2>11. Unserved(s2, o1, n)
      <3> SUFFICES ASSUME NEW i \in DOMAIN s2, Served(s2, i), o1[s2[i].obj].name = n
                   PROVE  FALSE
        BY DEF Unserved
      <3> HIDE DEF s1, o1, s2, m
      <3>1. i \in DOMAIN slots /\ Served(s1, i) /\ i # m /\ s2[i].obj = s1[i].obj
        BY <2>7, <2>10
      <3>2. Served(slots, i) /\ slots[i].dynamic /\ s2[i].obj = slots[i].obj
        BY <2>4, <3>1 DEF Served
      <3>3. slots[i].obj \in DOMAIN objs
        BY <2>7, <3>1, <3>2 DEF Listed
      <3>4. objs[slots[i].obj].name = n
        BY <2>6, <3>2, <3>3
      <3> QED
        BY <2>1, <3>1, <3>2, <3>4 DEF Listed
    <2>12. /\ Match(s2, o1, n) = 0
           /\ Listed(Swept(s2, o1, n), Freed(s2, o1, n), t2)
           /\ Unserved(Swept(s2, o1, n), Freed(s2, o1, n), n)
           /\ FreeSlot(Swept(s2, o1, n), k2)
           /\ SameRefs(o1, Freed(s2, o1, n)) /\ Len(Freed(s2, o1, n)) = Len(o1)
      <3> HIDE DEF s1, o1, s2, t2, m
      <3> QED
        BY <2>9, <2>11, SearchClears, ZenonT(30)
    <2>13. /\ Cleared(n).slots = Swept(s2, o1, n) /\ Cleared(n).objs = Freed(s2, o1, n)
           /\ Cleared(n).tree = t2 /\ Cleared(n).idx = k2
      BY <1>5, <2>12, ZenonT(30) DEF Cleared
    <2>14. SameRefs(objs, Freed(s2, o1, n))
      <3> HIDE DEF s2, o1
      <3> QED
        BY Zenon, <1>1, <2>5, <2>6, <2>7, <2>12 DEF SameRefs
    <2> QED
      BY <2>5, <2>12, <2>13, <2>14, ZenonT(30)
  <1> QED
    BY <1>4, <1>5
(* List S is s with x written in slot p, a new one or a DELETED one.      *)
Written(s, S, x, p) ==
    /\ DOMAIN S = DOMAIN s \union {p}
    /\ S[p] = x
    /\ \A i \in DOMAIN s : i # p => S[i] = s[i]
    /\ p \in DOMAIN s => s[p].dynamic /\ s[p].deleted = "deleted"

(* What Append does to a list.                                            *)
LEMMA Appended ==
    ASSUME NEW S, NEW s \in Seq(S), NEW x \in S
    PROVE  /\ Append(s, x) \in Seq(S) /\ DOMAIN Append(s, x) = 1..(Len(s) + 1)
           /\ Append(s, x)[Len(s) + 1] = x
           /\ \A i \in 1..Len(s) : Append(s, x)[i] = s[i]
  <1>1. Len(s) \in Nat
    OBVIOUS
  <1>2. Append(s, x) \in Seq(S) /\ Len(Append(s, x)) = Len(s) + 1
    OBVIOUS
  <1>3. DOMAIN Append(s, x) = 1..(Len(s) + 1)
    BY <1>2
  <1>4. Append(s, x)[Len(s) + 1] = x
    BY <1>1
  <1>5. ASSUME NEW i \in 1..Len(s)
        PROVE  Append(s, x)[i] = s[i]
    BY <1>1
  <1> QED
    BY <1>2, <1>3, <1>4, <1>5

(* A slot is written, or appended.                                        *)
LEMMA PutShape ==
    ASSUME NEW T, NEW s \in Seq(T), NEW k, FreeSlot(s, k), NEW x \in T
    PROVE  /\ Put(s, k, x) \in Seq(T)
           /\ \E p : Written(s, Put(s, k, x), x, p)
  <1>1. DOMAIN s = 1..Len(s) /\ Len(s) \in Nat
    OBVIOUS
  <1>2. CASE k = 0
    <2>1. Put(s, k, x) = Append(s, x)
      BY <1>2 DEF Put
    <2>2. /\ Append(s, x) \in Seq(T) /\ DOMAIN Append(s, x) = 1..(Len(s) + 1)
          /\ Append(s, x)[Len(s) + 1] = x
          /\ \A i \in 1..Len(s) : Append(s, x)[i] = s[i]
      BY Appended
    <2>3. 1..(Len(s) + 1) = 1..Len(s) \union {Len(s) + 1} /\ Len(s) + 1 \notin 1..Len(s)
      BY <1>1
    <2>4. Written(s, Append(s, x), x, Len(s) + 1)
      BY <1>1, <2>2, <2>3 DEF Written
    <2> QED
      BY <2>1, <2>2, <2>4
  <1>3. CASE k # 0
    <2>1. k \in DOMAIN s /\ s[k].dynamic /\ s[k].deleted = "deleted"
      BY <1>3 DEF FreeSlot
    <2>2. Put(s, k, x) = [s EXCEPT ![k] = x]
      BY <1>3 DEF Put
    <2>3. [s EXCEPT ![k] = x] \in [1..Len(s) -> T]
      <3>1. s \in [1..Len(s) -> T]
        OBVIOUS
      <3> QED
        BY <1>1, <2>1, <3>1, Zenon
    <2>4. [s EXCEPT ![k] = x] \in Seq(T)
      BY <1>1, <2>3, Sequence
    <2>5. /\ DOMAIN [s EXCEPT ![k] = x] = DOMAIN s \union {k}
          /\ [s EXCEPT ![k] = x][k] = x
          /\ \A i \in DOMAIN s : i # k => [s EXCEPT ![k] = x][i] = s[i]
      BY Zenon, <2>1
    <2>6. Written(s, [s EXCEPT ![k] = x], x, k)
      BY <2>1, <2>5, Zenon DEF Written
    <2> QED
      BY <2>2, <2>4, <2>6
  <1> QED
    BY <1>2, <1>3

(* A slot that is not dynamic is appended: no new upstream.               *)
LEMMA EmptyListed ==
    ASSUME NEW s, NEW o, NEW t, NEW k, NEW x \in SlotType,
           Listed(s, o, t), FreeSlot(s, k),
           IF k = 0 THEN ~x.dynamic /\ x.obj = 0 ELSE x = s[k]
    PROVE  Listed(Put(s, k, x), o, t)
  <1>1. s \in Seq(SlotType) /\ o \in Seq(ObjType) /\ t \subseteq 1..Len(o)
    BY DEF Listed
  <1>2. DOMAIN s = 1..Len(s) /\ Len(s) \in Nat
    BY <1>1
  <1>3. CASE k = 0
    <2> DEFINE S == Append(s, x)
    <2>1. Put(s, k, x) = S
      BY <1>3 DEF Put
    <2>2. S \in Seq(SlotType) /\ DOMAIN S = 1..(Len(s) + 1)
      BY <1>1, <1>2
    <2>3. S[Len(s) + 1] = x /\ \A i \in DOMAIN s : S[i] = s[i]
      BY <1>1, <1>2
    <2>4. \A i \in DOMAIN S : i \in DOMAIN s \/ (i = Len(s) + 1 /\ ~S[i].dynamic /\ S[i].obj = 0)
      BY <1>2, <1>3, <2>2, <2>3
    <2>5. DOMAIN s \subseteq DOMAIN S
      BY <1>2, <2>2
    <2> HIDE DEF S
    <2>6. \A i \in DOMAIN S : Served(S, i) => i \in DOMAIN s /\ Served(s, i) /\ S[i] = s[i]
      BY <2>3, <2>4 DEF Served
    <2>7. \A i \in DOMAIN S : IF S[i].dynamic THEN S[i].obj \in 1..Len(o) ELSE S[i].obj = 0
      BY <2>3, <2>4 DEF Listed
    <2>8. \A i, j \in DOMAIN S :
             S[i].dynamic /\ S[j].dynamic /\ S[i].obj = S[j].obj => i = j
      BY <2>3, <2>4 DEF Listed
    <2>9. \A i, j \in DOMAIN S :
             Served(S, i) /\ Served(S, j) /\ o[S[i].obj].name = o[S[j].obj].name => i = j
      BY <2>6 DEF Listed
    <2>10. \A y \in t : \E i \in DOMAIN S : Served(S, i) /\ S[i].obj = y
      BY <2>3, <2>5 DEF Listed, Served
    <2>11. \A y \in 1..Len(o) : o[y].freed => o[y].ref = 0 /\ y \notin t
      BY DEF Listed
    <2>12. Listed(S, o, t)
      BY Zenon, <1>1, <2>2, <2>7, <2>8, <2>9, <2>10, <2>11, Zenon DEF Listed
    <2> QED
      BY <2>1, <2>12
  <1>4. CASE k # 0
    <2>1. Put(s, k, x) = s
      BY <1>1, <1>2, <1>4 DEF Put, FreeSlot
    <2> QED
      BY <2>1
  <1> QED
    BY <1>3, <1>4

(* A new upstream is entered in its slot, and in the tree or not yet.     *)
LEMMA EnterListed ==
    ASSUME NEW s, NEW o, NEW t, NEW k, NEW x \in SlotType, NEW n \in Names,
           NEW b \in Built, NEW u \in SUBSET {Len(o) + 1},
           Listed(s, o, t), FreeSlot(s, k), Unserved(s, o, n),
           x.dynamic, x.obj = Len(o) + 1, u = {} \/ x.deleted = "no"
    PROVE  /\ Listed(Put(s, k, x), Append(o, NewObj(n, TRUE, b)), t \union u)
           /\ SameRefs(o, Append(o, NewObj(n, TRUE, b)))
  <1> DEFINE S == Put(s, k, x)
             c == NewObj(n, TRUE, b)
             O == Append(o, c)
  <1>1. s \in Seq(SlotType) /\ o \in Seq(ObjType) /\ t \subseteq 1..Len(o)
    BY DEF Listed
  <1>2. Len(o) \in Nat
    BY <1>1
  <1>3. c \in ObjType /\ c.name = n /\ c.ref = 0 /\ ~c.freed
    BY DEF NewObj, ObjType
  <1>4. S \in Seq(SlotType)
    BY <1>1, PutShape
  <1>5. PICK p : Written(s, S, x, p)
    BY <1>1, PutShape
  <1>6. /\ DOMAIN S = DOMAIN s \union {p}
        /\ S[p] = x
        /\ \A i \in DOMAIN s : i # p => S[i] = s[i]
        /\ p \in DOMAIN s => s[p].dynamic /\ s[p].deleted = "deleted"
    BY <1>5 DEF Written
  <1> HIDE DEF S, c
  <1>7. O \in Seq(ObjType) /\ Len(O) = Len(o) + 1
    <2>1. c \in ObjType
      BY <1>3
    <2> QED
      BY <1>1, <1>2, <2>1
  <1>8. O[Len(o) + 1] = c /\ \A y \in 1..Len(o) : O[y] = o[y]
    <2>1. c \in ObjType
      BY <1>3
    <2> QED
      BY <1>1, <1>2, <2>1
  <1>9. 1..(Len(o) + 1) = 1..Len(o) \union {Len(o) + 1} /\ Len(o) + 1 \notin 1..Len(o)
    BY <1>2
  <1> HIDE DEF O
  <1>10. \A i \in DOMAIN s : s[i].dynamic => s[i].obj \in 1..Len(o)
    BY DEF Listed
  <1>11. \A i \in DOMAIN S : i # p => i \in DOMAIN s /\ S[i] = s[i]
    BY <1>6
  <1>12. \A i \in DOMAIN S : i # p /\ Served(S, i) =>
            i \in DOMAIN s /\ Served(s, i) /\ s[i].dynamic /\ S[i] = s[i]
    BY <1>11 DEF Served
  <1>13. \A i \in DOMAIN S : IF S[i].dynamic THEN S[i].obj \in 1..Len(O) ELSE S[i].obj = 0
    <2> SUFFICES ASSUME NEW i \in DOMAIN S
                 PROVE IF S[i].dynamic THEN S[i].obj \in 1..Len(O) ELSE S[i].obj = 0
      OBVIOUS
    <2>1. CASE i = p
      BY <1>6, <1>7, <1>9, <2>1
    <2>2. CASE i # p
      <3>1. i \in DOMAIN s /\ S[i] = s[i]
        BY <1>11, <2>2
      <3>2. IF s[i].dynamic THEN s[i].obj \in 1..Len(o) ELSE s[i].obj = 0
        BY <3>1 DEF Listed
      <3> QED
        BY <1>7, <1>9, <3>1, <3>2
    <2> QED
      BY <2>1, <2>2
  <1>14. \A i, j \in DOMAIN S :
            S[i].dynamic /\ S[j].dynamic /\ S[i].obj = S[j].obj => i = j
    <2> SUFFICES ASSUME NEW i \in DOMAIN S, NEW j \in DOMAIN S, S[i].dynamic, S[j].dynamic,
                        S[i].obj = S[j].obj, i # j
                 PROVE  FALSE
      OBVIOUS
    <2>1. CASE i # p /\ j # p
      BY <1>11, <2>1, ZenonT(30) DEF Listed
    <2>2. CASE i = p \/ j = p
      BY <1>6, <1>9, <1>10, <1>11, <2>2
    <2> QED
      BY <2>1, <2>2
  <1>15. \A i \in DOMAIN S : i # p /\ Served(S, i) => O[S[i].obj].name # n
    BY <1>8, <1>10, <1>12 DEF Unserved
  <1>16. \A i, j \in DOMAIN S :
            Served(S, i) /\ Served(S, j) /\ O[S[i].obj].name = O[S[j].obj].name => i = j
    <2> SUFFICES ASSUME NEW i \in DOMAIN S, NEW j \in DOMAIN S, Served(S, i), Served(S, j),
                        O[S[i].obj].name = O[S[j].obj].name, i # j
                 PROVE  FALSE
      BY ZenonT(30)
    <2>1. CASE i # p /\ j # p
      <3>1. /\ i \in DOMAIN s /\ Served(s, i) /\ s[i].obj \in 1..Len(o) /\ S[i] = s[i]
            /\ j \in DOMAIN s /\ Served(s, j) /\ s[j].obj \in 1..Len(o) /\ S[j] = s[j]
        BY <1>10, <1>12, <2>1, ZenonT(30)
      <3>2. o[s[i].obj].name = o[s[j].obj].name
        BY <1>8, <3>1
      <3> QED
        BY <3>1, <3>2, ZenonT(30) DEF Listed
    <2>2. O[S[p].obj].name = n
      BY <1>3, <1>6, <1>8, ZenonT(30)
    <2>3. CASE i = p \/ j = p
      BY <1>15, <2>2, <2>3
    <2> QED
      BY <2>1, <2>3
  <1>17. \A y \in t \union u : \E i \in DOMAIN S : Served(S, i) /\ S[i].obj = y
    <2> SUFFICES ASSUME NEW y \in t \union u
                 PROVE  \E i \in DOMAIN S : Served(S, i) /\ S[i].obj = y
      OBVIOUS
    <2>1. CASE y \in t
      <3>1. PICK i \in DOMAIN s : Served(s, i) /\ s[i].obj = y
        BY <2>1 DEF Listed
      <3>2. i # p
        BY <1>6, <3>1 DEF Served
      <3>3. i \in DOMAIN S /\ S[i] = s[i]
        BY <1>6, <3>2
      <3> QED
        BY <3>1, <3>3, ZenonT(30) DEF Served
    <2>2. CASE y \in u
      <3>1. y = Len(o) + 1 /\ x.deleted = "no"
        BY <2>2
      <3>2. p \in DOMAIN S /\ Served(S, p) /\ S[p].obj = y
        BY <1>6, <3>1 DEF Served
      <3> QED
        BY <3>2
    <2> QED
      BY <2>1, <2>2
  <1>18. \A y \in 1..Len(O) : O[y].freed => O[y].ref = 0 /\ y \notin t \union u
    <2> SUFFICES ASSUME NEW y \in 1..Len(O), O[y].freed
                 PROVE  O[y].ref = 0 /\ y \notin t \union u
      OBVIOUS
    <2>1. y \in 1..Len(o) /\ O[y] = o[y]
      BY <1>3, <1>7, <1>8, <1>9, SMTT(30)
    <2>2. o[y].ref = 0 /\ y \notin t
      BY <2>1 DEF Listed
    <2> QED
      BY <1>9, <2>1, <2>2
  <1>19. t \union u \subseteq 1..Len(O)
    BY <1>1, <1>7, <1>9
  <1>20. Listed(S, O, t \union u)
    BY ZenonT(30), <1>4, <1>7, <1>13, <1>14, <1>16, <1>17, <1>18, <1>19 DEF Listed
  <1>21. SameRefs(o, O)
    BY <1>2, <1>3, <1>7, <1>8, <1>9 DEF SameRefs
  <1> QED
    BY Zenon, <1>20, <1>21 DEF S, O, c
-----------------------------------------------------------------------------
(* One more or one less.                                                  *)
Change(f, r, y, x) == IF x = y THEN 1 ELSE IF x = f[r] THEN -1 ELSE 0

(* User r turns to y, the others do not change.                           *)
Moved(S, f, g, r, y) ==
    r \in S /\ y # f[r] /\ g[r] = y /\ \A u \in S : u # r => g[u] = f[u]

(* How many use upstream x, when one of them turns to another.            *)
LEMMA UsersMoved ==
    ASSUME NEW S, IsFiniteSet(S), NEW f, NEW g, NEW r, NEW y, NEW x, Moved(S, f, g, r, y)
    PROVE  Cardinality(Users(g, S, x)) = Cardinality(Users(f, S, x)) + Change(f, r, y, x)
  <1> DEFINE A == Users(f, S, x)
             B == Users(g, S, x)
  <1>1. A \subseteq S
    BY DEF Users
  <1>2. IsFiniteSet(A)
    BY <1>1, FS_Subset
  <1>3. Cardinality(A) \in Nat
    BY <1>2, FS_CardinalityType
  <1>4. CASE x = y
    <2>1. B = A \union {r} /\ r \notin A
      BY <1>4 DEF Users, Moved
    <2> HIDE DEF A, B
    <2>2. Cardinality(B) = Cardinality(A) + 1
      BY <1>2, <2>1, FS_AddElement
    <2> QED
      BY <1>3, <1>4, <2>2 DEF Change, A, B
  <1>5. CASE x # y /\ x = f[r]
    <2>1. B = A \ {r} /\ r \in A
      BY <1>5 DEF Users, Moved
    <2> HIDE DEF A, B
    <2>2. Cardinality(B) = Cardinality(A) - 1
      BY <1>2, <2>1, FS_RemoveElement
    <2>3. Cardinality(B) \in Nat
      BY <1>2, <2>1, FS_CardinalityType, FS_RemoveElement
    <2>4. Change(f, r, y, x) = -1
      BY <1>5 DEF Change
    <2> QED
      BY <1>3, <2>2, <2>3, <2>4 DEF A, B
  <1>6. CASE x # y /\ x # f[r]
    <2>1. B = A
      BY <1>6 DEF Users, Moved
    <2> HIDE DEF A, B
    <2>2. Change(f, r, y, x) = 0
      BY <1>6 DEF Change
    <2> QED
      BY <1>3, <1>6, <2>1, <2>2 DEF A, B
  <1> QED
    BY <1>4, <1>5, <1>6

(* How many use upstream x is a number, not 0 if somebody does.           *)
LEMMA UsersNat ==
    ASSUME NEW S, IsFiniteSet(S), NEW f, NEW x
    PROVE  /\ Cardinality(Users(f, S, x)) \in Nat
           /\ Users(f, S, x) # {} => Cardinality(Users(f, S, x)) >= 1
  <1> DEFINE A == Users(f, S, x)
  <1>1. A \subseteq S
    BY DEF Users
  <1> HIDE DEF A
  <1>2. IsFiniteSet(A)
    BY <1>1, FS_Subset
  <1>3. Cardinality(A) \in Nat /\ (Cardinality(A) = 0 <=> A = {})
    BY <1>2, FS_CardinalityType, FS_EmptySet
  <1>4. A # {} => Cardinality(A) >= 1
    BY <1>3
  <1> QED
    BY <1>3, <1>4 DEF A

(* Nothing uses an upstream that did not exist.                           *)
LEMMA HeldKept ==
    ASSUME NEW o \in Seq(ObjType), NEW p, NEW rq, NEW cn, Held(o, rq, cn), SameRefs(o, p)
    PROVE  Held(p, rq, cn)
  <1>1. Len(o) \in Nat /\ p \in Seq(ObjType)
    BY DEF SameRefs
  <1>2. Len(p) \in Nat /\ Len(p) >= Len(o)
    BY <1>1 DEF SameRefs
  <1>3. /\ rq \in [Requests -> (1..Len(o)) \union {0}]
        /\ cn \in [Conns -> (1..Len(o)) \union {0}]
    BY DEF Held
  <1>4. (1..Len(o)) \union {0} \subseteq (1..Len(p)) \union {0}
    BY <1>1, <1>2
  <1>5. /\ rq \in [Requests -> (1..Len(p)) \union {0}]
        /\ cn \in [Conns -> (1..Len(p)) \union {0}]
    BY <1>3, <1>4
  <1>6. ASSUME NEW x \in 1..Len(p)
        PROVE  p[x].ref >= Cardinality(Users(rq, Requests, x)) + Cardinality(Users(cn, Conns, x))
    <2>1. CASE x \in 1..Len(o)
      <3>1. p[x].ref = o[x].ref
        BY <2>1 DEF SameRefs
      <3> QED
        BY <2>1, <3>1 DEF Held
    <2>2. CASE x \notin 1..Len(o)
      <3>1. x > Len(o) /\ x # 0
        BY <1>1, <1>2, <2>2
      <3>2. p[x].ref = 0
        BY <3>1 DEF SameRefs
      <3>3. Users(rq, Requests, x) = {} /\ Users(cn, Conns, x) = {}
        BY <1>3, <2>2, <3>1 DEF Users
      <3>4. Cardinality({}) = 0
        BY FS_EmptySet
      <3> QED
        BY <3>2, <3>3, <3>4
    <2> QED
      BY <2>1, <2>2
  <1> QED
    BY <1>5, <1>6 DEF Held

(* A reference count that changes leaves the list in order.               *)
LEMMA RefListed ==
    ASSUME Listed(slots, objs, tree), NEW x \in 1..Len(objs), NEW k \in Int,
           objs[x].ref + k \in Nat, ~objs[x].freed
    PROVE  /\ Listed(slots, Ref(x, k), tree)
           /\ Ref(x, k) \in Seq(ObjType) /\ Len(Ref(x, k)) = Len(objs)
           /\ Ref(x, k)[x].ref = objs[x].ref + k
           /\ \A y \in 1..Len(objs) : y # x => Ref(x, k)[y].ref = objs[y].ref
  <1> DEFINE O == Ref(x, k)
  <1>1. slots \in Seq(SlotType) /\ objs \in Seq(ObjType) /\ tree \subseteq 1..Len(objs)
    BY DEF Listed
  <1>2. DOMAIN objs = 1..Len(objs) /\ Len(objs) \in Nat /\ \A y \in 1..Len(objs) : objs[y] \in ObjType
    BY <1>1
  <1> DEFINE c == [objs[x] EXCEPT !.ref = objs[x].ref + k]
  <1>3. c \in ObjType /\ c.ref = objs[x].ref + k /\ ~c.freed /\ c.name = objs[x].name
    BY <1>2 DEF ObjType
  <1>4. O = [objs EXCEPT ![x] = c]
    BY <1>2 DEF Ref
  <1> HIDE DEF O, c
  <1>5. O \in [1..Len(objs) -> ObjType]
    BY <1>1, <1>2, <1>3, <1>4
  <1>6. O \in Seq(ObjType) /\ Len(O) = Len(objs)
    BY <1>2, <1>5, Sequence
  <1>7. O[x] = c /\ \A y \in 1..Len(objs) : y # x => O[y] = objs[y]
    BY <1>2, <1>4
  <1>8. \A y \in 1..Len(objs) : O[y].name = objs[y].name
    BY <1>3, <1>7
  <1>9. \A y \in 1..Len(O) : O[y].freed => O[y].ref = 0 /\ y \notin tree
    BY ZenonT(30), <1>3, <1>6, <1>7 DEF Listed
  <1>10. \A i \in DOMAIN slots : IF slots[i].dynamic THEN slots[i].obj \in 1..Len(O) ELSE slots[i].obj = 0
    BY <1>6 DEF Listed
  <1>11. \A i, j \in DOMAIN slots :
            slots[i].dynamic /\ slots[j].dynamic /\ slots[i].obj = slots[j].obj => i = j
    BY DEF Listed
  <1>12. \A i, j \in DOMAIN slots :
            Served(slots, i) /\ Served(slots, j) /\ O[slots[i].obj].name = O[slots[j].obj].name => i = j
    <2>1. \A i \in DOMAIN slots : Served(slots, i) => slots[i].obj \in 1..Len(objs)
      BY DEF Listed, Served
    <2> QED
      BY Zenon, <1>8, <2>1 DEF Listed
  <1>13. \A y \in tree : \E i \in DOMAIN slots : Served(slots, i) /\ slots[i].obj = y
    BY DEF Listed
  <1>14. tree \subseteq 1..Len(O)
    BY <1>1, <1>6
  <1>15. Listed(slots, O, tree)
    BY Zenon, <1>1, <1>6, <1>9, <1>10, <1>11, <1>12, <1>13, <1>14, Zenon DEF Listed
  <1>16. O[x].ref = objs[x].ref + k /\ \A y \in 1..Len(objs) : y # x => O[y].ref = objs[y].ref
    BY <1>3, <1>7
  <1> QED
    BY <1>6, <1>15, <1>16 DEF O
(* A request takes up or drops an upstream, and with it a reference.     *)
LEMMA HeldRequest ==
    ASSUME NEW o, NEW p, NEW rq, NEW cn, Held(o, rq, cn), NEW r \in Requests,
           NEW y \in (1..Len(o)) \union {0}, y # rq[r], Len(p) = Len(o),
           \A x \in 1..Len(o) : /\ o[x].ref \in Nat /\ p[x].ref \in Nat
                                /\ p[x].ref >= o[x].ref + Change(rq, r, y, x)
    PROVE  Held(p, [rq EXCEPT ![r] = y], cn)
  <1> DEFINE g == [rq EXCEPT ![r] = y]
  <1>1. IsFiniteSet(Requests) /\ IsFiniteSet(Conns)
    BY ConstantsAssumption
  <1>2. /\ rq \in [Requests -> (1..Len(o)) \union {0}]
        /\ cn \in [Conns -> (1..Len(o)) \union {0}]
    BY DEF Held
  <1>3. g \in [Requests -> (1..Len(p)) \union {0}]
    BY <1>2
  <1>4. ASSUME NEW x \in 1..Len(o)
        PROVE  p[x].ref >= Cardinality(Users(g, Requests, x)) + Cardinality(Users(cn, Conns, x))
    <2>1. Cardinality(Users(rq, Requests, x)) \in Nat /\ Cardinality(Users(cn, Conns, x)) \in Nat
      BY <1>1, UsersNat, ZenonT(30)
    <2>2. Cardinality(Users(g, Requests, x)) =
             Cardinality(Users(rq, Requests, x)) + Change(rq, r, y, x)
      <3>1. Moved(Requests, rq, g, r, y)
        BY <1>2 DEF Moved
      <3> HIDE DEF g
      <3> QED
        BY <1>1, <3>1, UsersMoved, SMTT(30)
    <2>3. o[x].ref >= Cardinality(Users(rq, Requests, x)) + Cardinality(Users(cn, Conns, x))
      BY <2>1 DEF Held
    <2>4. Change(rq, r, y, x) \in Int
      BY DEF Change
    <2> HIDE DEF g
    <2> QED
      BY <2>1, <2>2, <2>3, <2>4, SMTT(30)
  <1> HIDE DEF g
  <1>5. Held(p, g, cn)
    BY <1>2, <1>3, <1>4 DEF Held
  <1> QED
    BY <1>5 DEF g

(* So does a connection.                                                *)
LEMMA HeldConn ==
    ASSUME NEW o, NEW p, NEW rq, NEW cn, Held(o, rq, cn), NEW r \in Conns,
           NEW y \in (1..Len(o)) \union {0}, y # cn[r], Len(p) = Len(o),
           \A x \in 1..Len(o) : /\ o[x].ref \in Nat /\ p[x].ref \in Nat
                                /\ p[x].ref >= o[x].ref + Change(cn, r, y, x)
    PROVE  Held(p, rq, [cn EXCEPT ![r] = y])
  <1> DEFINE g == [cn EXCEPT ![r] = y]
  <1>1. IsFiniteSet(Requests) /\ IsFiniteSet(Conns)
    BY ConstantsAssumption
  <1>2. /\ rq \in [Requests -> (1..Len(o)) \union {0}]
        /\ cn \in [Conns -> (1..Len(o)) \union {0}]
    BY DEF Held
  <1>3. g \in [Conns -> (1..Len(p)) \union {0}]
    BY <1>2, ZenonT(30)
  <1>4. ASSUME NEW x \in 1..Len(o)
        PROVE  p[x].ref >= Cardinality(Users(rq, Requests, x)) + Cardinality(Users(g, Conns, x))
    <2>1. Cardinality(Users(cn, Conns, x)) \in Nat /\ Cardinality(Users(rq, Requests, x)) \in Nat
      BY <1>1, UsersNat, ZenonT(30)
    <2>2. Cardinality(Users(g, Conns, x)) =
             Cardinality(Users(cn, Conns, x)) + Change(cn, r, y, x)
      <3>1. Moved(Conns, cn, g, r, y)
        BY <1>2 DEF Moved
      <3> HIDE DEF g
      <3> QED
        BY <1>1, <3>1, UsersMoved, SMTT(30)
    <2>3. o[x].ref >= Cardinality(Users(cn, Conns, x)) + Cardinality(Users(rq, Requests, x))
      BY <2>1 DEF Held
    <2>4. Change(cn, r, y, x) \in Int
      BY DEF Change
    <2> HIDE DEF g
    <2> QED
      BY SMTT(30), <2>1, <2>2, <2>3, <2>4
  <1> HIDE DEF g
  <1>5. Held(p, rq, g)
    BY <1>2, <1>3, <1>4, ZenonT(30) DEF Held
  <1> QED
    BY <1>5 DEF g

(* What is used has a reference, and is not freed.                        *)
LEMMA UsedKept ==
    ASSUME Listed(slots, objs, tree), Held(objs, request, conn)
    PROVE  /\ \A r \in Requests : request[r] # 0 =>
                 /\ request[r] \in 1..Len(objs)
                 /\ objs[request[r]].ref >= 1 /\ ~objs[request[r]].freed
           /\ \A c \in Conns : conn[c] # 0 =>
                 /\ conn[c] \in 1..Len(objs)
                 /\ objs[conn[c]].ref >= 1 /\ ~objs[conn[c]].freed
  <1>1. IsFiniteSet(Requests) /\ IsFiniteSet(Conns)
    BY ConstantsAssumption
  <1>2. /\ request \in [Requests -> (1..Len(objs)) \union {0}]
        /\ conn \in [Conns -> (1..Len(objs)) \union {0}]
    BY DEF Held
  <1>3. \A x \in 1..Len(objs) : objs[x].ref \in Nat
    <2>1. objs \in Seq(ObjType)
      BY DEF Listed
    <2>2. \A x \in 1..Len(objs) : objs[x] \in ObjType
      BY <2>1
    <2> QED
      BY <2>2 DEF ObjType
  <1>4. ASSUME NEW r \in Requests, request[r] # 0
        PROVE  /\ request[r] \in 1..Len(objs)
               /\ objs[request[r]].ref >= 1 /\ ~objs[request[r]].freed
    <2> DEFINE x == request[r]
    <2>1. x \in 1..Len(objs)
      BY <1>2, <1>4
    <2>2. /\ Cardinality(Users(request, Requests, x)) \in Nat
          /\ Cardinality(Users(conn, Conns, x)) \in Nat
      BY <1>1, UsersNat
    <2>3. Cardinality(Users(request, Requests, x)) >= 1
      <3>1. r \in Users(request, Requests, x)
        BY DEF Users
      <3> QED
        BY <1>1, <3>1, UsersNat
    <2>4. objs[x].ref >= Cardinality(Users(request, Requests, x)) + Cardinality(Users(conn, Conns, x))
      BY <2>1 DEF Held
    <2> HIDE DEF x
    <2>5. objs[x].ref >= 1
      BY <1>3, <2>1, <2>2, <2>3, <2>4, SMTT(30)
    <2>6. ~objs[x].freed
      BY <2>1, <2>5 DEF Listed
    <2> QED
      BY <2>1, <2>5, <2>6 DEF x
  <1>5. ASSUME NEW c \in Conns, conn[c] # 0
        PROVE  /\ conn[c] \in 1..Len(objs)
               /\ objs[conn[c]].ref >= 1 /\ ~objs[conn[c]].freed
    <2> DEFINE x == conn[c]
    <2>1. x \in 1..Len(objs)
      BY <1>2, <1>5, ZenonT(30)
    <2>2. /\ Cardinality(Users(request, Requests, x)) \in Nat
          /\ Cardinality(Users(conn, Conns, x)) \in Nat
      BY <1>1, UsersNat
    <2>3. Cardinality(Users(conn, Conns, x)) >= 1
      <3>1. c \in Users(conn, Conns, x)
        BY DEF Users
      <3> QED
        BY <1>1, <3>1, UsersNat
    <2>4. objs[x].ref >= Cardinality(Users(request, Requests, x)) + Cardinality(Users(conn, Conns, x))
      BY <2>1 DEF Held
    <2> HIDE DEF x
    <2>5. objs[x].ref >= 1
      BY <1>3, <2>1, <2>2, <2>3, <2>4
    <2>6. ~objs[x].freed
      BY <2>1, <2>5 DEF Listed
    <2> QED
      BY <2>1, <2>5, <2>6 DEF x
  <1> QED
    BY <1>4, <1>5
-----------------------------------------------------------------------------
(* The upstreams of the configuration file.                               *)
LEMMA InitInv == Init => SlotsInv
  <1> SUFFICES ASSUME Init PROVE SlotsInv
    OBVIOUS
  <1> DEFINE k == Len(StaticNames)
  <1>1. StaticNames \in Seq(Names) /\ k \in Nat /\ DOMAIN StaticNames = 1..k
    BY ConstantsAssumption
  <1>2. \A i \in 1..k : StaticNames[i] \in Names
    BY <1>1
  <1>3. \A i \in 1..k : /\ NewSlot(i) \in SlotType /\ NewSlot(i).dynamic
                        /\ NewSlot(i).deleted = "no" /\ NewSlot(i).obj = i
    BY <1>1 DEF NewSlot, SlotType
  <1>4. \A i \in 1..k : /\ NewObj(StaticNames[i], FALSE, "ready") \in ObjType
                        /\ NewObj(StaticNames[i], FALSE, "ready").name = StaticNames[i]
                        /\ NewObj(StaticNames[i], FALSE, "ready").ref = 0
                        /\ ~NewObj(StaticNames[i], FALSE, "ready").freed
    BY <1>2 DEF NewObj, ObjType, Built
  <1> HIDE DEF k
  <1>5. /\ slots = [i \in 1..k |-> NewSlot(i)]
        /\ objs = [i \in 1..k |-> NewObj(StaticNames[i], FALSE, "ready")]
        /\ tree = 1..k
    BY <1>1 DEF Init
  <1>6. slots \in [1..k -> SlotType] /\ objs \in [1..k -> ObjType]
    BY Zenon, <1>3, <1>4, <1>5
  <1>7. slots \in Seq(SlotType) /\ DOMAIN slots = 1..k
    BY <1>1, <1>6, Sequence
  <1>8. objs \in Seq(ObjType) /\ Len(objs) = k
    BY <1>1, <1>6, Sequence
  <1>9. \A i \in 1..k : slots[i].dynamic /\ Served(slots, i) /\ slots[i].obj = i
    BY <1>3, <1>5 DEF Served
  <1>10. \A i \in 1..k : objs[i].name = StaticNames[i] /\ objs[i].ref = 0 /\ ~objs[i].freed
    BY Zenon, <1>4, <1>5
  <1>11. \A i, j \in 1..k : StaticNames[i] = StaticNames[j] => i = j
    BY <1>1, ConstantsAssumption, ZenonT(30)
  <1>12. Listed(slots, objs, tree)
    <2>1. tree \subseteq 1..Len(objs)
      BY Zenon, <1>5, <1>8
    <2>2. \A i \in DOMAIN slots :
             IF slots[i].dynamic THEN slots[i].obj \in 1..Len(objs) ELSE slots[i].obj = 0
      BY <1>7, <1>8, <1>9
    <2>3. \A i, j \in DOMAIN slots :
             slots[i].dynamic /\ slots[j].dynamic /\ slots[i].obj = slots[j].obj => i = j
      BY <1>7, <1>9
    <2>4. \A i, j \in DOMAIN slots :
             /\ Served(slots, i) /\ Served(slots, j)
             /\ objs[slots[i].obj].name = objs[slots[j].obj].name => i = j
      BY <1>7, <1>9, <1>10, <1>11
    <2>5. \A x \in tree : \E i \in DOMAIN slots : Served(slots, i) /\ slots[i].obj = x
      BY Zenon, <1>5, <1>7, <1>9
    <2>6. \A x \in 1..Len(objs) : objs[x].freed => objs[x].ref = 0 /\ x \notin tree
      BY <1>8, <1>10
    <2> QED
      BY <1>7, <1>8, <2>1, <2>2, <2>3, <2>4, <2>5, <2>6 DEF Listed
  <1>13. Held(objs, request, conn)
    <2>1. /\ request = [r \in Requests |-> 0] /\ conn = [c \in Conns |-> 0]
      BY DEF Init
    <2>2. /\ request \in [Requests -> (1..Len(objs)) \union {0}]
          /\ conn \in [Conns -> (1..Len(objs)) \union {0}]
      BY <2>1
    <2>3. \A x \in 1..Len(objs) : Users(request, Requests, x) = {} /\ Users(conn, Conns, x) = {}
      BY <1>1, <1>8, <2>1 DEF Users
    <2>4. Cardinality({}) = 0
      BY FS_EmptySet
    <2>5. \A x \in 1..Len(objs) : objs[x].ref >= 0 + 0
      BY <1>8, <1>10
    <2> QED
      BY Zenon, <2>2, <2>3, <2>4, <2>5 DEF Held
  <1> QED
    BY Zenon, <1>12, <1>13 DEF SlotsInv, Init

(* Counts that stay when no object is added.                              *)
LEMMA SameLength ==
    ASSUME NEW o, NEW p \in Seq(ObjType), Len(p) = Len(o), Len(o) \in Nat,
           \A x \in 1..Len(o) : p[x].ref = o[x].ref
    PROVE  SameRefs(o, p)
  BY DEF SameRefs

(* An update, however far it gets, keeps the list in order.               *)
LEMMA UpdateInv ==
    ASSUME SlotsInv, NEW n \in Names, DoUpdate(n) \/ DoUpdateFails(n)
    PROVE  SlotsInv'
  <1> DEFINE f == Cleared(n)
             x0 == OldSlot(f)
             x1 == [x0 EXCEPT !.dynamic = TRUE, !.obj = Len(objs) + 1]
             x2 == NewSlot(Len(objs) + 1)
             new == Len(objs) + 1
  <1>1. Listed(slots, objs, tree) /\ Held(objs, request, conn) /\ crashed \in BOOLEAN /\ fails \in Nat
    BY DEF SlotsInv
  <1>2. Listed(f.slots, f.objs, f.tree)
    BY <1>1, ClearedFacts
  <1>3. Unserved(f.slots, f.objs, n)
    BY <1>1, ClearedFacts
  <1>4. FreeSlot(f.slots, f.idx)
    BY <1>1, ClearedFacts
  <1>5. SameRefs(objs, f.objs) /\ Len(f.objs) = Len(objs)
    BY <1>1, ClearedFacts
  <1> HIDE DEF f
  <1>6. objs \in Seq(ObjType) /\ Len(objs) \in Nat
    BY <1>1, SMTT(30) DEF Listed
  <1>7. f.slots \in Seq(SlotType) /\ f.objs \in Seq(ObjType)
    BY <1>2 DEF Listed
  <1>8. x0 \in SlotType
    <2>1. CASE f.idx = 0
      <3>1. NewSlot(0) \in SlotType
        BY DEF NewSlot, SlotType
      <3> QED
        BY Zenon, <2>1, <3>1 DEF OldSlot, SlotType
    <2>2. CASE f.idx # 0
      BY <1>4, <1>7, <2>2 DEF OldSlot, FreeSlot
    <2> QED
      BY <2>1, <2>2
  <1>9. IF f.idx = 0 THEN ~x0.dynamic /\ x0.obj = 0 ELSE x0 = f.slots[f.idx]
    BY DEF OldSlot, NewSlot
  <1> HIDE DEF x0
  <1>10. x1 \in SlotType /\ x1.dynamic /\ x1.obj = new
    <2> DEFINE z == [x0 EXCEPT !.dynamic = TRUE]
    <2>1. z \in SlotType /\ z.dynamic
      BY Zenon, <1>8 DEF SlotType
    <2>2. x1 = [z EXCEPT !.obj = new]
      BY <1>8 DEF SlotType
    <2>3. new \in Nat
      BY <1>6
    <2> HIDE DEF z, new, x1
    <2> QED
      BY <2>1, <2>2, <2>3 DEF SlotType
  <1>11. x2 \in SlotType /\ x2.dynamic /\ x2.obj = new /\ x2.deleted = "no"
    BY <1>6 DEF SlotType, NewSlot
  <1> HIDE DEF x1, x2
  <1>12. ASSUME NoSlot(f) PROVE Listed(slots', objs', tree') /\ SameRefs(objs, objs')
    BY <1>2, <1>5, <1>12 DEF NoSlot
  <1>13. ASSUME BeforeSlot(f) PROVE Listed(slots', objs', tree') /\ SameRefs(objs, objs')
    <2>1. Listed(Put(f.slots, f.idx, x0), f.objs, f.tree)
      BY <1>2, <1>4, <1>8, <1>9, EmptyListed
    <2>2. slots' = Put(f.slots, f.idx, x0) /\ objs' = f.objs /\ tree' = f.tree
      BY <1>13 DEF BeforeSlot, x0
    <2> QED
      BY <1>5, <2>1, <2>2, ZenonT(30)
  <1>14. ASSUME NEW p, SameRefs(f.objs, p) PROVE SameRefs(objs, p)
    BY <1>5, <1>6, <1>14 DEF SameRefs
  <1>15. ASSUME AfterSlot(f, n, new) PROVE Listed(slots', objs', tree') /\ SameRefs(objs, objs')
    <2>1. "conf" \in Built /\ {} \in SUBSET {Len(f.objs) + 1}
      BY DEF Built
    <2>2. /\ Listed(Put(f.slots, f.idx, x1), Append(f.objs, NewObj(n, TRUE, "conf")), f.tree \union {})
          /\ SameRefs(f.objs, Append(f.objs, NewObj(n, TRUE, "conf")))
      BY Zenon, <1>2, <1>3, <1>4, <1>5, <1>10, <2>1, EnterListed
    <2>3. /\ slots' = Put(f.slots, f.idx, x1) /\ tree' = f.tree
          /\ objs' = Append(f.objs, NewObj(n, TRUE, "conf"))
      BY <1>15 DEF AfterSlot, x1, x0
    <2>4. tree' = f.tree \union {}
      BY <2>3
    <2> QED
      BY Zenon, <1>14, <2>2, <2>3, <2>4
  <1>16. ASSUME NEW b \in Built, Entered(f, n, new, b)
         PROVE  Listed(slots', objs', tree') /\ SameRefs(objs, objs')
    <2>1. {new} \in SUBSET {Len(f.objs) + 1}
      BY <1>5
    <2>2. /\ Listed(Put(f.slots, f.idx, x2), Append(f.objs, NewObj(n, TRUE, b)), f.tree \union {new})
          /\ SameRefs(f.objs, Append(f.objs, NewObj(n, TRUE, b)))
      BY Zenon, <1>2, <1>3, <1>4, <1>5, <1>11, <2>1, EnterListed
    <2>3. /\ slots' = Put(f.slots, f.idx, x2) /\ tree' = f.tree \union {new}
          /\ objs' = Append(f.objs, NewObj(n, TRUE, b))
      BY <1>16 DEF Entered, x2
    <2> QED
      BY Zenon, <1>14, <2>2, <2>3
  <1>17. Listed(slots', objs', tree') /\ SameRefs(objs, objs')
    <2>1. CASE DoUpdate(n)
      BY <1>16, <2>1 DEF DoUpdate, Built, f
    <2>2. CASE DoUpdateFails(n)
      BY <1>12, <1>13, <1>15, <1>16, <2>2 DEF DoUpdateFails, Built, f
    <2> QED
      BY <2>1, <2>2
  <1>18. /\ UNCHANGED <<request, conn, crashed>> /\ fails' \in Nat
    BY <1>1 DEF DoUpdate, DoUpdateFails
  <1>19. Held(objs', request', conn')
    BY <1>1, <1>6, <1>17, <1>18, HeldKept
  <1> QED
    BY <1>1, <1>17, <1>18, <1>19 DEF SlotsInv
(* A DELETE marks the upstream and frees none that is served.             *)
LEMMA DeleteInv ==
    ASSUME SlotsInv, NEW n \in Names, DoDelete(n)
    PROVE  SlotsInv'
  <1> DEFINE m == Match(slots, objs, n)
             s1 == Swept(slots, objs, n)
             o1 == Freed(slots, objs, n)
  <1>1. Listed(slots, objs, tree) /\ Held(objs, request, conn) /\ crashed \in BOOLEAN /\ fails \in Nat
    BY DEF SlotsInv
  <1>2. slots \in Seq(SlotType) /\ objs \in Seq(ObjType)
    BY <1>1 DEF Listed
  <1>3. Listed(s1, o1, tree)
    BY <1>1, SweepListed, ZenonT(30)
  <1>4. s1 \in Seq(SlotType) /\ Len(s1) = Len(slots)
    BY SMTT(30), <1>2, SweptShape
  <1>5. \A i \in DOMAIN slots : /\ s1[i].dynamic <=> slots[i].dynamic
                                /\ s1[i].obj = slots[i].obj
                                /\ s1[i].deleted = "no" <=> slots[i].deleted = "no"
    BY <1>2, SweptShape, SMTT(30)
  <1>6. o1 \in Seq(ObjType) /\ Len(o1) = Len(objs)
    BY SMTT(30), <1>2, SweptShape
  <1>7. \A x \in DOMAIN objs : o1[x].ref = objs[x].ref
    BY <1>2, SweptShape
  <1>8. m # 0 => m \in DOMAIN slots /\ Served(slots, m)
    <2>1. \A i, j \in Matches(slots, objs, n) : i = j
      BY <1>1 DEF Listed, Served, Matches
    <2>2. m # 0 => Matches(slots, objs, n) = {m}
      BY <1>2, <2>1, MatchFacts
    <2> QED
      BY ZenonT(30), <2>2 DEF Matches, Served
  <1>9. /\ slots' = IF m = 0 THEN s1 ELSE MarkedSlots(s1, m)
        /\ objs' = o1
        /\ tree' = IF m = 0 THEN tree ELSE MarkedTree(tree, slots[m].obj)
        /\ UNCHANGED <<request, conn, crashed, fails>>
    BY DEF DoDelete
  <1> HIDE DEF m, s1, o1
  <1>10. DOMAIN s1 = DOMAIN slots /\ DOMAIN objs = 1..Len(objs) /\ Len(objs) \in Nat
    BY <1>2, <1>4
  <1>11. Listed(slots', objs', tree')
    <2>1. CASE m = 0
      BY <1>3, <1>9, <2>1, ZenonT(30)
    <2>2. CASE m # 0
      <3>1. m \in DOMAIN s1 /\ Served(s1, m) /\ s1[m].obj = slots[m].obj
        BY <1>5, <1>8, <1>10, <2>2, ZenonT(30) DEF Served
      <3>2. Listed(MarkedSlots(s1, m), o1, MarkedTree(tree, s1[m].obj))
        BY ZenonT(30), <1>3, <3>1, MarkListed
      <3> QED
        BY <1>9, <2>2, <3>1, <3>2, ZenonT(30)
    <2> QED
      BY <2>1, <2>2
  <1>12. SameRefs(objs, objs')
    <2>1. objs' \in Seq(ObjType) /\ Len(objs') = Len(objs) /\ Len(objs) \in Nat
      BY <1>6, <1>9, <1>10, Zenon
    <2>2. \A x \in 1..Len(objs) : objs'[x].ref = objs[x].ref
      BY <1>7, <1>9, <1>10, Zenon
    <2> QED
      BY <2>1, <2>2, SameLength, Zenon
  <1>13. Held(objs', request', conn')
    BY <1>1, <1>2, <1>9, <1>12, HeldKept
  <1> QED
    BY <1>1, <1>9, <1>11, <1>13 DEF SlotsInv

(* References are taken and dropped one by one.                           *)
LEMMA RefInv ==
    ASSUME SlotsInv,
           \/ \E r \in Requests, n \in Names : InitPeer(r, n)
           \/ \E r \in Requests, c \in Conns : FreePeer(r, c)
           \/ \E r \in Requests : CleanRequest(r)
           \/ \E c \in Conns : CleanConn(c)
    PROVE  SlotsInv'
  <1>1. Listed(slots, objs, tree) /\ Held(objs, request, conn) /\ crashed \in BOOLEAN /\ fails \in Nat
    BY ZenonT(30) DEF SlotsInv
  <1>2. objs \in Seq(ObjType) /\ tree \subseteq 1..Len(objs) /\ Len(objs) \in Nat
    BY SMTT(30), <1>1 DEF Listed
  <1>3. \A x \in 1..Len(objs) : objs[x].ref \in Nat
    <2>1. \A x \in 1..Len(objs) : objs[x] \in ObjType
      BY SMTT(30), <1>2
    <2> QED
      BY <2>1 DEF ObjType
  <1>4. \A r \in Requests : request[r] # 0 =>
           /\ request[r] \in 1..Len(objs)
           /\ objs[request[r]].ref >= 1 /\ ~objs[request[r]].freed
    BY ZenonT(30), <1>1, UsedKept
  <1>5. \A c \in Conns : conn[c] # 0 =>
           /\ conn[c] \in 1..Len(objs)
           /\ objs[conn[c]].ref >= 1 /\ ~objs[conn[c]].freed
    BY ZenonT(30), <1>1, UsedKept
  <1>6. ASSUME NEW x \in 1..Len(objs), NEW k \in {-1, 1}, ~objs[x].freed,
               k = -1 => objs[x].ref >= 1, objs' = Ref(x, k), UNCHANGED <<slots, tree>>
        PROVE  /\ Listed(slots', objs', tree') /\ Len(objs') = Len(objs)
               /\ \A y \in 1..Len(objs) : objs[y].ref \in Nat /\ objs'[y].ref \in Nat
               /\ objs'[x].ref = objs[x].ref + k
               /\ \A y \in 1..Len(objs) : y # x => objs'[y].ref = objs[y].ref
    <2>1. k \in Int /\ objs[x].ref + k \in Nat
      BY <1>3, <1>6
    <2>2. /\ Listed(slots, Ref(x, k), tree)
          /\ Ref(x, k) \in Seq(ObjType) /\ Len(Ref(x, k)) = Len(objs)
      BY Zenon, <1>1, <1>6, <2>1, RefListed
    <2>3. Ref(x, k)[x].ref = objs[x].ref + k
      BY Zenon, <1>1, <1>6, <2>1, RefListed
    <2>4. \A y \in 1..Len(objs) : y # x => Ref(x, k)[y].ref = objs[y].ref
      BY ZenonT(30), <1>1, <1>6, <2>1, RefListed
    <2>5. \A y \in 1..Len(objs) : Ref(x, k)[y].ref \in Nat
      BY ZenonT(30), <1>3, <2>1, <2>3, <2>4
    <2> QED
      BY <1>3, <1>6, <2>2, <2>3, <2>4, <2>5, ZenonT(30)
  <1>7. ASSUME NEW r \in Requests, NEW n \in Names, InitPeer(r, n)
        PROVE  SlotsInv'
    <2>1. PICK x \in tree : objs' = Ref(x, 1) /\ request' = [request EXCEPT ![r] = x]
      BY ZenonT(30), <1>7 DEF InitPeer, Named
    <2>2. request[r] = 0 /\ UNCHANGED <<slots, tree, conn, crashed, fails>>
      BY ZenonT(30), <1>7 DEF InitPeer
    <2>3. x \in 1..Len(objs) /\ ~objs[x].freed
      BY <1>1, <1>2, <2>1, ZenonT(30) DEF Listed
    <2>4. /\ Listed(slots', objs', tree') /\ Len(objs') = Len(objs)
          /\ \A y \in 1..Len(objs) : objs[y].ref \in Nat /\ objs'[y].ref \in Nat
          /\ objs'[x].ref = objs[x].ref + 1
          /\ \A y \in 1..Len(objs) : y # x => objs'[y].ref = objs[y].ref
      <3>1. PICK k \in {-1, 1} : k = 1
        OBVIOUS
      <3>2. objs' = Ref(x, k) /\ UNCHANGED <<slots, tree>> /\ (k = -1 => objs[x].ref >= 1)
        BY <2>1, <2>2, <3>1, SMTT(30)
      <3> QED
        BY Zenon, <1>6, <2>3, <3>1, <3>2
    <2>5. \A y \in 1..Len(objs) : objs'[y].ref >= objs[y].ref + Change(request, r, x, y)
      BY <2>2, <2>4 DEF Change
    <2>6. Held(objs', [request EXCEPT ![r] = x], conn)
      <3>1. x # request[r] /\ x \in (1..Len(objs)) \union {0}
        BY SMTT(30), <2>2, <2>3
      <3>2. \A y \in 1..Len(objs) : /\ objs[y].ref \in Nat /\ objs'[y].ref \in Nat
                                   /\ objs'[y].ref >= objs[y].ref + Change(request, r, x, y)
        BY <2>4, <2>5
      <3> QED
        BY <1>1, <2>4, <3>1, <3>2, HeldRequest, ZenonT(30)
    <2> QED
      BY <1>1, <2>1, <2>2, <2>4, <2>6, ZenonT(30) DEF SlotsInv
  <1>8. ASSUME NEW r \in Requests, CleanRequest(r)
        PROVE  SlotsInv'
    <2> DEFINE x == request[r]
    <2>1. /\ x # 0 /\ objs' = Ref(x, -1) /\ request' = [request EXCEPT ![r] = 0]
          /\ UNCHANGED <<slots, tree, conn, crashed, fails>>
      BY ZenonT(30), <1>8 DEF CleanRequest
    <2>2. x \in 1..Len(objs) /\ ~objs[x].freed /\ objs[x].ref >= 1
      BY ZenonT(30), <1>4, <2>1
    <2>3. /\ Listed(slots', objs', tree') /\ Len(objs') = Len(objs)
          /\ \A y \in 1..Len(objs) : objs[y].ref \in Nat /\ objs'[y].ref \in Nat
          /\ objs'[x].ref = objs[x].ref + (-1)
          /\ \A y \in 1..Len(objs) : y # x => objs'[y].ref = objs[y].ref
      BY ZenonT(30), <1>6, <2>1, <2>2
    <2>4. \A y \in 1..Len(objs) : objs'[y].ref >= objs[y].ref + Change(request, r, 0, y)
      BY <2>2, <2>3 DEF Change
    <2>5. Held(objs', [request EXCEPT ![r] = 0], conn)
      BY ZenonT(30), <1>1, <2>1, <2>3, <2>4, HeldRequest
    <2> QED
      BY Zenon, <1>1, <2>1, <2>3, <2>5 DEF SlotsInv
  <1>9. ASSUME NEW c \in Conns, CleanConn(c)
        PROVE  SlotsInv'
    <2> DEFINE x == conn[c]
    <2>1. /\ x # 0 /\ objs' = Ref(x, -1) /\ conn' = [conn EXCEPT ![c] = 0]
          /\ UNCHANGED <<slots, tree, request, crashed, fails>>
      BY ZenonT(30), <1>9 DEF CleanConn
    <2>2. x \in 1..Len(objs) /\ ~objs[x].freed /\ objs[x].ref >= 1
      BY ZenonT(30), <1>5, <2>1
    <2>3. /\ Listed(slots', objs', tree') /\ Len(objs') = Len(objs)
          /\ \A y \in 1..Len(objs) : objs[y].ref \in Nat /\ objs'[y].ref \in Nat
          /\ objs'[x].ref = objs[x].ref + (-1)
          /\ \A y \in 1..Len(objs) : y # x => objs'[y].ref = objs[y].ref
      BY ZenonT(30), <1>6, <2>1, <2>2
    <2>4. \A y \in 1..Len(objs) : objs'[y].ref >= objs[y].ref + Change(conn, c, 0, y)
      BY SMTT(30), <2>2, <2>3 DEF Change
    <2>5. Held(objs', request, [conn EXCEPT ![c] = 0])
      BY Zenon, <1>1, <2>1, <2>3, <2>4, HeldConn
    <2> QED
      BY Zenon, <1>1, <2>1, <2>3, <2>5 DEF SlotsInv
  <1>10. ASSUME NEW r \in Requests, NEW c \in Conns, FreePeer(r, c)
         PROVE  SlotsInv'
    <2> DEFINE x == request[r]
    <2>1. /\ x # 0 /\ conn[c] = 0 /\ objs' = Ref(x, 1)
          /\ UNCHANGED <<slots, tree, request, crashed>> /\ fails' \in Nat
          /\ conn' = [conn EXCEPT ![c] = x] \/ conn' = conn
      BY SMTT(30), <1>1, <1>10 DEF FreePeer
    <2>2. x \in 1..Len(objs) /\ ~objs[x].freed
      BY ZenonT(30), <1>4, <2>1
    <2>3. /\ Listed(slots', objs', tree') /\ Len(objs') = Len(objs)
          /\ \A y \in 1..Len(objs) : objs[y].ref \in Nat /\ objs'[y].ref \in Nat
          /\ objs'[x].ref = objs[x].ref + 1
          /\ \A y \in 1..Len(objs) : y # x => objs'[y].ref = objs[y].ref
      BY SMTT(30), <1>6, <2>1, <2>2
    <2>4. \A y \in 1..Len(objs) : objs'[y].ref >= objs[y].ref + Change(conn, c, x, y)
      BY <2>1, <2>2, <2>3 DEF Change
    <2>5. Held(objs', request, [conn EXCEPT ![c] = x])
      BY ZenonT(30), <1>1, <2>1, <2>2, <2>3, <2>4, HeldConn
    <2>6. Held(objs', request, conn)
      <3>1. IsFiniteSet(Requests) /\ IsFiniteSet(Conns)
        BY ConstantsAssumption
      <3>2. \A y \in 1..Len(objs) : objs'[y].ref >= objs[y].ref
        <4> TAKE y \in 1..Len(objs)
        <4>1. objs[y].ref \in Nat /\ objs[x].ref \in Nat
          BY ZenonT(30), <2>2, <2>3
        <4>2. objs'[x].ref = objs[x].ref + 1 /\ (y # x => objs'[y].ref = objs[y].ref)
          BY <2>3
        <4> HIDE DEF x
        <4> QED
          BY <4>1, <4>2
      <3>3. \A y \in 1..Len(objs) : objs'[y].ref >=
               Cardinality(Users(request, Requests, y)) + Cardinality(Users(conn, Conns, y))
        <4> TAKE y \in 1..Len(objs)
        <4>1. /\ Cardinality(Users(request, Requests, y)) \in Nat
              /\ Cardinality(Users(conn, Conns, y)) \in Nat
          BY ZenonT(30), <3>1, UsersNat
        <4>2. objs[y].ref >= Cardinality(Users(request, Requests, y)) + Cardinality(Users(conn, Conns, y))
          BY ZenonT(30), <1>1 DEF Held
        <4>3. objs'[y].ref >= objs[y].ref /\ objs[y].ref \in Nat /\ objs'[y].ref \in Nat
          BY <2>3, <3>2
        <4>4. PICK a \in Nat, b \in Nat : /\ a = Cardinality(Users(request, Requests, y))
                                        /\ b = Cardinality(Users(conn, Conns, y))
          BY ZenonT(30), <4>1
        <4>5. objs[y].ref >= a + b
          BY <4>2, <4>4, ZenonT(30)
        <4>6. objs'[y].ref >= a + b
          BY <4>3, <4>5
        <4> QED
          BY <4>4, <4>6, Zenon
      <3> QED
        BY Zenon, <1>1, <2>3, <3>3 DEF Held
    <2> QED
      BY ZenonT(30), <1>1, <2>1, <2>3, <2>5, <2>6 DEF SlotsInv
  <1> QED
    BY <1>7, <1>8, <1>9, <1>10

(* SlotsInv is inductive: it holds in every state of the worker.          *)
THEOREM SlotsInvCorrect == Spec => []SlotsInv
  <1>1. SlotsInv /\ [Next]_vars => SlotsInv'
    <2> SUFFICES ASSUME SlotsInv, [Next]_vars PROVE SlotsInv'
      OBVIOUS
    <2>1. ASSUME Crashes PROVE SlotsInv'
      BY <2>1 DEF Crashes, SlotsInv
    <2>2. CASE UNCHANGED vars
      BY <2>2 DEF vars, SlotsInv
    <2>3. ASSUME NEW n \in Names, DoUpdate(n) \/ DoUpdateFails(n) PROVE SlotsInv'
      BY <2>3, UpdateInv
    <2>4. ASSUME NEW n \in Names, DoDelete(n) PROVE SlotsInv'
      BY <2>4, DeleteInv
    <2>5. ASSUME NEW n \in Names, MarkCrashes(n) PROVE SlotsInv'
      BY <2>1, <2>5 DEF MarkCrashes
    <2>6. ASSUME NEW r \in Requests, NEW n \in Names, InitPeerCrashes(r, n) PROVE SlotsInv'
      BY <2>1, <2>6 DEF InitPeerCrashes
    <2> QED
      BY <2>2, <2>3, <2>4, <2>5, <2>6, RefInv DEF Next
  <1> QED
    BY <1>1, InitInv, PTL DEF Spec

(* Whatever updates, deletions, requests and connections come in which    *)
(* order: no request, no connection and no search by name ever meets      *)
(* memory that ngx_dyups_find_upstream has given back, and no name has    *)
(* two upstreams.                                                         *)
THEOREM NoUseAfterFreeCorrect == Spec => []NoUseAfterFree
  <1>1. SlotsInv => NoUseAfterFree
    <2> SUFFICES ASSUME SlotsInv PROVE NoUseAfterFree
      OBVIOUS
    <2>1. Listed(slots, objs, tree) /\ Held(objs, request, conn) /\ crashed \in BOOLEAN /\ fails \in Nat
      BY ZenonT(30) DEF SlotsInv
    <2>2. slots \in Seq(SlotType) /\ objs \in Seq(ObjType) /\ tree \subseteq Ids
      BY <2>1 DEF Listed, Ids
    <2>3. \A i \in DOMAIN slots : slots[i] \in SlotType
      BY <2>2
    <2>4. \A x \in Ids : objs[x] \in ObjType
      BY SMTT(30), <2>2 DEF Ids
    <2>5. \A i \in DOMAIN slots : slots[i].obj \in Ids \union {0}
      BY ZenonT(30), <2>1 DEF Listed, Ids
    <2>6. TypeOK
      <3>1. \A i \in DOMAIN slots : /\ slots[i].dynamic \in BOOLEAN
                                    /\ slots[i].deleted \in {"no", "deleting", "deleted"}
        BY <2>3, ZenonT(30) DEF SlotType
      <3>2. \A x \in Ids : /\ objs[x].name \in Names /\ objs[x].ref \in Nat
                           /\ objs[x].pool \in BOOLEAN /\ objs[x].freed \in BOOLEAN
                           /\ objs[x].built \in Built
        BY <2>4 DEF ObjType
      <3>3. /\ request \in [Requests -> Ids \union {0}]
            /\ conn \in [Conns -> Ids \union {0}]
        BY ZenonT(30), <2>1 DEF Held, Ids
      <3> QED
        BY <2>1, <2>2, <2>5, <3>1, <3>2, <3>3, ZenonT(30) DEF TypeOK
    <2>7. /\ \A r \in Requests : request[r] # 0 => ~objs[request[r]].freed
          /\ \A c \in Conns : conn[c] # 0 => ~objs[conn[c]].freed
      BY <2>1, UsedKept, ZenonT(30)
    <2>8. ASSUME NEW x \in tree
          PROVE  ~objs[x].freed /\ \A y \in tree : objs[y].name = objs[x].name => y = x
      <3>1. ~objs[x].freed
        BY <2>1, <2>2 DEF Listed, Ids
      <3>2. ASSUME NEW y \in tree, objs[y].name = objs[x].name PROVE y = x
        <4>1. PICK i \in DOMAIN slots : Served(slots, i) /\ slots[i].obj = x
          BY ZenonT(30), <2>1 DEF Listed
        <4>2. PICK j \in DOMAIN slots : Served(slots, j) /\ slots[j].obj = y
          BY ZenonT(30), <2>1 DEF Listed
        <4>3. i = j
          BY <2>1, <3>2, <4>1, <4>2, ZenonT(30) DEF Listed
        <4> QED
          BY ZenonT(30), <4>1, <4>2, <4>3
      <3> QED
        BY ZenonT(30), <3>1, <3>2
    <2> QED
      BY <2>6, <2>7, <2>8 DEF NoUseAfterFree
  <1> QED
    BY <1>1, SlotsInvCorrect, PTL
=============================================================================
