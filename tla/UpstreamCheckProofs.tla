------------------------ MODULE UpstreamCheckProofs -------------------------
(***************************************************************************)
(* Proofs about UpstreamCheck, for any number of workers and any times: a  *)
(* server changes sides only after enough results in a row; and, in the    *)
(* conditions of Calm, it has one checker at a time, and its checks are    *)
(* check_interval apart.                                                   *)
(***************************************************************************)
EXTENDS UpstreamCheck, FiniteSetTheorems, TLAPS

(* The last n results are r.                                               *)
EndsWith(q, r, n) ==
    n <= Len(q) /\ \A i \in (Len(q) - n) + 1 .. Len(q) : q[i] = r

(* rise and fall count the results at the end of the history.              *)
HystInv ==
    /\ recent \in Seq({0, 1})
    /\ down \in {0, 1} /\ result \in [Workers -> {0, 1}]
    /\ rise \in 0..RiseCount /\ EndsWith(recent, 1, rise)
    /\ fall \in 0..FallCount /\ EndsWith(recent, 0, fall)

(* The last results are kept.                                              *)
LEMMA EndsKept ==
  ASSUME NEW q \in Seq({0, 1}), NEW x \in {0, 1}, NEW n \in Nat, EndsWith(q, x, n),
         NEW m \in Nat, m <= n + 1, NEW L \in Nat, m <= L
  PROVE  LET a == Append(q, x)
             b == IF Len(a) > L THEN SubSeq(a, (Len(a) - L) + 1, Len(a)) ELSE a
         IN  b \in Seq({0, 1}) /\ EndsWith(b, x, m)
<1> DEFINE a == Append(q, x)
           b == IF Len(a) > L THEN SubSeq(a, (Len(a) - L) + 1, Len(a)) ELSE a
<1>1. Len(q) \in Nat /\ n <= Len(q) /\ \A i \in (Len(q) - n) + 1 .. Len(q) : q[i] = x
  BY DEF EndsWith
<1>2. PICK k \in Nat : k = Len(q) + 1
  BY <1>1
<1>3. a \in Seq({0, 1}) /\ Len(a) = k /\ a[k] = x
  BY <1>2
<1>4. \A i \in 1..Len(q) : a[i] = q[i]
  OBVIOUS
<1>5. m <= k /\ \A i \in (k - m) + 1 .. k : a[i] = x
  BY <1>1, <1>2, <1>3, <1>4
<1> HIDE DEF a
<1>6. CASE Len(a) > L
  <2>1. k > L
    BY <1>3, <1>6
  <2>2. b = SubSeq(a, (k - L) + 1, k)
    BY <1>3, <1>6
  <2>3. PICK c : c = SubSeq(a, (k - L) + 1, k)
    BY Zenon
  <2>4. c \in Seq({0, 1}) /\ Len(c) = L
    BY <1>3, <2>1, <2>3
  <2>5. \A i \in 1..L : c[i] = a[(k - L) + i]
    BY <1>3, <2>1, <2>3
  <2> HIDE <2>2, <2>3
  <2>6. \A i \in (L - m) + 1 .. L : c[i] = x
    <3> TAKE i \in (L - m) + 1 .. L
    <3>1. i \in 1..L /\ (k - L) + i \in (k - m) + 1 .. k
      BY <2>1
    <3> QED
      BY <1>5, <2>5, <3>1
  <2>7. EndsWith(c, x, m)
    BY <2>4, <2>6 DEF EndsWith
  <2> QED
    BY <2>2, <2>3, <2>4, <2>7, Zenon DEF a
<1>7. CASE ~(Len(a) > L)
  <2>1. EndsWith(a, x, m)
    BY <1>3, <1>5 DEF EndsWith
  <2> QED
    BY <1>3, <1>7, <2>1, Zenon DEF a
<1> QED
  BY ZenonT(30), <1>6, <1>7

(* ngx_http_upstream_check_status_update counts.                           *)
LEMMA UpdateHyst ==
  ASSUME HystInv, NEW w \in Workers, StatusUpdate(w)
  PROVE  /\ HystInv'
         /\ down' > down => LastAre(0, FallCount)
         /\ down' < down => LastAre(1, RiseCount)
<1>1. PICK r \in {0, 1} : r = result[w]
  BY DEF HystInv
<1>2. /\ recent \in Seq({0, 1}) /\ down \in {0, 1}
      /\ rise \in 0..RiseCount /\ EndsWith(recent, 1, rise)
      /\ fall \in 0..FallCount /\ EndsWith(recent, 0, fall)
  BY DEF HystInv
<1>3. Counted(r) /\ recent' = Latest(Append(recent, r)) /\ result' = result
  BY <1>1, Zenon DEF StatusUpdate
<1>4. /\ RiseCount \in Nat /\ RiseCount > 0 /\ FallCount \in Nat /\ FallCount > 0
      /\ Longest \in Nat /\ RiseCount <= Longest /\ FallCount <= Longest
  BY ConstantsAssumption DEF Longest
<1> HIDE DEF Longest
<1>5. ASSUME NEW n \in Nat, EndsWith(recent, r, n), NEW m \in Nat, m <= n + 1, m <= Longest
      PROVE  recent' \in Seq({0, 1}) /\ EndsWith(recent', r, m)
  BY <1>2, <1>3, <1>4, <1>5, EndsKept, Zenon DEF Latest
<1>6. recent' \in Seq({0, 1})
  <2>1. PICK z \in Nat : z = 0
    OBVIOUS
  <2>2. EndsWith(recent, r, z) /\ z <= z + 1 /\ z <= Longest
    BY <1>2, <1>4, <2>1 DEF EndsWith
  <2> QED
    BY <1>5, <2>2, Zenon
<1>7. \A x : EndsWith(recent', x, 0)
  BY <1>6 DEF EndsWith
<1>8. CASE r = 1
  <2>1. /\ rise' = Capped(rise + 1, RiseCount) /\ fall' = 0
        /\ down' = IF rise' >= RiseCount THEN 0 ELSE down
    BY <1>3, <1>8 DEF Counted
  <2>2. rise' \in 0..RiseCount /\ rise' <= rise + 1 /\ rise' <= Longest /\ rise' \in Nat
    BY <1>2, <1>4, <2>1 DEF Capped
  <2>3. EndsWith(recent', 1, rise')
    BY <1>2, <1>5, <1>8, <2>2
  <2>4. HystInv'
    BY <1>2, <1>3, <1>4, <1>6, <1>7, <2>1, <2>2, <2>3 DEF HystInv
  <2>5. down' < down => rise' = RiseCount
    BY <1>2, <1>4, <2>1, <2>2
  <2>6. ~(down' > down)
    BY <1>2, <2>1
  <2>7. down' < down => LastAre(1, RiseCount)
    BY <2>3, <2>5 DEF EndsWith, LastAre
  <2> QED
    BY <2>4, <2>6, <2>7
<1>9. CASE r = 0
  <2>1. /\ fall' = Capped(fall + 1, FallCount) /\ rise' = 0
        /\ down' = IF fall' >= FallCount THEN 1 ELSE down
    BY <1>3, <1>9 DEF Counted
  <2>2. fall' \in 0..FallCount /\ fall' <= fall + 1 /\ fall' <= Longest /\ fall' \in Nat
    BY <1>2, <1>4, <2>1 DEF Capped
  <2>3. EndsWith(recent', 0, fall')
    BY <1>2, <1>5, <1>9, <2>2
  <2>4. HystInv'
    BY <1>2, <1>3, <1>4, <1>6, <1>7, <2>1, <2>2, <2>3 DEF HystInv
  <2>5. down' > down => fall' = FallCount
    BY <1>2, <1>4, <2>1, <2>2
  <2>6. ~(down' < down)
    BY <1>2, <2>1
  <2>7. down' > down => LastAre(0, FallCount)
    BY <2>3, <2>5 DEF EndsWith, LastAre
  <2> QED
    BY <2>4, <2>6, <2>7
<1> QED
  BY <1>8, <1>9

(* The other steps leave the counters alone.                               *)
LEMMA OtherHyst ==
  ASSUME HystInv, [Next]_vars, \A w \in Workers : ~StatusUpdate(w)
  PROVE  HystInv' /\ down' = down
<1>1. UNCHANGED <<down, rise, fall, recent>>
  BY ZenonT(30) DEF Next, Step, Tick, Begin, Lock, Connect, Finish, TimeoutHandler, CleanEvent,
               Discard, Crash, InitProcess, vars, shm
<1>2. \A r \in {0, 1} : \A w : [result EXCEPT ![w] = r] \in [Workers -> {0, 1}]
  BY Zenon DEF HystInv
<1>3. result' \in [Workers -> {0, 1}]
  <2>1. result' = result \/ \E w \in Workers, r \in {0, 1} : result' = [result EXCEPT ![w] = r]
    <3>1. 0 \in {0, 1}
      OBVIOUS
    <3> QED
      BY ZenonT(30), <3>1 DEF Next, Step, Tick, Begin, Lock, Connect, Finish, TimeoutHandler,
                         CleanEvent, Discard, Crash, InitProcess, vars, shm
  <2> QED
    BY <1>2, <2>1 DEF HystInv
<1> QED
  BY <1>1, <1>3 DEF HystInv

(* It holds of a fresh record and of one that was inherited.               *)
LEMMA InitHyst == Init => HystInv
<1> SUFFICES ASSUME Init PROVE HystInv
  OBVIOUS
<1>1. result \in [Workers -> {0, 1}] /\ RiseCount \in Nat \ {0} /\ FallCount \in Nat \ {0}
  BY ConstantsAssumption DEF Init, Idle
<1>2. CASE Fresh
  BY <1>1, <1>2 DEF Fresh, HystInv, EndsWith
<1>3. CASE Inherited
  <2>1. PICK r \in {0, 1} : rise = r /\ fall = 1 - r /\ recent = <<r>>
    BY <1>3 DEF Inherited
  <2>2. down \in {0, 1}
    BY <1>3 DEF Inherited
  <2>3. recent \in Seq({0, 1}) /\ Len(recent) = 1 /\ recent[1] = r
    BY <2>1
  <2>4. EndsWith(recent, 1, rise) /\ EndsWith(recent, 0, fall)
    BY <2>1, <2>3 DEF EndsWith
  <2> QED
    BY <1>1, <2>1, <2>2, <2>3, <2>4 DEF HystInv
<1> QED
  BY <1>2, <1>3 DEF Init

(* The server is taken out only after fall_count failures in a row, and    *)
(* back only after rise_count successes, whichever workers made the checks *)
(* and whoever crashed meanwhile: the counters in the shared record are    *)
(* the lengths of the runs at the end of the history of results.           *)
THEOREM HysteresisCorrect == Spec => Hysteresis
<1> DEFINE Sides == /\ down' > down => LastAre(0, FallCount)
                    /\ down' < down => LastAre(1, RiseCount)
<1>1. HystInv /\ [Next]_vars => HystInv' /\ [Sides]_vars
  <2> SUFFICES ASSUME HystInv, [Next]_vars PROVE HystInv' /\ Sides
    BY Zenon
  <2>1. CASE \E w \in Workers : StatusUpdate(w)
    BY <2>1, UpdateHyst, Zenon
  <2>2. CASE \A w \in Workers : ~StatusUpdate(w)
    <3>1. HystInv' /\ down' = down
      BY <2>2, OtherHyst, Zenon
    <3>2. ~(down' > down) /\ ~(down' < down)
      BY <3>1 DEF HystInv
    <3> QED
      BY <3>1, <3>2
  <2> QED
    BY <2>1, <2>2, Zenon
<1>2. Init => HystInv
  BY InitHyst
<1> QED
  BY <1>1, <1>2, PTL DEF Spec, Hysteresis

-----------------------------------------------------------------------------
(* From here on, Calm.  A worker in its loop looks at a free server when   *)
(* at most Bound has passed since the last result.  Roomy: what a worker   *)
(* waits before it takes a server over (check_interval << 4) is longer     *)
(* than that and a check, or an interval, together; and a worker is left   *)
(* that has never crashed.                                                 *)
Bound == IF Delay > Interval + Half THEN Delay ELSE Interval + Half

Roomy ==
    /\ Bound + Timeout < Patience /\ Bound + Interval <= Patience
    /\ MaxCrashes < Cardinality(Workers)

Types ==
    /\ owner \in Workers \union {None, Gone} /\ mutex \in {"free", "stuck"}
    /\ age \in 0..MaxAge
    /\ pc \in [Workers -> {"loop", "lock", "reread", "update", "clean", "dead"}]
    /\ checking \in [Workers -> {0, 1}] /\ kept \in [Workers -> {0, 1}]
    /\ run \in [Workers -> 0..Timeout] /\ timer \in [Workers -> 0..Bound]
    /\ lag \in [Workers -> 0..MaxLag]
    /\ since \in 0..Interval /\ crashes \in 0..MaxCrashes /\ conf \in Confs

(* No clock is behind and no connection is kept.                           *)
Prompt == \A w \in Workers :
    /\ lag[w] = 0 /\ kept[w] = 0
    /\ pc[w] = "dead" => checking[w] = 0
    /\ pc[w] = "lock" => timer[w] <= Half

(* Who makes a check, or ends one, owns the server.                        *)
Active(w) == checking[w] = 1 \/ pc[w] \in {"update", "clean"}

Owned == \A w \in Workers :
    /\ Active(w) => owner = w
    /\ pc[w] = "lock" => owner # w

(* The server is given free right after its result.                        *)
Cleaned == \A w \in Workers : pc[w] = "clean" => age = 0

(* Who is about to begin a check does so in time, and not too soon.        *)
Reread == \A w \in Workers :
    pc[w] = "reread" /\ owner = w => age <= Bound /\ since = Interval

(* A check is over long before others lose patience.                       *)
Timely == mutex = "free" => \A w \in Workers :
    /\ Active(w) => age <= Bound + Timeout
    /\ pc[w] = "loop" /\ checking[w] = 1 => age <= Bound + run[w]

(* A worker that never crashed looks at a free server in time; there are   *)
(* fewer crashes than workers.                                             *)
Punctual(w) ==
    /\ pc[w] # "dead"
    /\ mutex = "free" /\ owner = None =>
          /\ pc[w] \in {"loop", "reread"} => age + timer[w] <= Bound
          /\ pc[w] = "lock" => age <= Bound

Steady == \E C \in SUBSET Workers :
    Cardinality(C) <= crashes /\ \A w \in Workers \ C : Punctual(w)

(* The last result is from after the last check began; until there is one, *)
(* the result before it was Bound earlier at most.                         *)
Apart == since = Interval \/ age <= since + (IF owner = None THEN 0 ELSE Bound)

Parts == Prompt /\ Owned /\ Cleaned /\ Reread /\ Timely /\ Steady /\ Apart

CalmInv == Calm => Parts

-----------------------------------------------------------------------------
(* What the assumption on the constants says of the ones that are derived. *)
LEMMA Constants ==
  /\ Interval \in Nat /\ Interval > 0 /\ Delay \in Nat /\ Half \in Nat /\ Half <= Interval
  /\ Timeout \in Nat /\ MaxLag \in Nat /\ MaxCrashes \in Nat /\ Modulus \in Nat
  /\ Bound \in Nat /\ Delay <= Bound /\ Interval + Half <= Bound
  /\ Patience \in Nat /\ MaxAge \in Nat /\ MaxAge < Modulus /\ MaxLag <= MaxAge
  BY ConstantsAssumption DEF Half, Bound, Patience, MaxAge

(* A clock that may be behind is no further behind than MaxLag.            *)
LEMMA ConfFacts ==
  ASSUME NEW c \in Confs
  PROVE  c.lag \in 0..MaxLag
  BY ConstantsAssumption

(* Every step keeps the types.                                             *)
LEMMA TypesStep == Types /\ [Next]_vars => Types'
<1> SUFFICES ASSUME Types, [Next]_vars PROVE Types'
  OBVIOUS
<1> USE Constants
<1>1. conf.lag \in 0..MaxLag
  BY ConfFacts DEF Types
<1>2. CASE Tick
  <2>1. /\ UNCHANGED <<owner, mutex, pc, checking, kept, crashes, conf>>
        /\ age' = Capped(age + 1, MaxAge) /\ since' = Capped(since + 1, Interval)
        /\ timer' = [w \in Workers |-> IF timer[w] > 0 THEN timer[w] - 1 ELSE 0]
        /\ run' = [w \in Workers |->
                     IF checking[w] = 1 THEN Capped(run[w] + 1, Timeout) ELSE run[w]]
        /\ lag' = [w \in Workers |->
                     IF Busy(w) THEN Capped(lag[w] + 1, conf.lag) ELSE lag[w]]
    BY <1>2, Zenon DEF Tick
  <2>2. age' \in 0..MaxAge /\ since' \in 0..Interval
    BY <2>1 DEF Types, Capped
  <2>3. timer' \in [Workers -> 0..Bound]
    BY <2>1 DEF Types
  <2>4. run' \in [Workers -> 0..Timeout]
    BY <2>1 DEF Types, Capped
  <2>5. lag' \in [Workers -> 0..MaxLag]
    <3>1. \A w \in Workers : lag[w] \in 0..MaxLag /\ Capped(lag[w] + 1, conf.lag) \in 0..MaxLag
      BY <1>1 DEF Types, Capped
    <3> QED
      BY <2>1, <3>1, Zenon
  <2> QED
    BY <2>1, <2>2, <2>3, <2>4, <2>5, Zenon DEF Types
<1>3. ASSUME NEW w \in Workers, Begin(w) PROVE Types'
  BY <1>1, <1>3 DEF Begin, Types, shm
<1>4. ASSUME NEW w \in Workers, Lock(w) PROVE Types'
  <2>1. owner' \in Workers \union {None, Gone} /\ age' \in 0..MaxAge
    BY <1>4 DEF Lock, Decide, Decided, Types
  <2> QED
    BY <1>4, <2>1 DEF Lock, Types
<1>5. ASSUME NEW w \in Workers, Connect(w) PROVE Types'
  BY <1>5 DEF Connect, Types, shm
<1>6. ASSUME NEW w \in Workers, NEW res \in {0, 1}, NEW k \in {0, 1}, Finish(w, res, k)
      PROVE  Types'
  BY <1>1, <1>6 DEF Finish, Types, shm
<1>7. ASSUME NEW w \in Workers, TimeoutHandler(w) PROVE Types'
  BY <1>1, <1>7 DEF TimeoutHandler, Types, shm
<1>8. ASSUME NEW w \in Workers, StatusUpdate(w) PROVE Types'
  BY <1>8 DEF StatusUpdate, Types
<1>9. ASSUME NEW w \in Workers, CleanEvent(w) \/ Discard(w) PROVE Types'
  BY <1>9 DEF CleanEvent, Discard, Types, shm
<1>10. ASSUME NEW w \in Workers, Crash(w) PROVE Types'
  BY <1>10 DEF Crash, Types
<1>11. ASSUME NEW w \in Workers, InitProcess(w) PROVE Types'
  BY <1>11 DEF InitProcess, Types, shm
<1>12. CASE UNCHANGED vars
  BY <1>12, Zenon DEF vars, shm, Types
<1> QED
  BY <1>2, <1>3, <1>4, <1>5, <1>6, <1>7, <1>8, <1>9, <1>10, <1>11, <1>12, Zenon DEF Next, Step

-----------------------------------------------------------------------------
(* Time passes only while no worker is in a handler, but for the ones that *)
(* wait for a mutex nobody will unlock.                                    *)
LEMMA TickCalm ==
  ASSUME Types, Calm, Parts, Tick
  PROVE  Parts'
<1> USE Constants
<1>1. /\ UNCHANGED <<owner, mutex, pc, checking, kept, crashes>>
      /\ age' = Capped(age + 1, MaxAge) /\ since' = Capped(since + 1, Interval)
      /\ timer' = [w \in Workers |-> IF timer[w] > 0 THEN timer[w] - 1 ELSE 0]
      /\ run' = [w \in Workers |->
                   IF checking[w] = 1 THEN Capped(run[w] + 1, Timeout) ELSE run[w]]
      /\ lag' = [w \in Workers |->
                   IF Busy(w) THEN Capped(lag[w] + 1, conf.lag) ELSE lag[w]]
  BY Zenon DEF Tick
<1>2. conf.lag = 0
  BY DEF Calm
<1>3. age' <= age + 1 /\ age \in Nat /\ age' \in Nat /\ since \in Nat /\ since <= Interval
  BY <1>1 DEF Types, Capped
<1>4. ASSUME NEW w \in Workers
      PROVE  \/ pc[w] \in {"loop", "dead"}
             \/ pc[w] \in {"lock", "update"} /\ mutex = "stuck"
  <2>1. ~(lag[w] < conf.lag)
    BY <1>2 DEF Parts, Prompt
  <2>2. ~Busy(w) \/ Waiting(w)
    BY <2>1, Zenon DEF Tick
  <2> QED
    BY <2>2 DEF Busy, Waiting
<1>5. ASSUME NEW w \in Workers, pc[w] = "loop"
      PROVE  timer[w] > 0 /\ (checking[w] = 1 => run[w] < Timeout)
  BY <1>5, Zenon DEF Tick
<1>6. Prompt'
  <2>1. \A w \in Workers : lag'[w] = 0
    BY <1>1, <1>2 DEF Capped, Parts, Prompt
  <2>2. \A w \in Workers : timer'[w] <= timer[w] /\ timer[w] \in Nat /\ timer'[w] \in Nat
    BY <1>1 DEF Types
  <2> QED
    BY <1>1, <2>1, <2>2 DEF Parts, Prompt
<1>7. Owned'
  BY <1>1, Zenon DEF Parts, Owned, Active
<1>8. Cleaned' /\ Reread'
  BY <1>1, <1>4 DEF Cleaned, Reread
<1>9. Timely'
  <2> SUFFICES ASSUME mutex = "free", NEW w \in Workers
               PROVE  /\ Active(w)' => age' <= Bound + Timeout
                      /\ pc'[w] = "loop" /\ checking'[w] = 1 => age' <= Bound + run'[w]
    BY <1>1, Zenon DEF Timely
  <2>1. pc[w] \in {"loop", "dead"} /\ (pc[w] = "dead" => checking[w] = 0)
    BY <1>4 DEF Parts, Prompt
  <2>2. CASE pc[w] = "loop" /\ checking[w] = 1
    <3>1. age <= Bound + run[w] /\ run[w] < Timeout /\ run[w] \in Nat
      BY <1>5, <2>2 DEF Parts, Timely, Types
    <3>2. run'[w] = run[w] + 1
      BY <1>1, <2>2, <3>1 DEF Capped
    <3> QED
      BY <1>3, <3>1, <3>2
  <2>3. CASE ~(pc[w] = "loop" /\ checking[w] = 1)
    BY <1>1, <2>1, <2>3 DEF Active
  <2> QED
    BY <2>2, <2>3
<1>10. Steady'
  <2>1. PICK C \in SUBSET Workers :
           Cardinality(C) <= crashes /\ \A w \in Workers \ C : Punctual(w)
    BY Zenon DEF Parts, Steady
  <2>2. ASSUME NEW w \in Workers \ C
        PROVE  Punctual(w)'
    <3>1. Punctual(w) /\ timer[w] \in Nat
      BY <2>1 DEF Types
    <3>2. CASE mutex = "free" /\ owner = None
      <4>1. pc[w] = "loop"
        BY <1>4, <3>1, <3>2 DEF Punctual
      <4>2. timer[w] > 0 /\ age + timer[w] <= Bound
        BY <1>5, <3>1, <3>2, <4>1 DEF Punctual
      <4>3. timer'[w] = timer[w] - 1
        BY <1>1, <4>2
      <4> QED
        BY <1>1, <1>3, <3>1, <4>1, <4>2, <4>3 DEF Punctual
    <3>3. CASE ~(mutex = "free" /\ owner = None)
      BY <1>1, <3>1, <3>3, Zenon DEF Punctual
    <3> QED
      BY <3>2, <3>3
  <2> QED
    BY <1>1, <2>1, <2>2, Zenon DEF Steady
<1>11. Apart'
  BY <1>1, <1>3 DEF Parts, Apart, Capped
<1> QED
  BY <1>6, <1>7, <1>8, <1>9, <1>10, <1>11, Zenon DEF Parts

(* The timer of a worker goes off.                                         *)
LEMMA BeginCalm ==
  ASSUME Types, Calm, Parts, NEW w \in Workers, Begin(w)
  PROVE  Parts'
<1> USE Constants
<1>1. /\ pc[w] = "loop" /\ timer[w] = 0 /\ timer' = [timer EXCEPT ![w] = Half]
      /\ UNCHANGED <<owner, age, mutex, checking, run, kept, since, crashes>>
  BY Zenon DEF Begin, shm
<1>2. age \in Nat /\ None \notin Workers
  BY ConstantsAssumption DEF Types
<1>3. \/ UNCHANGED <<pc, lag>> /\ owner # None
      \/ /\ pc' = [pc EXCEPT ![w] = "lock"] /\ lag' = [lag EXCEPT ![w] = 0]
         /\ owner # w /\ checking[w] # 1
  <2>1. PICK l \in 0..conf.lag :
          IF owner = w \/ checking[w] = 1 \/ age < l
          THEN UNCHANGED <<pc, lag>>
          ELSE /\ pc' = [pc EXCEPT ![w] = "lock"]
               /\ lag' = [lag EXCEPT ![w] = l]
    BY Zenon DEF Begin
  <2>2. l = 0
    BY <2>1 DEF Calm
  <2>3. checking[w] = 1 => owner = w
    BY DEF Parts, Owned, Active
  <2> QED
    BY <1>2, <2>1, <2>2, <2>3
<1>4. Prompt'
  BY <1>1, <1>3 DEF Parts, Prompt, Types
<1>5. Owned' /\ Cleaned' /\ Reread'
  BY <1>1, <1>3 DEF Parts, Owned, Active, Cleaned, Reread, Types
<1>6. Timely'
  BY <1>1, <1>3 DEF Parts, Timely, Active, Types
<1>7. Steady'
  <2>1. PICK C \in SUBSET Workers :
           Cardinality(C) <= crashes /\ \A v \in Workers \ C : Punctual(v)
    BY Zenon DEF Parts, Steady
  <2>2. ASSUME NEW v \in Workers \ C
        PROVE  Punctual(v)'
    BY <1>1, <1>2, <1>3, <2>1 DEF Punctual, Types
  <2> QED
    BY <1>1, <2>1, <2>2, Zenon DEF Steady
<1>8. Apart'
  BY <1>1, Zenon DEF Parts, Apart
<1> QED
  BY <1>4, <1>5, <1>6, <1>7, <1>8, Zenon DEF Parts

(* A free server was looked at in time, by a worker that never crashed.    *)
LEMMA FreeInTime ==
  ASSUME Types, Parts, Roomy, mutex = "free", owner = None
  PROVE  age <= Bound
<1> USE Constants
<1>1. PICK C \in SUBSET Workers :
         Cardinality(C) <= crashes /\ \A v \in Workers \ C : Punctual(v)
  BY Zenon DEF Parts, Steady
<1>2. C # Workers
  <2>1. Cardinality(C) \in Nat /\ Cardinality(Workers) \in Nat
    BY ConstantsAssumption, FS_Subset, FS_CardinalityType
  <2> QED
    BY <1>1, <2>1 DEF Types, Roomy
<1>3. PICK v \in Workers : v \notin C
  BY <1>2
<1>4. Punctual(v)
  BY <1>1, <1>3
<1>5. owner # v
  BY ConstantsAssumption, <1>3
<1>6. pc[v] \in {"loop", "lock", "reread"}
  BY <1>4, <1>5 DEF Punctual, Parts, Owned, Active, Types
<1>7. timer[v] \in Nat /\ age \in Nat
  BY DEF Types
<1> QED
  BY <1>4, <1>6, <1>7 DEF Punctual

(* Under the mutex a worker takes a free server, or takes over one whose   *)
(* checker is gone.                                                        *)
LEMMA LockCalm ==
  ASSUME Types, Calm, Parts, Roomy, NEW w \in Workers, Lock(w)
  PROVE  Parts'
<1> USE Constants
<1>1. /\ pc[w] = "lock" /\ mutex = "free" /\ pc' = [pc EXCEPT ![w] = "reread"]
      /\ UNCHANGED <<mutex, checking, run, kept, timer, lag, since, crashes>>
  BY Zenon DEF Lock
<1>2. age \in Nat /\ since \in Nat /\ since <= Interval /\ None \notin Workers
  BY ConstantsAssumption DEF Types
<1>3. lag[w] = 0 /\ Elapsed(w) = age
  <2>1. lag[w] = 0
    BY DEF Parts, Prompt
  <2>2. age - lag[w] = age /\ age < Modulus
    BY <1>2, <2>1 DEF Types
  <2> QED
    BY <1>2, <2>1, <2>2 DEF Elapsed
<1>4. \/ age >= Interval /\ owner = None /\ owner' = w /\ age' = age
      \/ age >= Patience /\ owner # None /\ owner' = w /\ age' = 0
      \/ (owner = None => age < Interval) /\ owner' = owner /\ age' = age
  BY <1>3 DEF Lock, Decide, Decided
<1>5. CASE owner' = w /\ (\/ age >= Interval /\ owner = None /\ age' = age
                          \/ age >= Patience /\ owner # None /\ age' = 0)
  <2>1. \A v \in Workers : ~Active(v)
    <3> SUFFICES ASSUME NEW v \in Workers, Active(v) PROVE FALSE
      OBVIOUS
    <3>1. owner = v /\ age <= Bound + Timeout
      BY <1>1 DEF Parts, Owned, Timely
    <3> QED
      BY <1>2, <1>5, <3>1 DEF Roomy
  <2>2. age' <= Bound
    BY <1>1, <1>5, FreeInTime
  <2>3. since = Interval
    BY <1>2, <1>5 DEF Parts, Apart, Roomy
  <2>4. \A v \in Workers : ~Active(v)'
    BY <1>1, <2>1 DEF Active, Types
  <2>5. Prompt'
    BY <1>1 DEF Parts, Prompt, Types
  <2>6. Owned' /\ Cleaned' /\ Timely'
    <3>1. \A v \in Workers : pc'[v] = "lock" => owner' # v
      BY <1>1, <1>5 DEF Types
    <3> QED
      BY <2>4, <3>1 DEF Owned, Cleaned, Timely, Active
  <2>7. Reread' /\ Apart'
    BY <1>1, <2>2, <2>3 DEF Reread, Apart
  <2>8. Steady'
    <3>1. PICK C \in SUBSET Workers :
             Cardinality(C) <= crashes /\ \A v \in Workers \ C : Punctual(v)
      BY Zenon DEF Parts, Steady
    <3>2. ASSUME NEW v \in Workers \ C PROVE Punctual(v)'
      BY <1>1, <1>2, <1>5, <3>1 DEF Punctual, Types
    <3> QED
      BY <1>1, <3>1, <3>2, Zenon DEF Steady
  <2> QED
    BY <2>5, <2>6, <2>7, <2>8, Zenon DEF Parts
<1>6. CASE (owner = None => age < Interval) /\ owner' = owner /\ age' = age
  <2>1. owner # w
    BY <1>1 DEF Parts, Owned
  <2>2. Prompt' /\ Owned' /\ Cleaned' /\ Reread'
    BY <1>1, <1>6, <2>1 DEF Parts, Prompt, Owned, Active, Cleaned, Reread, Types
  <2>3. Timely' /\ Apart'
    BY ZenonT(30), <1>1, <1>6, <2>1 DEF Parts, Timely, Active, Apart, Types
  <2>4. Steady'
    <3>1. PICK C \in SUBSET Workers :
             Cardinality(C) <= crashes /\ \A v \in Workers \ C : Punctual(v)
      BY Zenon DEF Parts, Steady
    <3>2. timer[w] \in Nat /\ timer[w] <= Half
      BY <1>1 DEF Parts, Prompt, Types
    <3>3. ASSUME NEW v \in Workers \ C PROVE Punctual(v)'
      BY <1>1, <1>2, <1>6, <3>1, <3>2 DEF Punctual, Types
    <3> QED
      BY <1>1, <3>1, <3>3, Zenon DEF Steady
  <2> QED
    BY <2>2, <2>3, <2>4, Zenon DEF Parts
<1> QED
  BY <1>4, <1>5, <1>6

(* Steady for a step of w that leaves the record alone, or that is made by *)
(* its owner.                                                              *)
LEMMA SteadyKept ==
  ASSUME Parts, NEW w \in Workers, UNCHANGED <<mutex, timer, crashes>>, owner' = owner,
         owner = None => age' = age, pc'[w] # "dead",
         owner = None => pc[w] = "reread" /\ pc'[w] = "loop",
         \A v \in Workers \ {w} : pc'[v] = pc[v]
  PROVE  Steady'
<1>1. PICK C \in SUBSET Workers :
         Cardinality(C) <= crashes /\ \A v \in Workers \ C : Punctual(v)
  BY Zenon DEF Parts, Steady
<1>2. ASSUME NEW v \in Workers \ C PROVE Punctual(v)'
  BY <1>1 DEF Punctual
<1> QED
  BY <1>1, <1>2, Zenon DEF Steady

(* The owner begins a check; or the worker finds that another one did.     *)
LEMMA ConnectCalm ==
  ASSUME Types, Calm, Parts, NEW w \in Workers, Connect(w)
  PROVE  Parts'
<1> USE Constants
<1>1. /\ pc[w] = "reread" /\ UNCHANGED <<owner, age, mutex, timer, crashes>>
  BY Zenon DEF Connect, shm
<1>2. age \in Nat /\ since \in Nat /\ None \notin Workers
  BY ConstantsAssumption DEF Types
<1>3. CASE /\ owner # w /\ pc' = [pc EXCEPT ![w] = "loop"] /\ lag' = [lag EXCEPT ![w] = 0]
           /\ UNCHANGED <<checking, run, kept, result, since>>
  <2>1. Prompt' /\ Owned' /\ Cleaned' /\ Reread'
    BY <1>1, <1>3 DEF Parts, Prompt, Owned, Active, Cleaned, Reread, Types
  <2>2. checking[w] # 1
    BY <1>3 DEF Parts, Owned, Active
  <2>3. Timely' /\ Apart'
    BY <1>1, <1>3, <2>2 DEF Parts, Timely, Active, Apart, Types
  <2>4. Steady'
    BY <1>1, <1>3, SteadyKept DEF Types
  <2> QED
    BY <2>1, <2>3, <2>4, Zenon DEF Parts
<1>4. CASE /\ owner = w /\ since' = 0 /\ kept' = [kept EXCEPT ![w] = 0]
           /\ \/ /\ pc' = [pc EXCEPT ![w] = "loop"] /\ lag' = [lag EXCEPT ![w] = 0]
                 /\ checking' = [checking EXCEPT ![w] = 1] /\ run' = [run EXCEPT ![w] = 0]
              \/ /\ pc' = [pc EXCEPT ![w] = "update"] /\ UNCHANGED <<checking, run, lag>>
  <2>1. age <= Bound
    BY <1>1, <1>4 DEF Parts, Reread
  <2>2. Prompt'
    BY <1>1, <1>4 DEF Parts, Prompt, Types
  <2>3. Owned' /\ Cleaned' /\ Reread'
    BY <1>1, <1>4 DEF Parts, Owned, Active, Cleaned, Reread, Types
  <2>4. Timely'
    BY <1>1, <1>2, <1>4, <2>1 DEF Parts, Timely, Active, Types
  <2>5. Apart'
    BY <1>1, <1>2, <1>4, <2>1 DEF Apart
  <2>6. Steady'
    BY <1>1, <1>2, <1>4, SteadyKept DEF Types
  <2> QED
    BY <2>2, <2>3, <2>4, <2>5, <2>6, Zenon DEF Parts
<1> QED
  BY <1>3, <1>4, Zenon DEF Connect

(* A check has a result, or has run out of time.                           *)
LEMMA ResultCalm ==
  ASSUME Types, Calm, Parts, NEW w \in Workers,
         TimeoutHandler(w) \/ \E res, k \in {0, 1} : Finish(w, res, k)
  PROVE  Parts'
<1> USE Constants
<1>1. /\ pc[w] = "loop" /\ checking[w] = 1 /\ pc' = [pc EXCEPT ![w] = "update"]
      /\ UNCHANGED <<owner, age, mutex, checking, run, timer, since, crashes>>
  BY Zenon DEF Finish, TimeoutHandler, shm
<1>2. kept' = [kept EXCEPT ![w] = 0] \/ kept' = kept
  <2>1. ASSUME NEW res \in {0, 1}, NEW k \in {0, 1}, Finish(w, res, k)
        PROVE  kept' = [kept EXCEPT ![w] = 0]
    <3>1. k = 0
      BY <2>1 DEF Finish, Calm
    <3> QED
      BY <2>1, <3>1 DEF Finish
  <2> QED
    BY <2>1, Zenon DEF TimeoutHandler
<1>3. lag' = [lag EXCEPT ![w] = 0]
  <2>1. PICK l \in 0..conf.lag : lag' = [lag EXCEPT ![w] = l]
    BY Zenon DEF Finish, TimeoutHandler
  <2>2. l = 0
    BY <2>1 DEF Calm
  <2> QED
    BY <2>1, <2>2
<1>4. age \in Nat /\ run[w] \in 0..Timeout /\ owner = w /\ owner # None
  BY <1>1, ConstantsAssumption DEF Types, Parts, Owned, Active
<1>5. Prompt'
  BY <1>1, <1>2, <1>3, ZenonT(30) DEF Parts, Prompt, Types
<1>6. Owned' /\ Cleaned' /\ Reread'
  BY <1>1, <1>4, ZenonT(30) DEF Parts, Owned, Active, Cleaned, Reread, Types
<1>7. Timely'
  BY <1>1, <1>4, ZenonT(30) DEF Parts, Timely, Active, Types
<1>8. Steady'
  BY <1>1, <1>4, SteadyKept DEF Types
<1>9. Apart'
  BY <1>1, Zenon DEF Parts, Apart
<1> QED
  BY <1>5, <1>6, <1>7, <1>8, <1>9, Zenon DEF Parts

(* The result is counted, by the owner.                                    *)
LEMMA UpdateCalm ==
  ASSUME Types, Calm, Parts, NEW w \in Workers, StatusUpdate(w)
  PROVE  Parts'
<1> USE Constants
<1>1. /\ pc[w] = "update" /\ pc' = [pc EXCEPT ![w] = "clean"] /\ age' = lag[w]
      /\ UNCHANGED <<owner, mutex, checking, run, kept, timer, lag, since, crashes>>
  BY Zenon DEF StatusUpdate
<1>2. age' = 0 /\ since \in Nat /\ owner = w /\ owner # None
  BY <1>1, ConstantsAssumption DEF Types, Parts, Owned, Active, Prompt
<1>3. Prompt'
  BY <1>1 DEF Parts, Prompt, Types
<1>4. Owned' /\ Cleaned' /\ Reread'
  BY <1>1, <1>2, ZenonT(30) DEF Parts, Owned, Active, Cleaned, Reread, Types
<1>5. Timely' /\ Apart'
  BY <1>1, <1>2 DEF Timely, Apart, Types
<1>6. Steady'
  BY <1>1, <1>2, SteadyKept DEF Types
<1> QED
  BY <1>3, <1>4, <1>5, <1>6, Zenon DEF Parts

(* The owner gives the server free.                                        *)
LEMMA CleanCalm ==
  ASSUME Types, Calm, Parts, NEW w \in Workers, CleanEvent(w)
  PROVE  Parts'
<1> USE Constants
<1>1. /\ pc[w] = "clean" /\ pc' = [pc EXCEPT ![w] = "loop"] /\ owner' = None
      /\ checking' = [checking EXCEPT ![w] = 0] /\ lag' = [lag EXCEPT ![w] = 0]
      /\ UNCHANGED <<age, mutex, kept, timer, since, crashes>>
  BY Zenon DEF CleanEvent
<1>2. age = 0 /\ since \in Nat /\ owner = w /\ None \notin Workers
  BY <1>1, ConstantsAssumption DEF Types, Parts, Owned, Active, Cleaned
<1>3. \A v \in Workers : ~Active(v)'
  BY <1>1, <1>2 DEF Parts, Owned, Active, Types
<1>4. Prompt'
  BY <1>1 DEF Parts, Prompt, Types
<1>5. Owned' /\ Cleaned' /\ Reread' /\ Timely'
  BY <1>1, <1>2, <1>3 DEF Owned, Active, Cleaned, Reread, Timely
<1>6. Apart'
  BY <1>1, <1>2 DEF Apart
<1>7. Steady'
  <2>1. PICK C \in SUBSET Workers :
           Cardinality(C) <= crashes /\ \A v \in Workers \ C : Punctual(v)
    BY Zenon DEF Parts, Steady
  <2>2. ASSUME NEW v \in Workers \ C PROVE Punctual(v)'
    BY <1>1, <1>2, <2>1 DEF Punctual, Types
  <2> QED
    BY ZenonT(30), <1>1, <2>1, <2>2 DEF Steady
<1> QED
  BY <1>4, <1>5, <1>6, <1>7, Zenon DEF Parts

(* A worker dies: one more that may be late.                               *)
LEMMA CrashCalm ==
  ASSUME Types, Calm, Parts, NEW w \in Workers, Crash(w)
  PROVE  Parts'
<1> USE Constants
<1>1. /\ pc' = [pc EXCEPT ![w] = "dead"] /\ owner' = IF owner = w THEN Gone ELSE owner
      /\ checking' = [checking EXCEPT ![w] = 0] /\ run' = [run EXCEPT ![w] = 0]
      /\ kept' = [kept EXCEPT ![w] = 0] /\ lag' = [lag EXCEPT ![w] = 0]
      /\ crashes' = crashes + 1 /\ UNCHANGED <<age, timer, since>>
  BY Zenon DEF Crash
<1>2. mutex' = "free" => mutex = "free"
  BY DEF Crash
<1>3. /\ None \notin Workers /\ Gone \notin Workers
      /\ (owner' = None) <=> (owner = None)
      /\ \A v \in Workers : owner' = v <=> owner = v /\ v # w
  BY <1>1, ConstantsAssumption DEF Types
<1>4. \A v \in Workers : Active(v)' <=> Active(v) /\ v # w
  BY <1>1 DEF Active, Types
<1>5. Prompt'
  BY <1>1, ZenonT(30) DEF Parts, Prompt, Types
<1>6. Owned' /\ Cleaned' /\ Reread'
  BY <1>1, <1>3, <1>4, ZenonT(30) DEF Parts, Owned, Cleaned, Reread, Types
<1>7. Timely'
  BY <1>1, <1>2, <1>4 DEF Parts, Timely, Types
<1>8. Apart'
  BY <1>1, <1>3 DEF Parts, Apart
<1>9. Steady'
  <2>1. PICK C \in SUBSET Workers :
           Cardinality(C) <= crashes /\ \A v \in Workers \ C : Punctual(v)
    BY Zenon DEF Parts, Steady
  <2>2. Cardinality(C \union {w}) <= crashes'
    <3>1. IsFiniteSet(C) /\ Cardinality(C) \in Nat
      BY ConstantsAssumption, FS_Subset, FS_CardinalityType
    <3>2. Cardinality(C \union {w}) \in {Cardinality(C), Cardinality(C) + 1}
      BY ZenonT(30), <3>1, FS_AddElement
    <3> QED
      BY <1>1, <2>1, <3>1, <3>2 DEF Types
  <2>3. ASSUME NEW v \in Workers \ (C \union {w}) PROVE Punctual(v)'
    BY <1>1, <1>2, <1>3, <2>1 DEF Punctual, Types
  <2>4. C \union {w} \in SUBSET Workers
    BY <2>1
  <2> QED
    BY <2>2, <2>3, <2>4, Zenon DEF Steady
<1> QED
  BY <1>5, <1>6, <1>7, <1>8, <1>9, Zenon DEF Parts

(* The master starts another worker.                                       *)
LEMMA InitProcessCalm ==
  ASSUME Types, Calm, Parts, NEW w \in Workers, InitProcess(w)
  PROVE  Parts'
<1> USE Constants
<1>1. /\ pc[w] = "dead" /\ pc' = [pc EXCEPT ![w] = "loop"]
      /\ \E t \in 0..Delay : timer' = [timer EXCEPT ![w] = t]
      /\ UNCHANGED <<owner, age, mutex, checking, run, kept, lag, since, crashes>>
  BY Zenon DEF InitProcess, shm
<1>2. checking[w] = 0
  BY <1>1 DEF Parts, Prompt
<1>3. Prompt'
  BY <1>1 DEF Parts, Prompt, Types
<1>4. Owned' /\ Cleaned' /\ Reread'
  BY ZenonT(30), <1>1, <1>2 DEF Parts, Owned, Active, Cleaned, Reread, Types
<1>5. Timely'
  BY <1>1, <1>2 DEF Parts, Timely, Active, Types
<1>6. Apart'
  BY <1>1, Zenon DEF Parts, Apart
<1>7. Steady'
  <2>1. PICK C \in SUBSET Workers :
           Cardinality(C) <= crashes /\ \A v \in Workers \ C : Punctual(v)
    BY Zenon DEF Parts, Steady
  <2>2. ASSUME NEW v \in Workers \ C PROVE Punctual(v)'
    BY <1>1, <2>1 DEF Punctual, Types
  <2> QED
    BY ZenonT(30), <1>1, <2>1, <2>2 DEF Steady
<1> QED
  BY <1>3, <1>4, <1>5, <1>6, <1>7, Zenon DEF Parts

(* It holds of a record that was inherited with a result.                  *)
LEMMA InitCalm == Init => Types /\ CalmInv
<1> SUFFICES ASSUME Init PROVE Types /\ CalmInv
  OBVIOUS
<1> USE Constants
<1>1. Idle /\ conf \in Confs /\ age \in {0, MaxAge} /\ (~conf.fresh => age = 0)
  BY DEF Init, Fresh, Inherited
<1>2. Types
  BY <1>1 DEF Idle, Types
<1>3. ASSUME Calm PROVE Parts
  <2>1. age = 0
    BY <1>1, <1>3 DEF Calm
  <2>2. Prompt
    BY <1>1 DEF Idle, Prompt
  <2>3. Owned /\ Cleaned /\ Reread /\ Timely /\ Apart
    BY <1>1 DEF Idle, Owned, Active, Cleaned, Reread, Timely, Apart
  <2>4. Steady
    <3>1. \A v \in Workers \ {} : Punctual(v)
      BY <1>1, <1>2, <2>1 DEF Idle, Punctual, Types
    <3>2. Cardinality({}) <= crashes
      BY <1>1, FS_EmptySet DEF Idle
    <3> QED
      BY <3>1, <3>2, Zenon DEF Steady
  <2> QED
    BY <2>2, <2>3, <2>4, Zenon DEF Parts
<1> QED
  BY <1>2, <1>3, Zenon DEF CalmInv

(* Every step keeps it.                                                    *)
LEMMA CalmStep ==
  ASSUME Roomy, Types, CalmInv, [Next]_vars
  PROVE  CalmInv'
<1>1. conf' = conf
  BY ZenonT(30) DEF Next, Step, Tick, Begin, Lock, Connect, Finish, TimeoutHandler, StatusUpdate,
               CleanEvent, Discard, Crash, InitProcess, vars
<1>2. SUFFICES ASSUME Calm PROVE Parts'
  BY <1>1, Zenon DEF CalmInv, Calm
<1>3. Parts
  BY <1>2, Zenon DEF CalmInv
<1>4. CASE Tick
  BY <1>2, <1>3, <1>4, TickCalm, Zenon
<1>5. ASSUME NEW w \in Workers, Step(w) PROVE Parts'
  <2>1. CASE Begin(w) \/ Lock(w) \/ Connect(w)
    BY <1>2, <1>3, <2>1, BeginCalm, LockCalm, ConnectCalm, Zenon
  <2>2. CASE TimeoutHandler(w) \/ \E res, k \in {0, 1} : Finish(w, res, k)
    BY <1>2, <1>3, <2>2, ResultCalm, Zenon
  <2>3. CASE StatusUpdate(w) \/ CleanEvent(w)
    BY ZenonT(30), <1>2, <1>3, <2>3, UpdateCalm, CleanCalm
  <2>4. CASE Discard(w)
    BY <1>3, <2>4 DEF Discard, Parts, Prompt
  <2>5. CASE Crash(w) \/ InitProcess(w)
    BY <1>2, <1>3, <2>5, CrashCalm, InitProcessCalm, Zenon
  <2> QED
    BY <1>5, <2>1, <2>2, <2>3, <2>4, <2>5, Zenon DEF Step
<1>6. CASE UNCHANGED vars
  BY <1>3, <1>6, Zenon DEF vars, shm, Parts, Prompt, Owned, Active, Cleaned, Reread, Timely,
                           Steady, Punctual, Apart
<1> QED
  BY <1>4, <1>5, <1>6, Zenon DEF Next

(* ngx_http_upstream_check_begin_handler: two workers never check the      *)
(* server at the same time, if the last result cannot get as old as the    *)
(* takeover needs while a worker is in time and a check runs.              *)
THEOREM OneCheckerCorrect ==
  ASSUME Roomy
  PROVE  Spec => []OneChecker
<1>1. Types /\ CalmInv /\ [Next]_vars => (Types /\ CalmInv)'
  BY TypesStep, CalmStep, Zenon
<1>2. Types /\ CalmInv => OneChecker
  BY Zenon DEF CalmInv, Parts, Owned, Active, OneChecker
<1> QED
  BY <1>1, <1>2, InitCalm, PTL DEF Spec

(* Under the same condition a check begins no sooner than check_interval   *)
(* after the one before, whichever workers make them.                      *)
THEOREM SpacedCorrect ==
  ASSUME Roomy
  PROVE  Spec => Spaced
<1>1. Types /\ CalmInv /\ [Next]_vars => (Types /\ CalmInv)'
  BY TypesStep, CalmStep, Zenon
<1>2. Types /\ CalmInv =>
        (Calm => \A w \in Workers :
            pc[w] = "reread" /\ owner = w /\ pc'[w] \in {"loop", "update"}
               => since = Interval)
  BY Zenon DEF CalmInv, Parts, Reread
<1> QED
  BY <1>1, <1>2, InitCalm, PTL DEF Spec, Spaced

=============================================================================
