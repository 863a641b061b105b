------------------------- MODULE AcceptMutexProofs --------------------------
(***************************************************************************)
(* Proofs about AcceptMutex, for any number of workers, sockets, clients   *)
(* and faults: who has the mutex, who listens, and that closed sockets are *)
(* left alone.                                                             *)
(***************************************************************************)
EXTENDS AcceptMutex, TLAPS

(* A worker as TypeOK has it, and the types the proofs need.  (That        *)
(* pending stays within max_events is a sum over the sockets, and left to  *)
(* TLC.)                                                                   *)
WorkerType ==
    [pc : {"loop", "wait", "accept", "tail", "dead", "gone"}, held : {0, 1},
     disabled : Int, post : {0, 1}, skipped : {0, 1}, bounded : {0, 1},
     active : SUBSET Socks, timer : SUBSET Socks, timedout : SUBSET Socks,
     batch : SUBSET Socks, free : 0..ConnN, exiting : {0, 1}]

UsedType == [arrivals : Nat, noFiles : Nat, epoll : Nat, crashes : Nat]

Types ==
    /\ lock \in Workers \cup {Nobody}
    /\ wk \in [Workers -> WorkerType]
    /\ used \in UsedType

(* Events are being handled in the pc for it only, and a worker that is   *)
(* exiting has none, nor a timer that could bring them back.              *)
Handled(r) ==
    /\ r.pc # "accept" => r.batch = {}
    /\ r.exiting = 1 => r.batch = {} /\ r.active = {} /\ r.timer = {}

(* With the mutex and no error of epoll, the flag says whether all        *)
(* sockets are in epoll or none, at any point of a turn.                  *)
Flagged(r) ==
    r.pc # "dead" /\ r.exiting = 0 =>
       /\ r.timer = {} /\ r.timedout = {}
       /\ r.held = 1 => r.active = Socks
       /\ r.held = 0 => r.active = {}

(* What the owner of the mutex is doing.                                  *)
Owns(r) ==
    /\ r.exiting = 0
    /\ r.pc = "dead" \/ (r.pc \in {"wait", "accept"} /\ r.held = 1)

(* Who waits with the flag set, and tried the mutex in this turn.         *)
WaitsHeld(r) ==
    r.pc = "wait" /\ r.held = 1 /\ r.skipped = 0 /\ r.exiting = 0

Smooth == conf.mutex = TRUE /\ used.epoll = 0

(* The inductive invariant.                                               *)
AcceptInv ==
    /\ Types
    /\ \A w \in Workers : Handled(wk[w])
    /\ \A w \in Workers : lock = w => Owns(wk[w])
    /\ Smooth => \A w \in Workers : Flagged(wk[w])
    /\ Smooth => \A w \in Workers : WaitsHeld(wk[w]) => lock = w

(* A step replaces the record of one worker: what it must show for the    *)
(* invariant to hold again.                                               *)
LEMMA Replaced ==
    ASSUME AcceptInv, NEW w \in Workers, NEW r \in WorkerType,
           wk' = [wk EXCEPT ![w] = r], conf' = conf, used' \in UsedType,
           used'.epoll = 0 => used.epoll = 0,
           Handled(r),
           Smooth' => Flagged(r) /\ (WaitsHeld(r) => lock' = w),
           \/ lock' = lock /\ (lock = w => Owns(r))
           \/ lock' = w /\ lock = Nobody /\ Owns(r)
           \/ lock' = Unlocked(w)
    PROVE  AcceptInv'
  <1> USE AcceptAssumption DEF AcceptInv, Types, Smooth
  <1>1. wk'[w] = r /\ \A v \in Workers : v # w => wk'[v] = wk[v]
    OBVIOUS
  <1>2. wk' \in [Workers -> WorkerType]
    OBVIOUS
  <1>3. lock' \in Workers \cup {Nobody}
    BY DEF Unlocked
  <1>4. \A v \in Workers : v # w => (lock' = v <=> lock = v)
    BY DEF Unlocked
  <1>5. lock' = w => Owns(r)
    BY DEF Unlocked
  <1>6. ASSUME NEW v \in Workers
        PROVE  /\ Handled(wk'[v])
               /\ lock' = v => Owns(wk'[v])
               /\ Smooth' => Flagged(wk'[v])
               /\ Smooth' => (WaitsHeld(wk'[v]) => lock' = v)
    <2>1. CASE v = w
      BY <1>1, <1>5, <2>1
    <2>2. CASE v # w
      BY <1>1, <1>4, <2>2
    <2> QED
      BY <2>1, <2>2, ZenonT(30)
  <1>7. \A v \in Workers : (Handled(wk[v]))' /\ (lock' = v => (Owns(wk[v]))')
    BY <1>6, ZenonT(30) DEF Handled, Owns
  <1>8. Smooth' => \A v \in Workers : (Flagged(wk[v]))' /\ ((WaitsHeld(wk[v]))' => lock' = v)
    BY <1>6, ZenonT(30) DEF Flagged, WaitsHeld
  <1> QED
    BY <1>2, <1>3, <1>7, <1>8

(* A worker that has just been started.                                   *)
LEMMA StartedFacts ==
    /\ Started \in WorkerType
    /\ Handled(Started)
    /\ conf.mutex = TRUE => Flagged(Started)
    /\ ~WaitsHeld(Started)
  <1>1. /\ Started.pc = "loop" /\ Started.held = 0 /\ Started.exiting = 0
        /\ Started.batch = {} /\ Started.timer = {} /\ Started.timedout = {}
        /\ Started.active = IF conf.mutex THEN {} ELSE Socks
    BY DEF Started
  <1>2. Started.active \in SUBSET Socks
    BY <1>1
  <1>3. Started \in WorkerType
    BY <1>2, AcceptAssumption DEF Started, WorkerType
  <1> QED
    BY <1>1, <1>3 DEF Handled, Flagged, WaitsHeld

(* What a lack of descriptors makes of a worker is one.                   *)
LEMMA DisabledType ==
    ASSUME NEW r \in WorkerType, NEW b \in SUBSET Socks, NEW h \in {0, 1},
           NEW d \in Int
    PROVE  [r EXCEPT !.batch = b, !.active = {}, !.held = h, !.disabled = d]
             \in WorkerType
  BY ZenonT(30) DEF WorkerType

(* The head of a turn: what Waits does to a worker.                       *)
LEMMA WaitsFacts ==
    ASSUME NEW r \in WorkerType, NEW post \in {0, 1}, NEW skipped \in {0, 1},
           NEW delay \in {0, 1}
    PROVE  /\ Waits(r, post, skipped, delay) \in WorkerType
           /\ Waits(r, post, skipped, delay).pc = "wait"
           /\ Waits(r, post, skipped, delay).held = r.held
           /\ Waits(r, post, skipped, delay).skipped = skipped
           /\ Waits(r, post, skipped, delay).active = r.active
           /\ Waits(r, post, skipped, delay).timer = r.timer
           /\ Waits(r, post, skipped, delay).timedout = r.timedout
           /\ Waits(r, post, skipped, delay).batch = r.batch
           /\ Waits(r, post, skipped, delay).exiting = r.exiting
  BY ZenonT(30) DEF Waits, WorkerType

(* The head of a turn of the event loop: the mutex is tried, or not, and  *)
(* the sockets are put in epoll or taken out.                             *)
LEMMA TurnInv ==
    ASSUME AcceptInv, NEW w \in Workers, Turn(w)
    PROVE  AcceptInv'
  <1>0. /\ wk[w] \in WorkerType
        /\ used \in UsedType
        /\ Handled(wk[w])
        /\ lock = w => Owns(wk[w])
        /\ Smooth => Flagged(wk[w])
    BY DEF AcceptInv, Types
  <1>1. CASE TurnPlain(w)
    <2> DEFINE r == Waits(wk[w], 0, 0, 0)
    <2>1. wk' = [wk EXCEPT ![w] = r] /\ UNCHANGED <<lock, used, conf>>
      BY <1>1 DEF TurnPlain
    <2>2. /\ r \in WorkerType /\ r.pc = "wait" /\ r.held = wk[w].held
          /\ r.active = wk[w].active /\ r.timer = wk[w].timer
          /\ r.timedout = wk[w].timedout /\ r.batch = wk[w].batch
          /\ r.exiting = wk[w].exiting
      BY <1>0, WaitsFacts
    <2>3. wk[w].pc = "loop" /\ (conf.mutex = TRUE => wk[w].exiting = 1)
      BY <1>0, <1>1 DEF TurnPlain, Mutex, WorkerType
    <2> HIDE DEF r
    <2>4. Handled(r) /\ (Smooth' => Flagged(r) /\ ~WaitsHeld(r)) /\ lock # w
      BY <1>0, <2>1, <2>2, <2>3 DEF Handled, Flagged, WaitsHeld, Smooth, Owns
    <2> QED
      BY <1>0, <2>1, <2>2, <2>4, Replaced, ZenonT(30)
  <1>2. CASE TurnSkips(w)
    <2> DEFINE q == [wk[w] EXCEPT !.disabled = @ - 1]
               r == Waits(q, 0, 1, 0)
    <2>1. wk' = [wk EXCEPT ![w] = r] /\ UNCHANGED <<lock, used, conf>>
      BY <1>2 DEF TurnSkips
    <2>2. /\ q \in WorkerType /\ q.held = wk[w].held
          /\ q.active = wk[w].active /\ q.timer = wk[w].timer
          /\ q.timedout = wk[w].timedout /\ q.batch = wk[w].batch
          /\ q.exiting = wk[w].exiting
      BY <1>0 DEF WorkerType
    <2> HIDE DEF q
    <2>3. /\ r \in WorkerType /\ r.pc = "wait" /\ r.held = q.held /\ r.skipped = 1
          /\ r.active = q.active /\ r.timer = q.timer
          /\ r.timedout = q.timedout /\ r.batch = q.batch
          /\ r.exiting = q.exiting
      BY <2>2, WaitsFacts
    <2>4. wk[w].pc = "loop"
      BY <1>2 DEF TurnSkips
    <2> HIDE DEF r
    <2>5. Handled(r) /\ (Smooth' => Flagged(r) /\ ~WaitsHeld(r)) /\ lock # w
      BY <1>0, <2>1, <2>2, <2>3, <2>4 DEF Handled, Flagged, WaitsHeld, Smooth, Owns
    <2> QED
      BY <1>0, <2>1, <2>3, <2>5, Replaced, ZenonT(30)
  <1>3. CASE TurnLocks(w)
    <2>0. wk[w].pc = "loop" /\ wk[w].exiting = 0 /\ lock = Nobody /\ lock # w /\ conf' = conf
      BY <1>0, <1>3, AcceptAssumption DEF TurnLocks, Mutex
    <2>1. CASE wk' = [wk EXCEPT ![w] =
                        Waits([wk[w] EXCEPT !.active = IF wk[w].held = 1 THEN @ ELSE Socks,
                                            !.held = 1], 1, 0, 0)]
               /\ lock' = w /\ UNCHANGED used
      <3> DEFINE q == [wk[w] EXCEPT !.active = IF wk[w].held = 1 THEN @ ELSE Socks,
                                    !.held = 1]
                 r == Waits(q, 1, 0, 0)
      <3>1. wk' = [wk EXCEPT ![w] = r]
        BY <2>1
      <3>2. /\ q \in WorkerType /\ q.held = 1
            /\ q.active = IF wk[w].held = 1 THEN wk[w].active ELSE Socks
            /\ q.timer = wk[w].timer
            /\ q.timedout = wk[w].timedout /\ q.batch = wk[w].batch
            /\ q.exiting = wk[w].exiting
        BY <1>0, ZenonT(30) DEF WorkerType
      <3> HIDE DEF q
      <3>3. /\ r \in WorkerType /\ r.pc = "wait" /\ r.held = q.held
            /\ r.active = q.active /\ r.timer = q.timer
            /\ r.timedout = q.timedout /\ r.batch = q.batch
            /\ r.exiting = q.exiting
        BY <3>2, WaitsFacts
      <3> HIDE DEF r
      <3>4. Handled(r) /\ (Smooth' => Flagged(r)) /\ Owns(r)
        BY <1>0, <2>0, <2>1, <3>2, <3>3 DEF Handled, Flagged, Smooth, Owns
      <3> QED
        BY <1>0, <2>0, <2>1, <3>1, <3>3, <3>4, Replaced, ZenonT(30)
    <2>2. ASSUME EpollError, lock' = lock,
                 NEW S \in SUBSET Socks, wk' = [wk EXCEPT ![w].active = S, ![w].pc = "tail"]
          PROVE  AcceptInv'
      <3> DEFINE r == [wk[w] EXCEPT !.active = S, !.pc = "tail"]
      <3>1. wk' = [wk EXCEPT ![w] = r]
        BY <2>2, ZenonT(30)
      <3>2. r \in WorkerType /\ r.pc = "tail" /\ r.batch = wk[w].batch /\ r.exiting = 0
        BY <1>0, <2>0, ZenonT(30) DEF WorkerType
      <3>3. used' \in UsedType /\ used'.epoll # 0
        BY <1>0, <2>2 DEF EpollError, UsedType
      <3> HIDE DEF r
      <3>4. Handled(r) /\ ~Smooth'
        BY <1>0, <2>0, <3>2, <3>3 DEF Handled, Smooth
      <3> QED
        BY <2>0, <2>2, <3>1, <3>2, <3>3, <3>4, Replaced, ZenonT(30)
    <2> QED
      BY <1>3, <2>1, <2>2, ZenonT(30) DEF TurnLocks
  <1>4. CASE TurnFails(w)
    <2>0. wk[w].pc = "loop" /\ wk[w].exiting = 0 /\ lock # w /\ UNCHANGED <<lock, conf>>
      BY <1>0, <1>4 DEF TurnFails, Mutex, Owns
    <2>1. CASE wk' = [wk EXCEPT ![w] =
                        Waits([wk[w] EXCEPT !.active = IF wk[w].held = 1 THEN {} ELSE @,
                                            !.held = 0], 0, 0, 1)]
               /\ UNCHANGED used
      <3> DEFINE q == [wk[w] EXCEPT !.active = IF wk[w].held = 1 THEN {} ELSE @,
                                    !.held = 0]
                 r == Waits(q, 0, 0, 1)
      <3>1. wk' = [wk EXCEPT ![w] = r]
        BY <2>1
      <3>2. /\ q \in WorkerType /\ q.held = 0
            /\ q.active = IF wk[w].held = 1 THEN {} ELSE wk[w].active
            /\ q.timer = wk[w].timer
            /\ q.timedout = wk[w].timedout /\ q.batch = wk[w].batch
            /\ q.exiting = wk[w].exiting
        BY <1>0, ZenonT(30) DEF WorkerType
      <3>3. wk[w].held \in {0, 1}
        BY <1>0 DEF WorkerType
      <3> HIDE DEF q
      <3>4. /\ r \in WorkerType /\ r.pc = "wait" /\ r.held = q.held
            /\ r.active = q.active /\ r.timer = q.timer
            /\ r.timedout = q.timedout /\ r.batch = q.batch
            /\ r.exiting = q.exiting
        BY <3>2, WaitsFacts
      <3> HIDE DEF r
      <3>5. Handled(r) /\ (Smooth' => Flagged(r)) /\ ~WaitsHeld(r)
        BY <1>0, <2>0, <2>1, <3>2, <3>3, <3>4, SMTT(30) DEF Handled, Flagged, Smooth, WaitsHeld
      <3> QED
        BY <1>0, <2>0, <2>1, <3>1, <3>4, <3>5, Replaced, ZenonT(30)
    <2>2. ASSUME EpollError,
                 NEW S \in SUBSET wk[w].active,
                 wk' = [wk EXCEPT ![w].active = S, ![w].pc = "tail"]
          PROVE  AcceptInv'
      <3> DEFINE r == [wk[w] EXCEPT !.active = S, !.pc = "tail"]
      <3>1. wk' = [wk EXCEPT ![w] = r]
        BY <2>2, ZenonT(30)
      <3>2. S \in SUBSET Socks
        BY <1>0 DEF WorkerType
      <3>3. r \in WorkerType /\ r.pc = "tail" /\ r.batch = wk[w].batch /\ r.exiting = 0
        BY <1>0, <2>0, <3>2, ZenonT(30) DEF WorkerType
      <3>4. used' \in UsedType /\ used'.epoll # 0
        BY <1>0, <2>2 DEF EpollError, UsedType
      <3> HIDE DEF r
      <3>5. Handled(r) /\ ~Smooth'
        BY <1>0, <2>0, <3>3, <3>4 DEF Handled, Smooth
      <3> QED
        BY <2>0, <3>1, <3>3, <3>4, <3>5, Replaced, ZenonT(30)
    <2> QED
      BY <1>4, <2>1, <2>2, ZenonT(30) DEF TurnFails
  <1> QED
    BY <1>1, <1>2, <1>3, <1>4 DEF Turn

(* Steps that only handle an event, or change what no invariant is about. *)
LEMMA Kept ==
    ASSUME AcceptInv, NEW w \in Workers, NEW r \in WorkerType,
           wk' = [wk EXCEPT ![w] = r], UNCHANGED <<lock, used, conf>>,
           r.pc = wk[w].pc, r.held = wk[w].held, r.skipped = wk[w].skipped,
           r.exiting = wk[w].exiting, r.active = wk[w].active,
           r.timer = wk[w].timer, r.timedout = wk[w].timedout,
           r.batch \subseteq wk[w].batch
    PROVE  AcceptInv'
  <1>1. /\ Handled(wk[w])
        /\ lock = w => Owns(wk[w])
        /\ Smooth => Flagged(wk[w]) /\ (WaitsHeld(wk[w]) => lock = w)
        /\ used \in UsedType
    BY ZenonT(30) DEF AcceptInv, Types
  <1>2. Handled(r) /\ (lock = w => Owns(r))
    BY <1>1, ZenonT(30) DEF Handled, Owns
  <1>3. Smooth' => Flagged(r) /\ (WaitsHeld(r) => lock' = w)
    BY <1>1, ZenonT(30) DEF Smooth, Flagged, WaitsHeld
  <1> QED
    BY <1>1, <1>2, <1>3, Replaced, ZenonT(30)

(* ngx_enable_accept_events, without the mutex or after an error.         *)
LEMMA EnableInv ==
    ASSUME AcceptInv, NEW w \in Workers, NEW s \in Socks, Enable(w, s),
           UNCHANGED <<lock, conf>>, ~Smooth, wk[w].exiting = 0,
           wk[w].pc = "accept" \/ (wk[w].pc = "tail" /\ lock # w)
    PROVE  AcceptInv'
  <1>0. /\ wk[w] \in WorkerType
        /\ used \in UsedType
        /\ Handled(wk[w])
        /\ lock = w => Owns(wk[w])
    BY ZenonT(30) DEF AcceptInv, Types
  <1>1. CASE wk' = [wk EXCEPT ![w].timer = @ \ {s}, ![w].timedout = @ \ {s},
                              ![w].active = Socks, ![w].batch = @ \cup {s},
                              ![w].pc = "accept"]
             /\ UNCHANGED used
    <2> DEFINE r == [wk[w] EXCEPT !.timer = @ \ {s}, !.timedout = @ \ {s},
                                  !.active = Socks, !.batch = @ \cup {s},
                                  !.pc = "accept"]
    <2>1. wk' = [wk EXCEPT ![w] = r]
      BY <1>1, ZenonT(30)
    <2>2. r \in WorkerType /\ r.pc = "accept" /\ r.held = wk[w].held /\ r.exiting = 0
      BY <1>0, ZenonT(30) DEF WorkerType
    <2> HIDE DEF r
    <2>3. Handled(r) /\ (lock = w => Owns(r)) /\ ~Smooth'
      BY <1>0, <1>1, <2>2 DEF Handled, Owns, Smooth
    <2> QED
      BY <1>0, <1>1, <2>1, <2>2, <2>3, Replaced, ZenonT(30)
  <1>2. ASSUME EpollError, NEW S \in SUBSET Socks,
               wk' = [wk EXCEPT ![w].timer = @ \ {s}, ![w].timedout = @ \cup {s},
                                ![w].active = S, ![w].batch = @ \ {s}]
        PROVE  AcceptInv'
    <2> DEFINE r == [wk[w] EXCEPT !.timer = @ \ {s}, !.timedout = @ \cup {s},
                                  !.active = S, !.batch = @ \ {s}]
    <2>1. wk' = [wk EXCEPT ![w] = r]
      BY <1>2, ZenonT(30)
    <2>2. /\ r \in WorkerType /\ r.pc = wk[w].pc /\ r.held = wk[w].held
          /\ r.exiting = 0 /\ r.batch = wk[w].batch \ {s}
      BY <1>0, ZenonT(30) DEF WorkerType
    <2>3. used' \in UsedType /\ used'.epoll # 0
      BY <1>0, <1>2 DEF EpollError, UsedType
    <2> HIDE DEF r
    <2>4. Handled(r) /\ (lock = w => Owns(r)) /\ ~Smooth'
      BY <1>0, <2>2, <2>3 DEF Handled, Owns, Smooth
    <2> QED
      BY <1>0, <2>1, <2>2, <2>3, <2>4, Replaced, ZenonT(30)
  <1> QED
    BY <1>1, <1>2, ZenonT(30) DEF Enable

(* The accept events of a turn.                                           *)
LEMMA AcceptStepInv ==
    ASSUME AcceptInv, NEW w \in Workers, Accept(w)
    PROVE  AcceptInv'
  <1>0. /\ wk[w] \in WorkerType
        /\ used \in UsedType
        /\ Handled(wk[w])
        /\ lock = w => Owns(wk[w])
        /\ Smooth => Flagged(wk[w])
        /\ \A s \in Socks : Called(w, s) => wk[w].pc = "accept" /\ wk[w].exiting = 0
    BY ZenonT(30) DEF AcceptInv, Types, Called, Handled, WorkerType
  <1>1. CASE SkipInactive(w)
    <2> DEFINE r == [wk[w] EXCEPT !.batch = @ \cap wk[w].active]
    <2>1. wk' = [wk EXCEPT ![w] = r] /\ UNCHANGED <<lock, used, conf>>
      BY <1>1 DEF SkipInactive
    <2>2. /\ r \in WorkerType /\ r.pc = wk[w].pc /\ r.held = wk[w].held
          /\ r.skipped = wk[w].skipped /\ r.exiting = wk[w].exiting
          /\ r.active = wk[w].active /\ r.timer = wk[w].timer
          /\ r.timedout = wk[w].timedout /\ r.batch \subseteq wk[w].batch
      BY <1>0, ZenonT(30) DEF WorkerType
    <2> QED
      BY <2>1, <2>2, Kept, ZenonT(30)
  <1>2. CASE AcceptDone(w)
    <2> DEFINE r == [wk[w] EXCEPT !.pc = "tail"]
    <2>1. wk' = [wk EXCEPT ![w] = r] /\ UNCHANGED <<used, conf>>
      BY <1>2 DEF AcceptDone
    <2>2. /\ r \in WorkerType /\ r.pc = "tail" /\ r.held = wk[w].held
          /\ r.exiting = wk[w].exiting
          /\ r.active = wk[w].active /\ r.timer = wk[w].timer
          /\ r.timedout = wk[w].timedout /\ r.batch = wk[w].batch
      BY <1>0 DEF WorkerType
    <2>3. wk[w].batch = {} /\ wk[w].pc = "accept" /\ lock' = Unlocked(w)
      BY <1>0, <1>2, ZenonT(30) DEF AcceptDone, Owns, Unlocked
    <2> HIDE DEF r
    <2>4. Handled(r) /\ (Smooth' => Flagged(r)) /\ ~WaitsHeld(r)
      BY <1>0, <2>1, <2>2, <2>3, ZenonT(30) DEF Handled, Flagged, WaitsHeld, Smooth
    <2> QED
      BY <1>0, <2>1, <2>2, <2>3, <2>4, Replaced, ZenonT(30)
  <1>3. ASSUME NEW s \in Socks, EnableAgain(w, s)
        PROVE  AcceptInv'
    <2>1. wk[w].pc = "accept" /\ wk[w].exiting = 0 /\ s \in wk[w].timedout
          /\ UNCHANGED <<lock, conf>>
      BY <1>0, <1>3, ZenonT(30) DEF EnableAgain
    <2>2. ~Smooth
      BY <1>0, <2>1, ZenonT(30) DEF Flagged
    <2> QED
      BY <1>3, <2>1, <2>2, EnableInv, ZenonT(30) DEF EnableAgain
  <1>4. ASSUME NEW s \in Socks, AcceptOne(w, s)
        PROVE  AcceptInv'
    <2>1. PICK kept \in BOOLEAN :
            wk' = [wk EXCEPT ![w].disabled = Reserve - wk[w].free,
                             ![w].free = IF kept /\ @ > 0 THEN @ - 1 ELSE @,
                             ![w].batch = IF kept /\ conf.multi THEN @ ELSE @ \ {s}]
      BY <1>4, ZenonT(30) DEF AcceptOne
    <2> DEFINE f == IF kept /\ wk[w].free > 0 THEN wk[w].free - 1 ELSE wk[w].free
               b == IF kept /\ conf.multi THEN wk[w].batch ELSE wk[w].batch \ {s}
               d == Reserve - wk[w].free
               r == [wk[w] EXCEPT !.disabled = d, !.free = f, !.batch = b]
    <2>2. wk' = [wk EXCEPT ![w] = r] /\ UNCHANGED <<lock, used, conf>>
      BY <1>4, <2>1, ZenonT(30) DEF AcceptOne
    <2>3. /\ wk[w].free \in 0..ConnN /\ wk[w].batch \in SUBSET Socks
      BY <1>0 DEF WorkerType
    <2>4. b \in SUBSET Socks /\ b \subseteq wk[w].batch
      BY <2>3
    <2>5. f \in 0..ConnN /\ d \in Int
      BY <2>3, AcceptAssumption
    <2> HIDE DEF f, b, d
    <2>6. /\ r \in WorkerType /\ r.pc = wk[w].pc /\ r.held = wk[w].held
          /\ r.skipped = wk[w].skipped /\ r.exiting = wk[w].exiting
          /\ r.active = wk[w].active /\ r.timer = wk[w].timer
          /\ r.timedout = wk[w].timedout /\ r.batch = b
      BY <1>0, <2>4, <2>5, ZenonT(30) DEF WorkerType
    <2> QED
      BY <2>2, <2>4, <2>6, Kept, ZenonT(30)
  <1>5. ASSUME NEW s \in Socks, AcceptAgain(w, s)
        PROVE  AcceptInv'
    <2> DEFINE r == [wk[w] EXCEPT !.batch = @ \ {s}]
    <2>1. wk' = [wk EXCEPT ![w] = r] /\ UNCHANGED <<lock, used, conf>>
      BY <1>5, ZenonT(30) DEF AcceptAgain
    <2>2. /\ r \in WorkerType /\ r.pc = wk[w].pc /\ r.held = wk[w].held
          /\ r.skipped = wk[w].skipped /\ r.exiting = wk[w].exiting
          /\ r.active = wk[w].active /\ r.timer = wk[w].timer
          /\ r.timedout = wk[w].timedout /\ r.batch \subseteq wk[w].batch
      BY <1>0, ZenonT(30) DEF WorkerType
    <2> QED
      BY <2>1, <2>2, Kept, ZenonT(30)
  <1>6. ASSUME NEW s \in Socks, AcceptAborted(w, s)
        PROVE  AcceptInv'
    <2>1. PICK b \in {wk[w].batch, wk[w].batch \ {s}} :
            wk' = [wk EXCEPT ![w].batch = b]
      BY <1>6, ZenonT(30) DEF AcceptAborted
    <2> DEFINE r == [wk[w] EXCEPT !.batch = b]
    <2>2. wk' = [wk EXCEPT ![w] = r] /\ UNCHANGED <<lock, used, conf>>
      BY <1>6, <2>1, ZenonT(30) DEF AcceptAborted
    <2>3. b \in SUBSET Socks /\ b \subseteq wk[w].batch
      BY <1>0, ZenonT(30) DEF WorkerType
    <2>4. /\ r \in WorkerType /\ r.pc = wk[w].pc /\ r.held = wk[w].held
          /\ r.skipped = wk[w].skipped /\ r.exiting = wk[w].exiting
          /\ r.active = wk[w].active /\ r.timer = wk[w].timer
          /\ r.timedout = wk[w].timedout /\ r.batch = b
      BY <1>0, <2>3 DEF WorkerType
    <2> QED
      BY <2>2, <2>3, <2>4, Kept, ZenonT(30)
  <1>7. ASSUME NEW s \in Socks, NoFiles(w, s)
        PROVE  AcceptInv'
    <2>0. /\ wk[w].pc = "accept" /\ wk[w].exiting = 0 /\ conf' = conf
          /\ used' \in UsedType /\ used'.epoll = used.epoll
      BY <1>0, <1>7, SMTT(30) DEF NoFiles, Handles, UsedType
    <2>1. CASE Mutex(w)
      <3> DEFINE r == [wk[w] EXCEPT !.batch = @ \ {s}, !.active = {},
                                    !.held = 0, !.disabled = 1]
      <3>1. wk' = [wk EXCEPT ![w] = r]
        BY <1>7, <2>1, ZenonT(30) DEF NoFiles
      <3>2. lock' = Unlocked(w)
        BY <1>0, <1>7, <2>0, <2>1 DEF NoFiles, Owns, Unlocked
      <3>3. /\ r \in WorkerType /\ r.pc = "accept" /\ r.held = 0 /\ r.exiting = 0
            /\ r.active = {} /\ r.timer = wk[w].timer /\ r.timedout = wk[w].timedout
        <4> DEFINE b == wk[w].batch \ {s}
        <4>1. b \in SUBSET Socks
          BY <1>0 DEF WorkerType
        <4>2. r = [wk[w] EXCEPT !.batch = b, !.active = {}, !.held = 0, !.disabled = 1]
          BY ZenonT(30)
        <4>3. r \in WorkerType
          <5> HIDE DEF b, r
          <5>1. PICK h \in {0, 1}, d \in Int : h = 0 /\ d = 1
            OBVIOUS
          <5>2. r = [wk[w] EXCEPT !.batch = b, !.active = {}, !.held = h, !.disabled = d]
            BY <4>2, <5>1, ZenonT(30)
          <5> QED
            BY <1>0, <4>1, <5>2, DisabledType, ZenonT(30)
        <4> QED
          BY <1>0, <2>0, <4>2, <4>3, ZenonT(30) DEF WorkerType
      <3> HIDE DEF r
      <3>4. Handled(r) /\ (Smooth' => Flagged(r)) /\ ~WaitsHeld(r)
        BY <1>0, <2>0, <3>3, SMTT(30) DEF Handled, Flagged, WaitsHeld, Smooth
      <3> QED
        BY <2>0, <3>1, <3>2, <3>3, <3>4, Replaced, ZenonT(30)
    <2>2. CASE ~Mutex(w)
      <3> DEFINE r == [wk[w] EXCEPT !.batch = @ \ {s}, !.active = {},
                                    !.timer = @ \cup {s}]
      <3>1. wk' = [wk EXCEPT ![w] = r] /\ lock' = lock
        BY <1>7, <2>2, ZenonT(30) DEF NoFiles
      <3>2. /\ r \in WorkerType /\ r.pc = "accept" /\ r.held = wk[w].held /\ r.exiting = 0
        BY <1>0, <2>0, ZenonT(30) DEF WorkerType
      <3>3. conf.mutex # TRUE
        BY <2>0, <2>2, ZenonT(30) DEF Mutex
      <3>5. ~Smooth'
        BY <2>0, <3>3, ZenonT(30) DEF Smooth
      <3> HIDE DEF r
      <3>4. Handled(r) /\ (lock = w => Owns(r))
        BY <1>0, <2>0, <3>2 DEF Handled, Owns
      <3> QED
        BY <2>0, <3>1, <3>2, <3>4, <3>5, Replaced, ZenonT(30)
    <2> QED
      BY <2>1, <2>2, ZenonT(30)
  <1>8. ASSUME NEW s \in Socks, NoFilesError(w, s)
        PROVE  AcceptInv'
    <2>1. PICK S \in SUBSET wk[w].active :
            wk' = [wk EXCEPT ![w].batch = @ \ {s}, ![w].active = S]
      BY <1>8, ZenonT(30) DEF NoFilesError
    <2> DEFINE r == [wk[w] EXCEPT !.batch = @ \ {s}, !.active = S]
    <2>2. wk' = [wk EXCEPT ![w] = r] /\ UNCHANGED <<lock, conf>>
      BY <1>8, <2>1, ZenonT(30) DEF NoFilesError
    <2>3. S \in SUBSET Socks
      BY <1>0, ZenonT(30) DEF WorkerType
    <2>4. wk[w].pc = "accept" /\ wk[w].exiting = 0
      BY <1>0, <1>8 DEF NoFilesError, Handles
    <2>5. /\ r \in WorkerType /\ r.pc = "accept" /\ r.held = wk[w].held /\ r.exiting = 0
      BY <1>0, <2>3, <2>4, ZenonT(30) DEF WorkerType
    <2>6. used' \in UsedType /\ used'.epoll # 0
      BY <1>0, <1>8 DEF NoFilesError, EpollError, UsedType
    <2> HIDE DEF r
    <2>7. Handled(r) /\ (lock = w => Owns(r)) /\ ~Smooth'
      BY <1>0, <2>4, <2>5, <2>6, SMTT(30) DEF Handled, Owns, Smooth
    <2> QED
      BY <2>2, <2>5, <2>6, <2>7, Replaced, ZenonT(30)
  <1> QED
    BY <1>1, <1>2, <1>3, <1>4, <1>5, <1>6, <1>7, <1>8, ZenonT(30) DEF Accept

(* The other steps of a worker, its death and its replacement.            *)
LEMMA OtherStepInv ==
    ASSUME AcceptInv, NEW w \in Workers,
           \/ EpollReturns(w) \/ (\E s \in Socks : TimerExpires(w, s))
           \/ CloseConnection(w) \/ Quit(w) \/ TurnEnds(w) \/ Crash(w) \/ Reap(w)
    PROVE  AcceptInv'
  <1>0. /\ wk[w] \in WorkerType
        /\ used \in UsedType
        /\ Handled(wk[w])
        /\ lock = w => Owns(wk[w])
        /\ Smooth => Flagged(wk[w])
    BY ZenonT(30) DEF AcceptInv, Types
  <1>1. CASE EpollReturns(w)
    <2> DEFINE r == [wk[w] EXCEPT !.pc = "accept", !.batch = Readable(w)]
    <2>1. wk' = [wk EXCEPT ![w] = r] /\ UNCHANGED <<lock, used, conf>> /\ wk[w].pc = "wait"
      BY <1>1, ZenonT(30) DEF EpollReturns
    <2>2. Readable(w) \subseteq wk[w].active /\ Readable(w) \in SUBSET Socks
      BY <1>0, ZenonT(30) DEF Readable, WorkerType
    <2>3. /\ r \in WorkerType /\ r.pc = "accept" /\ r.held = wk[w].held
          /\ r.exiting = wk[w].exiting /\ r.active = wk[w].active
          /\ r.timer = wk[w].timer /\ r.timedout = wk[w].timedout
          /\ r.batch = Readable(w)
      BY <1>0, <2>2, ZenonT(30) DEF WorkerType
    <2> HIDE DEF r
    <2>4. /\ Handled(r)
          /\ Smooth' => Flagged(r)
          /\ ~WaitsHeld(r)
          /\ lock = w => Owns(r)
      BY <1>0, <2>1, <2>2, <2>3, ZenonT(30) DEF Handled, Flagged, WaitsHeld, Owns, Smooth
    <2> QED
      BY <1>0, <2>1, <2>3, <2>4, Replaced, ZenonT(30)
  <1>2. ASSUME NEW s \in Socks, TimerExpires(w, s)
        PROVE  AcceptInv'
    <2>1. /\ wk[w].pc = "tail" /\ s \in wk[w].timer
          /\ Enable(w, s) /\ UNCHANGED <<lock, conf>>
      BY <1>2, ZenonT(30) DEF TimerExpires
    <2>2. wk[w].exiting = 0
      BY <1>0, <2>1, ZenonT(30) DEF Handled, WorkerType
    <2>3. ~Smooth /\ lock # w
      BY <1>0, <2>1, <2>2, ZenonT(30) DEF Flagged, Owns
    <2> QED
      BY <2>1, <2>2, <2>3, EnableInv, ZenonT(30)
  <1>3. CASE CloseConnection(w)
    <2> DEFINE r == [wk[w] EXCEPT !.free = @ + 1]
    <2>1. wk' = [wk EXCEPT ![w] = r] /\ UNCHANGED <<lock, used, conf>>
      BY <1>3 DEF CloseConnection
    <2>2. wk[w].free + 1 \in 0..ConnN
      BY <1>0, <1>3, AcceptAssumption DEF CloseConnection, WorkerType
    <2>3. /\ r \in WorkerType /\ r.pc = wk[w].pc /\ r.held = wk[w].held
          /\ r.skipped = wk[w].skipped /\ r.exiting = wk[w].exiting
          /\ r.active = wk[w].active /\ r.timer = wk[w].timer
          /\ r.timedout = wk[w].timedout /\ r.batch = wk[w].batch
      BY <1>0, <2>2, ZenonT(30) DEF WorkerType
    <2> QED
      BY <2>1, <2>3, Kept, ZenonT(30)
  <1>4. CASE Quit(w)
    <2> DEFINE r == [wk[w] EXCEPT !.exiting = 1, !.held = 0, !.active = {},
                                  !.timer = {}]
    <2>1. wk' = [wk EXCEPT ![w] = r] /\ UNCHANGED <<lock, used, conf>> /\ wk[w].pc = "tail"
      BY <1>4, ZenonT(30) DEF Quit
    <2>2. /\ r \in WorkerType /\ r.pc = wk[w].pc /\ r.exiting = 1 /\ r.active = {}
          /\ r.timer = {} /\ r.batch = wk[w].batch
      BY <1>0, ZenonT(30) DEF WorkerType
    <2> HIDE DEF r
    <2>3. Handled(r) /\ Flagged(r) /\ ~WaitsHeld(r) /\ lock # w
      BY <1>0, <2>1, <2>2, SMTT(30) DEF Handled, Flagged, WaitsHeld, Owns
    <2> QED
      BY <1>0, <2>1, <2>2, <2>3, Replaced, ZenonT(30)
  <1>5. CASE TurnEnds(w)
    <2>1. PICK pc \in {"gone", "loop"} : wk' = [wk EXCEPT ![w].pc = pc]
      BY <1>5, ZenonT(30) DEF TurnEnds
    <2> DEFINE r == [wk[w] EXCEPT !.pc = pc]
    <2>2. wk' = [wk EXCEPT ![w] = r] /\ UNCHANGED <<lock, used, conf>> /\ wk[w].pc = "tail"
      BY <1>5, <2>1, ZenonT(30) DEF TurnEnds
    <2>3. /\ r \in WorkerType /\ r.pc = pc /\ r.held = wk[w].held
          /\ r.exiting = wk[w].exiting /\ r.active = wk[w].active
          /\ r.timer = wk[w].timer /\ r.timedout = wk[w].timedout
          /\ r.batch = wk[w].batch
      BY <1>0, ZenonT(30) DEF WorkerType
    <2> HIDE DEF r
    <2>4. Handled(r) /\ (Smooth' => Flagged(r)) /\ ~WaitsHeld(r) /\ lock # w
      BY <1>0, <2>2, <2>3, ZenonT(30) DEF Handled, Flagged, WaitsHeld, Owns, Smooth
    <2> QED
      BY <1>0, <2>2, <2>3, <2>4, Replaced, ZenonT(30)
  <1>6. CASE Crash(w)
    <2> DEFINE r == [wk[w] EXCEPT !.pc = "dead", !.batch = {}, !.active = {}]
    <2>1. wk' = [wk EXCEPT ![w] = r] /\ UNCHANGED <<lock, conf>>
      BY <1>6, ZenonT(30) DEF Crash
    <2>2. /\ r \in WorkerType /\ r.pc = "dead" /\ r.exiting = wk[w].exiting
          /\ r.batch = {} /\ r.active = {} /\ r.timer = wk[w].timer
      BY <1>0, ZenonT(30) DEF WorkerType
    <2>3. used' \in UsedType /\ used'.epoll = used.epoll
      BY <1>0, <1>6, SMTT(30) DEF Crash, UsedType
    <2> HIDE DEF r
    <2>4. Handled(r) /\ Flagged(r) /\ ~WaitsHeld(r) /\ (lock = w => Owns(r))
      BY <1>0, <2>2, ZenonT(30) DEF Handled, Flagged, WaitsHeld, Owns
    <2> QED
      BY <2>1, <2>2, <2>3, <2>4, Replaced, ZenonT(30)
  <1>7. CASE Reap(w)
    <2>0. wk[w].pc = "dead" /\ lock' = Unlocked(w) /\ UNCHANGED <<used, conf>>
      BY <1>7, ZenonT(30) DEF Reap
    <2>1. CASE wk[w].exiting = 1
      <3> DEFINE r == [wk[w] EXCEPT !.pc = "gone"]
      <3>1. wk' = [wk EXCEPT ![w] = r]
        BY <1>7, <2>1, ZenonT(30) DEF Reap
      <3>2. /\ r \in WorkerType /\ r.pc = "gone" /\ r.exiting = 1
            /\ r.batch = wk[w].batch /\ r.active = wk[w].active /\ r.timer = wk[w].timer
        BY <1>0, <2>1, ZenonT(30) DEF WorkerType
      <3> HIDE DEF r
      <3>3. Handled(r) /\ Flagged(r) /\ ~WaitsHeld(r)
        BY <1>0, <2>0, <2>1, <3>2, SMTT(30) DEF Handled, Flagged, WaitsHeld
      <3> QED
        BY <1>0, <2>0, <3>1, <3>2, <3>3, Replaced, ZenonT(30)
    <2>2. CASE wk[w].exiting # 1
      <3>1. wk' = [wk EXCEPT ![w] = Started]
        BY <1>7, <2>2, ZenonT(30) DEF Reap
      <3> QED
        BY <1>0, <2>0, <3>1, StartedFacts, Replaced, ZenonT(30) DEF Smooth
    <2> QED
      BY <2>1, <2>2, ZenonT(30)
  <1> QED
    BY <1>1, <1>2, <1>3, <1>4, <1>5, <1>6, <1>7

(* AcceptInv holds at the start and every step of the specification       *)
(* keeps it.                                                              *)
LEMMA AcceptInvCorrect == Spec => []AcceptInv
  <1>1. Init => AcceptInv
    <2> SUFFICES ASSUME Init PROVE AcceptInv
      BY ZenonT(30)
    <2>1. wk = [w \in Workers |-> Started] /\ lock = Nobody
      BY ZenonT(30) DEF Init
    <2>2. used \in UsedType
      BY ZenonT(30) DEF Init, UsedType
    <2> QED
      BY <2>1, <2>2, StartedFacts, AcceptAssumption, ZenonT(30) DEF AcceptInv, Types, Smooth
  <1>2. AcceptInv /\ [Next]_vars => AcceptInv'
    <2> SUFFICES ASSUME AcceptInv, [Next]_vars PROVE AcceptInv'
      BY ZenonT(30)
    <2>1. ASSUME NEW w \in Workers, WorkerStep(w) \/ Crash(w) \/ Reap(w)
          PROVE  AcceptInv'
      BY <2>1, TurnInv, AcceptStepInv, OtherStepInv, ZenonT(30) DEF WorkerStep
    <2>2. ASSUME NEW s \in Socks, Arrive(s)
          PROVE  AcceptInv'
      <3>1. UNCHANGED <<lock, wk, conf>> /\ used' \in UsedType /\ used'.epoll = used.epoll
        BY <2>2 DEF Arrive, AcceptInv, Types, UsedType
      <3> QED
        BY <3>1, ZenonT(30) DEF AcceptInv, Types, Smooth, Handled, Owns, Flagged, WaitsHeld
    <2>3. CASE UNCHANGED vars
      BY <2>3, ZenonT(30) DEF vars, AcceptInv, Types, Smooth, Handled, Owns, Flagged, WaitsHeld
    <2> QED
      BY <2>1, <2>2, <2>3, ZenonT(30) DEF Next
  <1> QED
    BY <1>1, <1>2, PTL DEF Spec

(* The accept mutex is held from the trylock to the end of the accept      *)
(* events only, a dead owner apart, and exactly its holder listens: for    *)
(* any number of workers and sockets, and through crashes, lack of         *)
(* descriptors and graceful shutdown.                                      *)
THEOREM HolderListensCorrect == Spec => []HolderListens
  <1>1. AcceptInv => HolderListens
    <2> SUFFICES ASSUME AcceptInv PROVE HolderListens
      BY ZenonT(30)
    <2>1. lock # Nobody => \/ wk[lock].pc \in {"wait", "accept"} /\ wk[lock].held = 1
                           \/ wk[lock].pc = "dead"
      BY ZenonT(30) DEF AcceptInv, Types, Owns
    <2>2. ASSUME conf.mutex /\ used.epoll = 0, NEW w \in Workers, wk[w].pc = "wait"
          PROVE  /\ wk[w].active # {} /\ wk[w].skipped = 0 => lock = w
                 /\ lock = w => wk[w].active = Socks
      <3>1. Smooth /\ wk[w].held \in {0, 1} /\ wk[w].exiting \in {0, 1}
        BY <2>2, ZenonT(30) DEF Smooth, AcceptInv, Types, WorkerType
      <3>2. /\ Flagged(wk[w]) /\ Handled(wk[w]) /\ (WaitsHeld(wk[w]) => lock = w)
            /\ lock = w => Owns(wk[w])
        BY <3>1, ZenonT(30) DEF AcceptInv
      <3> QED
        BY <2>2, <3>1, <3>2, ZenonT(30) DEF Flagged, Handled, WaitsHeld, Owns
    <2> QED
      BY <2>1, <2>2, ZenonT(30) DEF HolderListens
  <1> QED
    BY <1>1, AcceptInvCorrect, PTL

(* A worker that has closed its listening sockets (graceful shutdown)      *)
(* handles no accept event, has none in epoll and no mutex, whatever it    *)
(* was doing when it was told to quit.                                     *)
THEOREM NoAcceptAfterCloseCorrect == Spec => []NoAcceptAfterClose
  <1>1. AcceptInv => NoAcceptAfterClose
    BY SMTT(30) DEF AcceptInv, NoAcceptAfterClose, Handled, Owns
  <1> QED
    BY <1>1, AcceptInvCorrect, PTL
=============================================================================
