--------------------------- MODULE UpstreamCheck ----------------------------
(***************************************************************************)
(* Health checks (ngx_http_upstream_check_module): how the workers share   *)
(* the checks of one server.                                               *)
(*                                                                         *)
(* A timer in every worker goes off twice in a check interval.  The worker *)
(* that finds the last result old enough and the server without an owner   *)
(* becomes its owner, makes the check, counts the result and gives the     *)
(* server free.  The record of the server (owner, time of the last result, *)
(* counters, down) is in shared memory and has a mutex of its own, which   *)
(* protects the decision and the counting, but not the test at the start   *)
(* of the handler, nor the assignment that frees the server.               *)
(*                                                                         *)
(* Time is relative: age is the time since shm->access_time, and lag[w] is *)
(* how far ngx_current_msec, which a process reads once per turn of its    *)
(* event loop, is behind.  Tick lets time pass; a timer that has expired   *)
(* is served before the next Tick.                                         *)
(***************************************************************************)
EXTENDS Integers, Sequences, FiniteSets

CONSTANTS
    Workers,
    None, Gone,     \* NGX_INVALID_PID; the pid of a process that crashed
    Interval,       \* check_interval
    Timeout,        \* check_timeout, with the time until it is served
    MaxLag,         \* how old ngx_current_msec may be, at most
    Confs,          \* the conditions to look at, see conf
    Modulus,        \* of ngx_msec_t, an unsigned integer
    Delay,          \* a worker's first timer: check_interval, 1 s at least
    RiseCount, FallCount,
    MaxCrashes,     \* bound on crashes of workers
    CrashLocked     \* may a worker crash while it holds the mutex?

Patience == 16 * Interval   \* check_interval << 4

MaxAge == Patience + MaxLag

ASSUME ConstantsAssumption ==
    /\ IsFiniteSet(Workers) /\ None \notin Workers /\ Gone \notin Workers \union {None}
    /\ {Interval, Delay, RiseCount, FallCount} \subseteq Nat \ {0}
    /\ {Timeout, MaxLag, MaxCrashes} \subseteq Nat
    /\ Modulus \in Nat /\ Modulus > 2 * MaxAge
    /\ Confs \subseteq [keepalive : BOOLEAN, fresh : BOOLEAN, lag : 0..MaxLag]
    /\ CrashLocked \in BOOLEAN

VARIABLES
    owner, age, down, rise, fall,   \* the record in shared memory
    mutex,      \* its mutex: free, or stuck with a process that is gone
    pc,         \* per worker: where in a handler it is; loop, dead
    checking,   \* per worker: check_timeout_ev.timer_set
    run,        \* per worker: for how long it has been checking
    kept,       \* per worker: it keeps a connection from an earlier check
    result,     \* per worker: what its check found, 0 when there is none
    timer,      \* per worker: time until check_ev
    lag,        \* per worker in a handler: the age of ngx_current_msec
    recent,     \* history: the last results
    since,      \* history: the time since the last check began
    crashes,
    conf        \* keepalive: check_keepalive_requests > 1; fresh: no older
                \* record; lag: how old ngx_current_msec may be

shm == <<owner, age, down, rise, fall, mutex>>

vars == <<shm, pc, checking, run, kept, result, timer, lag, recent, since,
          crashes, conf>>

Half == Interval \div 2

Longest == IF RiseCount > FallCount THEN RiseCount ELSE FallCount

(* The types; no counter goes below 0, and no clock is behind by more     *)
(* than MaxLag.                                                           *)
TypeOK ==
    /\ owner \in Workers \union {None, Gone}
    /\ age \in 0..MaxAge
    /\ down \in {0, 1}
    /\ rise \in 0..RiseCount /\ fall \in 0..FallCount
    /\ mutex \in {"free", "stuck"}
    /\ pc \in [Workers -> {"loop", "lock", "reread", "update", "clean", "dead"}]
    /\ checking \in [Workers -> {0, 1}]
    /\ run \in [Workers -> 0..Timeout]
    /\ kept \in [Workers -> {0, 1}]
    /\ result \in [Workers -> {0, 1}]
    /\ timer \in [Workers -> 0..Delay] /\ Half <= Delay
    /\ lag \in [Workers -> 0..MaxLag]
    /\ recent \in Seq({0, 1}) /\ Len(recent) <= Longest
    /\ since \in 0..Interval
    /\ crashes \in 0..MaxCrashes
    /\ conf \in Confs

-----------------------------------------------------------------------------
(* check_ev goes off: ngx_http_upstream_check_begin_handler up to the     *)
(* mutex.  Nothing more to do if this process checks already, or if the   *)
(* last result is from after its idea of now.                             *)
Begin(w) ==
    /\ pc[w] = "loop" /\ timer[w] = 0
    /\ timer' = [timer EXCEPT ![w] = Half]
    /\ \E l \in 0..conf.lag :
          IF owner = w \/ checking[w] = 1 \/ age < l
          THEN UNCHANGED <<pc, lag>>
          ELSE /\ pc' = [pc EXCEPT ![w] = "lock"]
               /\ lag' = [lag EXCEPT ![w] = l]
    /\ UNCHANGED <<shm, checking, run, kept, result, recent, since, crashes, conf>>

(* The part under the mutex: interval is a difference of unsigned times.  *)
Elapsed(w) == (age - lag[w]) % Modulus

Decided(w, free, over) ==
    \/ Elapsed(w) >= free /\ owner = None /\ owner' = w /\ UNCHANGED age
    \/ Elapsed(w) >= over /\ owner # None /\ owner' = w /\ age' = lag[w]
    \/ /\ Elapsed(w) < (IF owner = None THEN free ELSE over)
       /\ UNCHANGED <<owner, age>>

DecideSoon(w) == Decided(w, Interval - 1, Patience)

DecideHasty(w) == Decided(w, Interval, 2 * Interval)

DecideNeverTakesOver(w) == Decided(w, Interval, Modulus)

Decide(w) == Decided(w, Interval, Patience)

Lock(w) ==
    /\ pc[w] = "lock" /\ mutex = "free"
    /\ Decide(w)
    /\ pc' = [pc EXCEPT ![w] = "reread"]
    /\ UNCHANGED <<down, rise, fall, mutex, checking, run, kept, result, timer,
                   lag, recent, since, crashes, conf>>

(* owner is read again, and ngx_http_upstream_check_connect_handler       *)
(* connects, or takes the connection it kept; a failure is a result.      *)
Connect(w) ==
    /\ pc[w] = "reread"
    /\ \/ /\ owner # w
          /\ pc' = [pc EXCEPT ![w] = "loop"]
          /\ lag' = [lag EXCEPT ![w] = 0]
          /\ UNCHANGED <<checking, run, kept, result, since>>
       \/ /\ owner = w
          /\ pc' = [pc EXCEPT ![w] = "loop"]
          /\ lag' = [lag EXCEPT ![w] = 0]
          /\ checking' = [checking EXCEPT ![w] = 1]
          /\ run' = [run EXCEPT ![w] = 0]
          /\ kept' = [kept EXCEPT ![w] = 0]
          /\ since' = 0
          /\ UNCHANGED result
       \/ /\ owner = w
          /\ pc' = [pc EXCEPT ![w] = "update"]
          /\ result' = [result EXCEPT ![w] = 0]
          /\ kept' = [kept EXCEPT ![w] = 0]
          /\ since' = 0
          /\ UNCHANGED <<checking, run, lag>>
    /\ UNCHANGED <<shm, timer, recent, crashes, conf>>

(* The send, recv or peek handler has a result; the connection is kept if *)
(* it is in order and has requests left.                                  *)
Finish(w, res, k) ==
    /\ pc[w] = "loop" /\ checking[w] = 1
    /\ k = 1 => conf.keepalive
    /\ pc' = [pc EXCEPT ![w] = "update"]
    /\ result' = [result EXCEPT ![w] = res]
    /\ kept' = [kept EXCEPT ![w] = k]
    /\ \E l \in 0..conf.lag : lag' = [lag EXCEPT ![w] = l]
    /\ UNCHANGED <<shm, checking, run, timer, recent, since, crashes, conf>>

(* ngx_http_upstream_check_timeout_handler                                *)
TimeoutHandler(w) ==
    /\ pc[w] = "loop" /\ checking[w] = 1 /\ run[w] = Timeout
    /\ pc' = [pc EXCEPT ![w] = "update"]
    /\ result' = [result EXCEPT ![w] = 0]
    /\ \E l \in 0..conf.lag : lag' = [lag EXCEPT ![w] = l]
    /\ UNCHANGED <<shm, checking, run, kept, timer, recent, since, crashes, conf>>

Capped(n, cap) == IF n > cap THEN cap ELSE n

(* ngx_http_upstream_check_status_update.  The counters are capped where  *)
(* they no longer make a difference.                                      *)
CountedForgetful(res) ==
    IF res = 1
    THEN /\ rise' = Capped(rise + 1, RiseCount)
         /\ fall' = 0
         /\ down' = IF rise' >= RiseCount THEN 0 ELSE down
    ELSE /\ UNCHANGED rise
         /\ fall' = Capped(fall + 1, FallCount)
         /\ down' = IF fall' >= FallCount THEN 1 ELSE down

Counted(res) ==
    IF res = 1
    THEN /\ rise' = Capped(rise + 1, RiseCount)
         /\ fall' = 0
         /\ down' = IF rise' >= RiseCount THEN 0 ELSE down
    ELSE /\ rise' = 0
         /\ fall' = Capped(fall + 1, FallCount)
         /\ down' = IF fall' >= FallCount THEN 1 ELSE down

Latest(s) ==
    IF Len(s) > Longest THEN SubSeq(s, Len(s) - Longest + 1, Len(s)) ELSE s

StatusUpdate(w) ==
    /\ pc[w] = "update" /\ mutex = "free"
    /\ Counted(result[w])
    /\ age' = lag[w]
    /\ recent' = Latest(Append(recent, result[w]))
    /\ pc' = [pc EXCEPT ![w] = "clean"]
    /\ UNCHANGED <<owner, mutex, checking, run, kept, result, timer, lag,
                   since, crashes, conf>>

(* ngx_http_upstream_check_clean_event: the connection may be kept; the   *)
(* server is free, whoever owned it.                                      *)
CleanEvent(w) ==
    /\ pc[w] = "clean"
    /\ owner' = None
    /\ checking' = [checking EXCEPT ![w] = 0]
    /\ run' = [run EXCEPT ![w] = 0]
    /\ pc' = [pc EXCEPT ![w] = "loop"]
    /\ lag' = [lag EXCEPT ![w] = 0]
    /\ result' = [result EXCEPT ![w] = 0]
    /\ UNCHANGED <<age, down, rise, fall, mutex, kept, timer, recent, since,
                   crashes, conf>>

(* ngx_http_upstream_check_discard_handler: the server closed, or spoilt, *)
(* the connection that was kept.                                          *)
Discard(w) ==
    /\ pc[w] = "loop" /\ kept[w] = 1
    /\ kept' = [kept EXCEPT ![w] = 0]
    /\ pc' = [pc EXCEPT ![w] = "clean"]
    /\ UNCHANGED <<shm, checking, run, result, timer, lag, recent, since, crashes, conf>>

-----------------------------------------------------------------------------
(* A worker dies.  The kernel closes its connections; the shared record   *)
(* stays as it was, the mutex too.                                        *)
Crash(w) ==
    /\ pc[w] # "dead" /\ crashes < MaxCrashes
    /\ \/ UNCHANGED mutex
       \/ CrashLocked /\ pc[w] \in {"lock", "update"} /\ mutex' = "stuck"
    /\ owner' = IF owner = w THEN Gone ELSE owner
    /\ pc' = [pc EXCEPT ![w] = "dead"]
    /\ checking' = [checking EXCEPT ![w] = 0]
    /\ run' = [run EXCEPT ![w] = 0]
    /\ kept' = [kept EXCEPT ![w] = 0]
    /\ lag' = [lag EXCEPT ![w] = 0]
    /\ result' = [result EXCEPT ![w] = 0]
    /\ crashes' = crashes + 1
    /\ UNCHANGED <<age, down, rise, fall, timer, recent, since, conf>>

(* The master starts another one: ngx_http_upstream_check_add_timers.     *)
InitProcess(w) ==
    /\ pc[w] = "dead"
    /\ pc' = [pc EXCEPT ![w] = "loop"]
    /\ \E t \in 0..Delay : timer' = [timer EXCEPT ![w] = t]
    /\ UNCHANGED <<shm, checking, run, kept, result, lag, recent, since, crashes, conf>>

(* Time passes: no further than the next timer of a worker in its loop,   *)
(* and no more than MaxLag while a worker is busy in a handler, unless it *)
(* waits for a mutex nobody will unlock.                                  *)
Busy(w) == pc[w] \notin {"loop", "dead"}

Waiting(w) == pc[w] \in {"lock", "update"} /\ mutex = "stuck"

Tick ==
    /\ \A w \in Workers :
          /\ pc[w] = "loop" => timer[w] > 0 /\ (checking[w] = 1 => run[w] < Timeout)
          /\ Busy(w) /\ ~Waiting(w) => lag[w] < conf.lag
    /\ age' = Capped(age + 1, MaxAge)
    /\ since' = Capped(since + 1, Interval)
    /\ timer' = [w \in Workers |-> IF timer[w] > 0 THEN timer[w] - 1 ELSE 0]
    /\ run' = [w \in Workers |->
                 IF checking[w] = 1 THEN Capped(run[w] + 1, Timeout) ELSE run[w]]
    /\ lag' = [w \in Workers |->
                 IF Busy(w) THEN Capped(lag[w] + 1, conf.lag) ELSE lag[w]]
    /\ UNCHANGED <<owner, down, rise, fall, mutex, pc, checking, kept, result,
                   recent, crashes, conf>>

-----------------------------------------------------------------------------
Idle ==
    /\ owner = None /\ mutex = "free"
    /\ pc = [w \in Workers |-> "loop"]
    /\ checking = [w \in Workers |-> 0]
    /\ run = [w \in Workers |-> 0]
    /\ kept = [w \in Workers |-> 0]
    /\ result = [w \in Workers |-> 0]
    /\ timer \in [Workers -> 0..Delay]
    /\ lag = [w \in Workers |-> 0]
    /\ since = Interval
    /\ crashes = 0

(* The server starts: ngx_http_upstream_check_init_shm_peer without an    *)
(* older record.  An access_time of 0 is longer ago than any interval.    *)
Fresh ==
    /\ age = MaxAge
    /\ rise = 0 /\ fall = 0 /\ down \in {0, 1}
    /\ recent = << >>

(* The workers of a new configuration inherit, with the same function, a  *)
(* record that has just got its first result.                             *)
Inherited ==
    /\ age = 0
    /\ \E r \in {0, 1} :
          /\ rise = r /\ fall = 1 - r
          /\ recent = <<r>>
          /\ IF r = 1 THEN RiseCount = 1 => down = 0
                      ELSE FallCount = 1 => down = 1
    /\ down \in {0, 1}

Init ==
    /\ Idle
    /\ conf \in Confs
    /\ IF conf.fresh THEN Fresh ELSE Inherited

Step(w) ==
    \/ Begin(w) \/ Lock(w) \/ Connect(w)
    \/ \E res, k \in {0, 1} : Finish(w, res, k)
    \/ TimeoutHandler(w) \/ StatusUpdate(w) \/ CleanEvent(w) \/ Discard(w)
    \/ Crash(w) \/ InitProcess(w)

Next == Tick \/ \E w \in Workers : Step(w)

Spec == Init /\ [][Next]_vars

(* A process in a handler goes on, expired timers are served, a worker    *)
(* that died is replaced, and time passes.  Neither an answer of the      *)
(* server nor the end of a connection that is kept is promised.           *)
Fairness ==
    /\ WF_vars(Tick)
    /\ \A w \in Workers :
          /\ WF_vars(Begin(w)) /\ WF_vars(Lock(w)) /\ WF_vars(Connect(w))
          /\ WF_vars(TimeoutHandler(w)) /\ WF_vars(StatusUpdate(w))
          /\ WF_vars(CleanEvent(w)) /\ WF_vars(InitProcess(w))

FairSpec == Spec /\ Fairness

-----------------------------------------------------------------------------
(* Two workers never check the server at the same time: a worker that     *)
(* owns it (begin_handler, "This process is processing this peer now") is *)
(* left alone until its check has ended or it is gone.  Not so before the *)
(* first result, while access_time is 0; nor with kept connections, whose *)
(* end frees the server of another worker; nor if the clock of a worker   *)
(* is behind access_time when it has the mutex, and the interval wraps.   *)
Calm == ~conf.fresh /\ ~conf.keepalive /\ conf.lag = 0

OneChecker ==
    Calm => \A v, w \in Workers : checking[v] = 1 /\ checking[w] = 1 => v = w

(* Checks begin at least check_interval after the one before, whichever   *)
(* workers made them: connect_handler is reached no sooner (the same      *)
(* exceptions).                                                           *)
Spaced ==
    [][Calm => \A w \in Workers :
          pc[w] = "reread" /\ owner = w /\ pc'[w] \in {"loop", "update"}
             => since = Interval]_vars

(* The server changes sides only after enough results in a row:           *)
(* status_update sets down after fall_count failures, and clears it after *)
(* rise_count successes, counted by whichever workers made the checks.    *)
LastAre(r, n) ==
    Len(recent') >= n /\ \A i \in Len(recent') - n + 1 .. Len(recent') : recent'[i] = r

Hysteresis ==
    [][/\ down' > down => LastAre(0, FallCount)
       /\ down' < down => LastAre(1, RiseCount)]_vars

(* The server is checked again and again, even when the worker that owned *)
(* it has died and will never clean up: the takeover of begin_handler.    *)
(* (Nobody unlocks the mutex of a server for a worker that died with it.) *)
CheckedAgain ==
    []<>(mutex = "stuck" \/ \E w \in Workers : pc[w] = "clean" /\ age <= MaxLag)

=============================================================================
