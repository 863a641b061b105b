------------------------------- MODULE Shmtx -------------------------------
(***************************************************************************)
(* The shared-memory mutex of src/core/ngx_shmtx.c (atomic operations and  *)
(* POSIX semaphore build), with the master's release of a dead worker's    *)
(* mutex (ngx_unlock_mutexes in src/os/unix/ngx_process.c).                *)
(*                                                                         *)
(* The mutex is three shared words: lock (0 or the pid of the holder), the *)
(* signed counter wait and a process-shared semaphore.  A worker's own     *)
(* position in the code is pc[w]; one action is one access to a shared     *)
(* word.  "*lock == 0 && cmp_set(lock, 0, pid)" is one action: it succeeds *)
(* exactly when the cmp_set does, and the read before it only gives up     *)
(* earlier in states where the cmp_set would fail as well.  The loop in    *)
(* ngx_shmtx_wakeup() is one action for the same reason: a failed cmp_set  *)
(* of wait changes nothing and reads wait again.                           *)
(***************************************************************************)
EXTENDS Integers, FiniteSets

CONSTANTS Workers,    \* pids of the worker processes
          Master,     \* the master process, which reaps dead workers
          None,       \* the value 0 of the lock word
          Semaphore,  \* mtx->semaphore: sem_init() succeeded
          FaultKinds, \* which faults happen: "crash", "sem_wait", "sem_post"
          MaxFaults   \* bound: how many of them

ASSUME ConstantsAssumption ==
    /\ IsFiniteSet(Workers)
    /\ Master \notin Workers
    /\ None \notin Workers \cup {Master}
    /\ Semaphore \in BOOLEAN
    /\ FaultKinds \subseteq {"crash", "sem_wait", "sem_post"}
    /\ MaxFaults \in Nat

VARIABLES lock,    \* *mtx->lock
          wait,    \* *mtx->wait as a signed number
          sem,     \* value of mtx->sem
          pc,      \* where each process is in the functions of the mutex
          faults   \* faults so far

vars == <<lock, wait, sem, pc, faults>>

Procs == Workers \cup {Master}

(***************************************************************************)
(* idle   outside; lock   about to try (first try or spinning);            *)
(* inc    about to add 1 to wait; retry  about to try once more;           *)
(* dec    holds the lock, about to take its 1 off wait;                    *)
(* sleep  in sem_wait(); cs  holds the lock;                               *)
(* wake   released the lock, in ngx_shmtx_wakeup() before the cmp_set;     *)
(* post   took 1 off wait, about to sem_post();                            *)
(* dead   crashed, not reaped; gone  reaped, not respawned.                *)
(***************************************************************************)
Locations == {"idle", "lock", "inc", "retry", "dec", "sleep", "cs",
              "wake", "post", "dead", "gone"}

(* The types; the semaphore never goes below 0, but wait may. *)
TypeOK ==
    /\ lock \in Workers \cup {None}
    /\ wait \in Int
    /\ sem \in Nat
    /\ pc \in [Procs -> Locations]
    /\ pc[Master] \in {"idle", "wake", "post"}
    /\ faults \in 0 .. MaxFaults

Init ==
    /\ lock = None
    /\ wait = 0
    /\ sem = 0
    /\ pc = [p \in Procs |-> "idle"]
    /\ faults = 0

Goto(p, there) == pc' = [pc EXCEPT ![p] = there]

-----------------------------------------------------------------------------
(* ngx_shmtx_trylock(): one attempt, success or return. *)
Trylock(w) ==
    /\ pc[w] = "idle"
    /\ lock = None
    /\ lock' = w
    /\ Goto(w, "cs")
    /\ UNCHANGED <<wait, sem, faults>>

(* ngx_shmtx_lock() is called. *)
LockCall(w) ==
    /\ pc[w] = "idle"
    /\ Goto(w, "lock")
    /\ UNCHANGED <<lock, wait, sem, faults>>

(* An attempt of the first part of the loop takes the lock. *)
LockAcquire(w) ==
    /\ pc[w] = "lock"
    /\ lock = None
    /\ lock' = w
    /\ Goto(w, "cs")
    /\ UNCHANGED <<wait, sem, faults>>

(* The last attempt of the spin phase fails; without a semaphore the worker
   yields and goes round the loop, which changes nothing. *)
LockSpunOut(w) ==
    /\ pc[w] = "lock"
    /\ lock # None
    /\ Semaphore
    /\ Goto(w, "inc")
    /\ UNCHANGED <<lock, wait, sem, faults>>

(* ngx_atomic_fetch_add(mtx->wait, 1) *)
WaitInc(w) ==
    /\ pc[w] = "inc"
    /\ wait' = wait + 1
    /\ Goto(w, "retry")
    /\ UNCHANGED <<lock, sem, faults>>

(* mutant: no second attempt between raising wait and sleeping *)
RetrySkipped(w) ==
    /\ pc[w] = "retry"
    /\ Goto(w, "sleep")
    /\ UNCHANGED <<lock, wait, sem, faults>>

(* The attempt after wait was raised: the worker must not sleep on a lock that
   was released before its 1 was visible. *)
Retry(w) ==
    /\ pc[w] = "retry"
    /\ \/ lock = None /\ lock' = w /\ Goto(w, "dec")
       \/ lock # None /\ UNCHANGED lock /\ Goto(w, "sleep")
    /\ UNCHANGED <<wait, sem, faults>>

(* mutant: the second attempt succeeds and wait keeps the 1 *)
WaitDecForgotten(w) ==
    /\ pc[w] = "dec"
    /\ Goto(w, "cs")
    /\ UNCHANGED <<lock, wait, sem, faults>>

(* ngx_atomic_fetch_add(mtx->wait, -1) *)
WaitDec(w) ==
    /\ pc[w] = "dec"
    /\ wait' = wait - 1
    /\ Goto(w, "cs")
    /\ UNCHANGED <<lock, sem, faults>>

(* sem_wait() returns; EINTR only calls it again. *)
SemWait(w) ==
    /\ pc[w] = "sleep"
    /\ sem > 0
    /\ sem' = sem - 1
    /\ Goto(w, "lock")
    /\ UNCHANGED <<lock, wait, faults>>

(* ngx_shmtx_unlock(): cmp_set(lock, pid, 0), then ngx_shmtx_wakeup(). *)
Unlock(w) ==
    /\ pc[w] = "cs"
    /\ lock = w
    /\ lock' = None
    /\ Goto(w, IF Semaphore THEN "wake" ELSE "idle")
    /\ UNCHANGED <<wait, sem, faults>>

(* mutant: the last waiter is not woken *)
WakeupOffByOne(p) ==
    /\ pc[p] = "wake"
    /\ \/ wait <= 1 /\ Goto(p, "idle") /\ UNCHANGED wait
       \/ wait > 1 /\ wait' = wait - 1 /\ Goto(p, "post")
    /\ UNCHANGED <<lock, sem, faults>>

(* ngx_shmtx_wakeup(): nobody to wake, or take 1 off wait. *)
Wakeup(p) ==
    /\ pc[p] = "wake"
    /\ \/ wait <= 0 /\ Goto(p, "idle") /\ UNCHANGED wait
       \/ wait > 0 /\ wait' = wait - 1 /\ Goto(p, "post")
    /\ UNCHANGED <<lock, sem, faults>>

(* sem_post() *)
SemPost(p) ==
    /\ pc[p] = "post"
    /\ sem' = sem + 1
    /\ Goto(p, "idle")
    /\ UNCHANGED <<lock, wait, faults>>

-----------------------------------------------------------------------------
Fault(kind) ==
    /\ kind \in FaultKinds
    /\ faults < MaxFaults
    /\ faults' = faults + 1

(* sem_wait() fails with something else than EINTR: logged, and the worker goes
   round the loop with its 1 left in wait. *)
SemWaitFails(w) ==
    /\ pc[w] = "sleep"
    /\ Fault("sem_wait")
    /\ Goto(w, "lock")
    /\ UNCHANGED <<lock, wait, sem>>

(* sem_post() fails: logged, the token is lost. *)
SemPostFails(p) ==
    /\ pc[p] = "post"
    /\ Fault("sem_post")
    /\ Goto(p, "idle")
    /\ UNCHANGED <<lock, wait, sem>>

(* A worker terminates abnormally wherever it is. *)
Crash(w) ==
    /\ pc[w] \notin {"dead", "gone"}
    /\ Fault("crash")
    /\ Goto(w, "dead")
    /\ UNCHANGED <<lock, wait, sem>>

(* mutant: the master does not release the dead worker's mutex *)
ReapOnly(w) ==
    /\ pc[w] = "dead"
    /\ pc[Master] = "idle"
    /\ Goto(w, "gone")
    /\ UNCHANGED <<lock, wait, sem, faults>>

(* ngx_process_get_status() in the master: waitpid() returned w, so
   ngx_unlock_mutexes(w) calls ngx_shmtx_force_unlock(mtx, w), which runs
   ngx_shmtx_wakeup() only if the dead worker was the holder. *)
Reap(w) ==
    /\ pc[w] = "dead"
    /\ pc[Master] = "idle"
    /\ \/ /\ lock = w
          /\ lock' = None
          /\ pc' = [pc EXCEPT ![w] = "gone",
                              ![Master] = IF Semaphore THEN "wake" ELSE "idle"]
       \/ /\ lock # w
          /\ UNCHANGED lock
          /\ Goto(w, "gone")
    /\ UNCHANGED <<wait, sem, faults>>

(* The master forks a replacement; the pid is named like the dead one, which no
   shared word mentions any more. *)
Respawn(w) ==
    /\ pc[w] = "gone"
    /\ pc[Master] = "idle"
    /\ Goto(w, "idle")
    /\ UNCHANGED <<lock, wait, sem, faults>>

LockStep(w) ==
    \/ LockAcquire(w) \/ LockSpunOut(w)
    \/ WaitInc(w) \/ Retry(w) \/ WaitDec(w) \/ SemWait(w)

Release(p) == Wakeup(p) \/ SemPost(p)

Next ==
    \/ \E w \in Workers :
          \/ Trylock(w) \/ LockCall(w) \/ LockStep(w) \/ Unlock(w)
          \/ SemWaitFails(w) \/ Crash(w) \/ Reap(w) \/ Respawn(w)
    \/ \E p \in Procs : Release(p) \/ SemPostFails(p)

Spec == Init /\ [][Next]_vars

(***************************************************************************)
(* Every process that can run does run, a holder releases the lock, and    *)
(* the master gets SIGCHLD; nothing forces a worker to ask for the lock.   *)
(***************************************************************************)
Fairness ==
    /\ \A w \in Workers : WF_vars(LockStep(w)) /\ WF_vars(Unlock(w))
                          /\ WF_vars(Reap(w))
    /\ \A p \in Procs : WF_vars(Release(p))

FairSpec == Spec /\ Fairness

-----------------------------------------------------------------------------
Holding(w) == pc[w] \in {"cs", "dec"}

Waiting == {w \in Workers : pc[w] \in {"retry", "dec", "sleep"}}

Posting == {p \in Procs : pc[p] = "post"}

(* What a caller can tell of the location of a worker. *)
Seen(w) ==
    CASE pc[w] \in {"lock", "inc", "retry", "sleep"} -> "asking"
      [] Holding(w) -> "in"
      [] pc[w] = "dead" -> "dead"
      [] OTHER -> "out"

Abstract ==
    INSTANCE SharedLock WITH owner <- lock, state <- [w \in Workers |-> Seen(w)]

(* The lock word, the counter and the semaphore of ngx_shmtx.c, with the second
   attempt, the wake-ups and the master's ngx_shmtx_force_unlock(), behave as one
   lock that has an owner: every step is a step of SharedLock or invisible. *)
ImplementsSharedLock == Abstract!Spec

(* Two workers are never past ngx_shmtx_lock() or ngx_shmtx_trylock() at the
   same time, although the master takes the lock away from dead workers and a
   worker may own it while it still has to take its 1 off wait. *)
MutualExclusion ==
    \A v, w \in Workers : Holding(v) /\ Holding(w) => v = w

(* The lock word names a worker only while that worker holds the lock, or died
   and is not reaped: ngx_shmtx_force_unlock() can always recover it, and no
   respawned worker starts its life as the holder. *)
LockOwned ==
    \A w \in Workers : IF lock = w THEN Holding(w) \/ pc[w] = "dead" ELSE ~Holding(w)

(* The counter, the semaphore and the posts under way together account for the
   workers that raised wait and were not woken yet; every crash or failed
   semaphore call puts the books out by at most one, either way.  The counter
   alone may well be negative, which is why ngx_shmtx_wakeup() compares it as a
   signed number. *)
TokensAccounted ==
    wait + sem + Cardinality(Posting) - Cardinality(Waiting) \in -faults .. faults

(* While nothing fails, a worker asleep in sem_wait() with the lock free and no
   token left is always about to be woken: a wake-up is under way, or a worker
   that will have to unlock is about to take the lock. *)
NoLostWakeup ==
    (faults = 0 /\ lock = None /\ sem = 0 /\ \E w \in Workers : pc[w] = "sleep")
        => \/ \E p \in Procs : pc[p] \in {"wake", "post"}
           \/ \E w \in Workers : pc[w] \in {"lock", "inc", "retry"}

(* Somebody who asks for the lock makes somebody get it, as long as nothing
   fails: with nobody forced to call ngx_shmtx_lock() again, a lost wake-up
   would leave the sleepers of ngx_shmtx_lock() there for ever. *)
LockProgress ==
    (\E w \in Workers : pc[w] \in {"lock", "inc", "retry", "sleep"})
        ~> (faults > 0 \/ \E w \in Workers : Holding(w))
=============================================================================
