---------------------------- MODULE ShmtxProofs ----------------------------
(***************************************************************************)
(* Proofs about the shared-memory mutex, for every finite set of workers   *)
(* and every number of faults.                                             *)
(***************************************************************************)
EXTENDS Shmtx, FiniteSetTheorems, TLAPS

(* The words of the mutex and the locations of the processes keep their types:
   sem never goes below 0 and the master is only ever in ngx_shmtx_wakeup(). *)
THEOREM TypeCorrect == Spec => []TypeOK
<1>1. Init => TypeOK
  BY ConstantsAssumption DEF Init, TypeOK, Procs, Locations
<1>2. TypeOK /\ [Next]_vars => TypeOK'
  <2> SUFFICES ASSUME TypeOK, [Next]_vars PROVE TypeOK'
    OBVIOUS
  <2> USE ConstantsAssumption DEF TypeOK, Procs, Locations, Goto
  <2>1. ASSUME NEW w \in Workers, Trylock(w) \/ LockCall(w) \/ Unlock(w)
        PROVE TypeOK'
    BY <2>1 DEF Trylock, LockCall, Unlock
  <2>2. ASSUME NEW w \in Workers, LockStep(w)
        PROVE TypeOK'
    BY <2>2 DEF LockStep, LockAcquire, LockSpunOut, WaitInc, Retry, WaitDec, SemWait
  <2>3. ASSUME NEW w \in Workers, SemWaitFails(w) \/ Crash(w)
        PROVE TypeOK'
    BY <2>3 DEF SemWaitFails, Crash, Fault
  <2>4. ASSUME NEW w \in Workers, Reap(w) \/ Respawn(w)
        PROVE TypeOK'
    BY <2>4 DEF Reap, Respawn
  <2>5. ASSUME NEW p \in Procs, Release(p)
        PROVE TypeOK'
    BY <2>5 DEF Release, Wakeup, SemPost
  <2>6. ASSUME NEW p \in Procs, SemPostFails(p)
        PROVE TypeOK'
    BY <2>6 DEF SemPostFails, Fault
  <2>7. CASE UNCHANGED vars
    BY <2>7 DEF vars
  <2> QED
    BY <2>1, <2>2, <2>3, <2>4, <2>5, <2>6, <2>7 DEF Next
<1> QED
  BY <1>1, <1>2, PTL DEF Spec

(* The lock word and the locations agree: LockOwned is inductive by itself. *)
THEOREM LockWordOwned == Spec => []LockOwned
<1>1. Init => LockOwned
  BY ConstantsAssumption DEF Init, LockOwned, Holding, Procs
<1>2. TypeOK /\ LockOwned /\ [Next]_vars => LockOwned'
  <2> SUFFICES ASSUME TypeOK, LockOwned, [Next]_vars PROVE LockOwned'
    OBVIOUS
  <2> USE ConstantsAssumption DEF TypeOK, LockOwned, Holding, Procs, Goto
  <2>1. ASSUME NEW w \in Workers, Trylock(w) \/ LockCall(w) \/ Unlock(w)
        PROVE LockOwned'
    BY <2>1 DEF Trylock, LockCall, Unlock
  <2>2. ASSUME NEW w \in Workers, LockStep(w)
        PROVE LockOwned'
    BY <2>2 DEF LockStep, LockAcquire, LockSpunOut, WaitInc, Retry, WaitDec, SemWait
  <2>3. ASSUME NEW w \in Workers, SemWaitFails(w) \/ Crash(w)
        PROVE LockOwned'
    BY <2>3 DEF SemWaitFails, Crash
  <2>4. ASSUME NEW w \in Workers, Reap(w) \/ Respawn(w)
        PROVE LockOwned'
    BY <2>4 DEF Reap, Respawn
  <2>5. ASSUME NEW p \in Procs, Release(p) \/ SemPostFails(p)
        PROVE LockOwned'
    BY <2>5 DEF Release, Wakeup, SemPost, SemPostFails
  <2>6. CASE UNCHANGED vars
    BY <2>6 DEF vars
  <2> QED
    BY <2>1, <2>2, <2>3, <2>4, <2>5, <2>6 DEF Next
<1> QED
  BY <1>1, <1>2, TypeCorrect, PTL DEF Spec

(* At most one worker is past the lock, whatever crashes and is reaped: two
   holders would both be the value of the lock word. *)
THEOREM Mutex == Spec => []MutualExclusion
<1>1. LockOwned => MutualExclusion
  BY DEF LockOwned, MutualExclusion
<1> QED
  BY <1>1, LockWordOwned, PTL

(* Every step of the mutex is a step of the abstract lock or leaves it alone:
   LockCall asks, the three successful cmp_set enter, Unlock leaves, Crash dies
   and Reap recovers; what is done to wait and to the semaphore is invisible. *)
THEOREM Refinement == Spec => ImplementsSharedLock
<1> DEFINE State == [w \in Workers |-> Seen(w)]
<1>1. Init => Abstract!Init
  BY ConstantsAssumption DEF Init, Abstract!Init, Seen, Holding, Procs
<1>2. TypeOK /\ LockOwned /\ [Next]_vars => [Abstract!Next]_(Abstract!lockVars)
  <2> SUFFICES ASSUME TypeOK, LockOwned, [Next]_vars
               PROVE  Abstract!Next \/ UNCHANGED <<lock, State>>
    BY DEF Abstract!lockVars
  <2>0. ASSUME NEW p \in Procs, NEW t \in Locations, Goto(p, t)
        PROVE  /\ p = Master => State' = State
               /\ p \in Workers => State' = [State EXCEPT ![p] = Seen(p)']
               /\ p \in Workers /\ Seen(p)' = Seen(p) => State' = State
    BY <2>0, ConstantsAssumption, ZenonT(60) DEF Goto, Seen, Holding, TypeOK, Procs, Locations
  <2> USE ConstantsAssumption DEF TypeOK, Procs, Locations
  <2>1. ASSUME NEW w \in Workers, LockCall(w)
        PROVE  Abstract!Ask(w)
    <3>1. Seen(w) = "out" /\ Seen(w)' = "asking"
      BY <2>1 DEF LockCall, Goto, Seen, Holding
    <3> QED
      BY <2>0, <2>1, <3>1 DEF LockCall, Abstract!Ask, Abstract!Become
  <2>2. ASSUME NEW w \in Workers,
               Trylock(w) \/ LockAcquire(w) \/ (Retry(w) /\ lock = None)
        PROVE  Abstract!Enter(w)
    <3>1. Seen(w) \in {"out", "asking"} /\ Seen(w)' = "in"
      BY <2>2 DEF Trylock, LockAcquire, Retry, Goto, Seen, Holding
    <3>2. Goto(w, "cs") \/ Goto(w, "dec")
      BY <2>2 DEF Trylock, LockAcquire, Retry
    <3>3. lock = None /\ lock' = w
      BY <2>2 DEF Trylock, LockAcquire, Retry
    <3> QED
      BY <2>0, <3>1, <3>2, <3>3 DEF Abstract!Enter, Abstract!Become
  <2>3. ASSUME NEW w \in Workers, Unlock(w)
        PROVE  Abstract!Leave(w)
    <3>1. Seen(w) = "in" /\ Seen(w)' = "out"
      BY <2>3 DEF Unlock, Goto, Seen, Holding
    <3>2. Goto(w, "wake") \/ Goto(w, "idle")
      BY <2>3 DEF Unlock
    <3> QED
      BY <2>0, <2>3, <3>1, <3>2 DEF Unlock, Abstract!Leave, Abstract!Become
  <2>4. ASSUME NEW w \in Workers, Crash(w)
        PROVE  Abstract!Die(w)
    <3>1. Seen(w) # "dead" /\ Seen(w)' = "dead"
      BY <2>4 DEF Crash, Goto, Seen, Holding
    <3> QED
      BY <2>0, <2>4, <3>1 DEF Crash, Abstract!Die, Abstract!Become
  <2>5. ASSUME NEW w \in Workers, Reap(w)
        PROVE  Abstract!Recover(w)
    <3>1. Seen(w) = "dead" /\ State' = [State EXCEPT ![w] = "out"]
      BY <2>5, ZenonT(30) DEF Reap, Goto, Seen, Holding
    <3>2. lock' = IF lock = w THEN None ELSE lock
      BY <2>5 DEF Reap
    <3> QED
      BY <3>1, <3>2 DEF Abstract!Recover, Abstract!Become
  <2>6. ASSUME NEW w \in Workers,
               \/ LockSpunOut(w) \/ WaitInc(w) \/ WaitDec(w) \/ SemWait(w)
               \/ (Retry(w) /\ lock # None) \/ SemWaitFails(w) \/ Respawn(w)
        PROVE  UNCHANGED <<lock, State>>
    <3>1. Seen(w)' = Seen(w) /\ lock' = lock
      BY <2>6 DEF LockSpunOut, WaitInc, WaitDec, SemWait, Retry, SemWaitFails,
                  Respawn, Goto, Seen, Holding
    <3>2. \E t \in Locations : Goto(w, t)
      BY <2>6 DEF LockSpunOut, WaitInc, WaitDec, SemWait, Retry, SemWaitFails,
                  Respawn
    <3> QED
      BY <2>0, <3>1, <3>2, ZenonT(30)
  <2>7. ASSUME NEW p \in Procs, Release(p) \/ SemPostFails(p)
        PROVE  UNCHANGED <<lock, State>>
    <3>1. lock' = lock /\ \E t \in Locations : Goto(p, t)
      BY <2>7 DEF Release, Wakeup, SemPost, SemPostFails
    <3>2. p \in Workers => Seen(p)' = Seen(p)
      BY <2>7 DEF Release, Wakeup, SemPost, SemPostFails, Goto, Seen, Holding
    <3> QED
      BY <2>0, <3>1, <3>2, ZenonT(30)
  <2>8. CASE UNCHANGED vars
    BY <2>8 DEF vars, Seen, Holding
  <2> QED
    BY <2>1, <2>2, <2>3, <2>4, <2>5, <2>6, <2>7, <2>8
       DEF Next, LockStep, Abstract!Next
<1> QED
  BY <1>1, <1>2, TypeCorrect, LockWordOwned, PTL
     DEF Spec, ImplementsSharedLock, Abstract!Spec

(* The sets of waiting and of posting processes are finite, and lose or gain
   one process at a time. *)
LEMMA Counts ==
    /\ IsFiniteSet(Waiting) /\ Cardinality(Waiting) \in Nat
    /\ IsFiniteSet(Posting) /\ Cardinality(Posting) \in Nat
<1>1. IsFiniteSet(Procs)
  BY ConstantsAssumption, FS_AddElement DEF Procs
<1>2. Waiting \in SUBSET Procs /\ Posting \in SUBSET Procs
  BY DEF Waiting, Posting, Procs
<1>3. IsFiniteSet(Waiting) /\ IsFiniteSet(Posting)
  BY <1>1, <1>2, FS_Subset
<1> QED
  BY <1>3, FS_CardinalityType

(* The two counts after a step of one process. *)
LEMMA CountsAfter ==
    ASSUME NEW x
    PROVE  /\ Waiting' = Waiting \cup {x} /\ x \notin Waiting
                => Cardinality(Waiting)' = Cardinality(Waiting) + 1
           /\ Waiting' = Waiting \ {x} /\ x \in Waiting
                => Cardinality(Waiting)' = Cardinality(Waiting) - 1
           /\ Waiting' = Waiting => Cardinality(Waiting)' = Cardinality(Waiting)
           /\ Posting' = Posting \cup {x} /\ x \notin Posting
                => Cardinality(Posting)' = Cardinality(Posting) + 1
           /\ Posting' = Posting \ {x} /\ x \in Posting
                => Cardinality(Posting)' = Cardinality(Posting) - 1
           /\ Posting' = Posting => Cardinality(Posting)' = Cardinality(Posting)
<1>1. Cardinality(Waiting)' = Cardinality(Waiting')
      /\ Cardinality(Posting)' = Cardinality(Posting')
  OBVIOUS
<1> QED
  BY <1>1, Counts, FS_AddElement, FS_RemoveElement

(* wait, the semaphore and the posts under way account for the sleepers, up to
   the number of faults. *)
THEOREM TokensCorrect == Spec => []TokensAccounted
<1>1. Init => TokensAccounted
  <2> SUFFICES ASSUME Init PROVE TokensAccounted
    OBVIOUS
  <2>1. Waiting = {} /\ Posting = {}
    BY DEF Init, Waiting, Posting, Procs
  <2> QED
    BY <2>1, FS_EmptySet DEF Init, TokensAccounted
<1>2. TypeOK /\ TokensAccounted /\ [Next]_vars => TokensAccounted'
  <2> SUFFICES ASSUME TypeOK, TokensAccounted, [Next]_vars
               PROVE  TokensAccounted'
    OBVIOUS
  <2>0. /\ Cardinality(Waiting) \in Nat /\ Cardinality(Posting) \in Nat
        /\ wait \in Int /\ sem \in Nat /\ faults \in Nat
    BY Counts, ConstantsAssumption DEF TypeOK
  <2> USE ConstantsAssumption DEF TypeOK, Waiting, Posting, Procs, Goto
  <2>1. ASSUME Waiting' = Waiting, Posting' = Posting,
               UNCHANGED <<wait, sem, faults>>
        PROVE  TokensAccounted'
    BY <2>1, CountsAfter DEF TokensAccounted
  <2>2. ASSUME NEW w \in Workers,
               \/ Trylock(w) \/ LockCall(w) \/ LockAcquire(w) \/ LockSpunOut(w)
               \/ Retry(w) \/ Unlock(w)
        PROVE  TokensAccounted'
    BY <2>1, <2>2
       DEF Trylock, LockCall, LockAcquire, LockSpunOut, Retry, Unlock
  <2>3. ASSUME NEW w \in Workers, Reap(w) \/ Respawn(w)
        PROVE  TokensAccounted'
    BY <2>1, <2>3 DEF Reap, Respawn
  <2>4. ASSUME NEW w \in Workers, WaitInc(w)
        PROVE  TokensAccounted'
    <3>1. Waiting' = Waiting \cup {w} /\ w \notin Waiting /\ Posting' = Posting
      BY <2>4 DEF WaitInc
    <3> QED
      BY <2>0, <2>4, <3>1, CountsAfter, SMTT(30) DEF TokensAccounted, WaitInc
  <2>5. ASSUME NEW w \in Workers, WaitDec(w) \/ SemWait(w) \/ SemWaitFails(w)
        PROVE  TokensAccounted'
    <3>1. Waiting' = Waiting \ {w} /\ w \in Waiting /\ Posting' = Posting
      BY <2>5 DEF WaitDec, SemWait, SemWaitFails
    <3>2. \/ wait' + sem' = wait + sem - 1 /\ faults' = faults
          \/ wait' + sem' = wait + sem /\ faults' = faults + 1
      BY <2>5 DEF WaitDec, SemWait, SemWaitFails, Fault
    <3> QED
      BY <2>0, <3>1, <3>2, CountsAfter, SMTT(30) DEF TokensAccounted
  <2>6. ASSUME NEW p \in Procs, Wakeup(p)
        PROVE  TokensAccounted'
    <3>1. CASE wait <= 0
      BY <2>1, <2>6, <3>1 DEF Wakeup
    <3>2. CASE wait > 0
      <4>1. Posting' = Posting \cup {p} /\ p \notin Posting /\ Waiting' = Waiting
        BY <2>6, <3>2 DEF Wakeup
      <4> QED
        BY <2>0, <2>6, <3>2, <4>1, CountsAfter, SMTT(30) DEF TokensAccounted, Wakeup
    <3> QED
      BY <2>0, <3>1, <3>2
  <2>7. ASSUME NEW p \in Procs, SemPost(p) \/ SemPostFails(p)
        PROVE  TokensAccounted'
    <3>1. Posting' = Posting \ {p} /\ p \in Posting /\ Waiting' = Waiting
      BY <2>7 DEF SemPost, SemPostFails
    <3>2. \/ wait' = wait /\ sem' = sem + 1 /\ faults' = faults
          \/ wait' = wait /\ sem' = sem /\ faults' = faults + 1
      BY <2>7 DEF SemPost, SemPostFails, Fault
    <3> QED
      BY <2>0, <3>1, <3>2, CountsAfter, SMTT(30) DEF TokensAccounted
  <2>8. ASSUME NEW w \in Workers, Crash(w)
        PROVE  TokensAccounted'
    <3>1. wait' = wait /\ sem' = sem /\ faults' = faults + 1
      BY <2>8 DEF Crash, Fault
    <3>2. \/ Waiting' = Waiting \ {w} /\ w \in Waiting /\ Posting' = Posting
          \/ Posting' = Posting \ {w} /\ w \in Posting /\ Waiting' = Waiting
          \/ Waiting' = Waiting /\ Posting' = Posting
      BY <2>8 DEF Crash
    <3> QED
      BY <2>0, <3>1, <3>2, CountsAfter, SMTT(30) DEF TokensAccounted
  <2>9. CASE UNCHANGED vars
    BY <2>1, <2>9 DEF vars
  <2> QED
    BY <2>2, <2>3, <2>4, <2>5, <2>6, <2>7, <2>8, <2>9 DEF Next, LockStep, Release
<1> QED
  BY <1>1, <1>2, TypeCorrect, PTL DEF Spec

(* Without the semaphore nobody ever reaches the code that uses it. *)
SemaphoreOnly ==
    \A p \in Procs :
        pc[p] \in {"inc", "retry", "dec", "sleep", "wake", "post"} => Semaphore

(* SemaphoreOnly holds in every state of the lock. *)
LEMMA SemaphoreOnlyCorrect == Spec => []SemaphoreOnly
<1>1. Init => SemaphoreOnly
  BY DEF Init, SemaphoreOnly
<1>2. TypeOK /\ SemaphoreOnly /\ [Next]_vars => SemaphoreOnly'
  <2> SUFFICES ASSUME TypeOK, SemaphoreOnly, [Next]_vars PROVE SemaphoreOnly'
    OBVIOUS
  <2> USE ConstantsAssumption DEF TypeOK, SemaphoreOnly, Procs, Goto
  <2>1. ASSUME NEW w \in Workers,
               \/ Trylock(w) \/ LockCall(w) \/ Unlock(w) \/ LockStep(w)
        PROVE  SemaphoreOnly'
    BY <2>1 DEF Trylock, LockCall, Unlock, LockStep, LockAcquire, LockSpunOut,
                WaitInc, Retry, WaitDec, SemWait
  <2>2. ASSUME NEW w \in Workers,
               SemWaitFails(w) \/ Crash(w) \/ Reap(w) \/ Respawn(w)
        PROVE  SemaphoreOnly'
    BY <2>2 DEF SemWaitFails, Crash, Reap, Respawn
  <2>3. ASSUME NEW p \in Procs, Release(p) \/ SemPostFails(p)
        PROVE  SemaphoreOnly'
    BY <2>3 DEF Release, Wakeup, SemPost, SemPostFails
  <2>4. CASE UNCHANGED vars
    BY <2>4 DEF vars
  <2> QED
    BY <2>1, <2>2, <2>3, <2>4, ZenonT(30) DEF Next
<1> QED
  BY <1>1, <1>2, TypeCorrect, PTL DEF Spec

(* In a run without faults a sleeper on a free lock is always about to be
   woken.  The only step that could forget it is a ngx_shmtx_wakeup() that finds
   wait <= 0; then the books say that the sleeper's token is in the semaphore or
   about to be posted. *)
THEOREM WakeupsNotLost == Spec => []NoLostWakeup
<1>1. Init => NoLostWakeup
  BY ZenonT(30) DEF Init, NoLostWakeup, Procs
<1>2. /\ TypeOK /\ SemaphoreOnly /\ TokensAccounted /\ NoLostWakeup
      /\ [Next]_vars
      => NoLostWakeup'
  <2> SUFFICES ASSUME TypeOK, SemaphoreOnly, TokensAccounted, NoLostWakeup,
                      [Next]_vars,
                      (faults = 0)', (lock = None)', (sem = 0)',
                      NEW s \in Workers, (pc[s] = "sleep")'
               PROVE  \/ \E p \in Procs : pc'[p] \in {"wake", "post"}
                      \/ \E w \in Workers : pc'[w] \in {"lock", "inc", "retry"}
    BY DEF NoLostWakeup
  <2> DEFINE Goal == \/ \E p \in Procs : pc'[p] \in {"wake", "post"}
                     \/ \E w \in Workers : pc'[w] \in {"lock", "inc", "retry"}
  <2>0. /\ Cardinality(Waiting) \in Nat /\ Cardinality(Posting) \in Nat
        /\ wait \in Int /\ sem \in Nat /\ faults \in Nat
    BY Counts, ConstantsAssumption DEF TypeOK
  <2> USE ConstantsAssumption DEF TypeOK, Procs, Goto
  <2>1. ASSUME NEW w \in Workers, Trylock(w) \/ LockAcquire(w)
        PROVE  Goal
    BY <2>1 DEF Trylock, LockAcquire
  <2>2. ASSUME NEW w \in Workers,
               LockCall(w) \/ LockSpunOut(w) \/ WaitInc(w) \/ SemWait(w)
        PROVE  Goal
    BY <2>2 DEF LockCall, LockSpunOut, WaitInc, SemWait
  <2>3. ASSUME NEW w \in Workers, Retry(w)
        PROVE  Goal
    BY <2>3 DEF Retry
  <2>4. ASSUME NEW w \in Workers, WaitDec(w)
        PROVE  Goal
    BY <2>4 DEF WaitDec, NoLostWakeup
  <2>5. ASSUME NEW w \in Workers, Unlock(w)
        PROVE  Goal
    BY <2>5 DEF Unlock, SemaphoreOnly
  <2>6. ASSUME NEW w \in Workers, SemWaitFails(w) \/ Crash(w)
        PROVE  Goal
    BY <2>0, <2>6 DEF SemWaitFails, Crash, Fault
  <2>7. ASSUME NEW w \in Workers, Reap(w)
        PROVE  Goal
    BY <2>7 DEF Reap, SemaphoreOnly, NoLostWakeup
  <2>8. ASSUME NEW w \in Workers, Respawn(w)
        PROVE  Goal
    BY <2>8 DEF Respawn, NoLostWakeup
  <2>9. ASSUME NEW p \in Procs, Wakeup(p)
        PROVE  Goal
    <3>1. CASE wait > 0
      BY <2>9, <3>1 DEF Wakeup
    <3>2. CASE wait <= 0
      <4>1. sem = 0 /\ faults = 0 /\ pc[s] = "sleep" /\ pc[p] = "wake"
        BY <2>9 DEF Wakeup
      <4>2. Cardinality(Waiting) # 0
        BY <4>1, Counts, FS_EmptySet DEF Waiting
      <4>3. Cardinality(Posting) # 0
        BY <2>0, <3>2, <4>1, <4>2 DEF TokensAccounted
      <4>4. Posting # {}
        BY <4>3, FS_EmptySet
      <4>5. PICK q \in Procs : pc[q] = "post"
        BY <4>4 DEF Posting
      <4>6. pc'[q] = "post"
        BY <2>0, <2>9, <3>2, <4>5 DEF Wakeup
      <4> QED
        BY <4>6
    <3> QED
      BY <2>0, <3>1, <3>2
  <2>10. ASSUME NEW p \in Procs, SemPost(p) \/ SemPostFails(p)
         PROVE  Goal
    BY <2>0, <2>10 DEF SemPost, SemPostFails, Fault
  <2>11. CASE UNCHANGED vars
    BY <2>11 DEF vars, NoLostWakeup
  <2> QED
    BY <2>1, <2>2, <2>3, <2>4, <2>5, <2>6, <2>7, <2>8, <2>9, <2>10, <2>11, ZenonT(30)
       DEF Next, LockStep, Release
<1> QED
  BY <1>1, <1>2, TypeCorrect, SemaphoreOnlyCorrect, TokensCorrect, PTL DEF Spec
=============================================================================
