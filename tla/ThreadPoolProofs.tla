-------------------------- MODULE ThreadPoolProofs --------------------------
(***************************************************************************)
(* Proofs about ThreadPool, for any number of threads, tasks and any limit *)
(* of the queue: types, no finished task is overlooked, the bound of the   *)
(* queue, every active task is in one place, and destroy is safe.          *)
(***************************************************************************)
EXTENDS ThreadPool, FiniteSetTheorems, TLAPS

(* What a thread holds, and that the main thread spins only while there   *)
(* are threads to stop: what TypeOK needs to be inductive.                *)
Held ==
    /\ \A t \in Threads :
          /\ tpc[t] = "run" => cur[t] \in AllTasks
          /\ tpc[t] = "push" => cur[t] \in Tasks
    /\ main = "spin" => left > 0

TypeInv == TypeOK /\ Held

(* Every variable keeps its type in every step of the pool, and a thread  *)
(* that runs or has run a task holds one.                                 *)
THEOREM TypeCorrect == Spec => []TypeInv
<1>1. Init => TypeInv
  <2>1. Cardinality(Threads) \in Nat
    BY PoolAssumption, FS_CardinalityType, ZenonT(30)
  <2> QED
    BY <2>1 DEF Init, TypeInv, TypeOK, Held, AllTasks
<1>2. TypeInv /\ [Next]_vars => TypeInv'
  <2> SUFFICES ASSUME TypeInv, [Next]_vars
               PROVE  TypeInv'
    OBVIOUS
  <2> USE DEF TypeInv, TypeOK, Held
  <2>1. ASSUME NEW k \in Tasks, Call(k)
        PROVE  TypeInv'
    <3>1. CASE complete[k] = 1 /\ UNCHANGED <<active, queue, waiting, tpc>>
      BY <2>1, <3>1, PoolAssumption DEF Call, mainVars, AllTasks
    <3>2. CASE Post(k) /\ UNCHANGED complete
      <4>1. tpc' \in [Threads -> {"lock", "wait", "woken", "run", "push", "notify", "exited"}]
        BY <3>2, Zenon DEF Post, Signal
      <4>2. \A t \in Threads : tpc'[t] \in {"run", "push"} => tpc'[t] = tpc[t]
        BY <3>2 DEF Post, Signal
      <4>3. k \in AllTasks
        BY DEF AllTasks
      <4>4. active' \in [AllTasks -> {0, 1}]
        BY <3>2, <4>3 DEF Post
      <4>5. queue' \in Seq(AllTasks)
        BY <3>2, <4>3 DEF Post
      <4>6. waiting' \in Int
        BY <3>2 DEF Post
      <4> QED
        BY <2>1, <3>2, <4>1, <4>2, <4>4, <4>5, <4>6 DEF Call, mainVars
    <3> QED
      BY <2>1, <3>1, <3>2 DEF Call
  <2>2. CASE Collect
    BY <2>2 DEF Collect, threadVars
  <2>3. CASE Drain
    BY <2>3 DEF Drain, threadVars
  <2>4. CASE Complete
    <3>1. Head(batch) \in Tasks /\ Tail(batch) \in Seq(Tasks)
      BY <2>4 DEF Complete
    <3> QED
      BY <2>4, <3>1 DEF Complete, threadVars, AllTasks
  <2>5. CASE ExitWorker
    BY <2>5 DEF ExitWorker, threadVars
  <2>6. CASE PostExit
    <3>1. CASE Post(ExitTask) /\ main' = "spin" /\ lock' = 1
      <4>1. tpc' \in [Threads -> {"lock", "wait", "woken", "run", "push", "notify", "exited"}]
        BY <3>1, Zenon DEF Post, Signal
      <4>2. \A t \in Threads : tpc'[t] \in {"run", "push"} => tpc'[t] = tpc[t]
        BY <3>1 DEF Post, Signal
      <4>3. ExitTask \in AllTasks
        BY DEF AllTasks
      <4>4. active' \in [AllTasks -> {0, 1}]
        BY <3>1, <4>3 DEF Post
      <4>5. queue' \in Seq(AllTasks)
        BY <3>1, <4>3 DEF Post
      <4>6. waiting' \in Int
        BY <3>1 DEF Post
      <4> QED
        BY <2>6, <3>1, <4>1, <4>2, <4>4, <4>5, <4>6 DEF PostExit
    <3>2. CASE main' = "abandoned" /\ lock' = 1 /\ UNCHANGED <<active, queue, waiting, tpc>>
      BY <2>6, <3>2 DEF PostExit
    <3> QED
      BY <2>6, <3>1, <3>2 DEF PostExit
  <2>7. CASE Spun
    BY <2>7 DEF Spun, threadVars, AllTasks
  <2>8. CASE Destroyed
    BY <2>8 DEF Destroyed, threadVars
  <2>9. ASSUME NEW t \in Threads, Take(t)
        PROVE  /\ tpc' = [tpc EXCEPT ![t] = "run"]
               /\ cur' \in [Threads -> AllTasks \union {NoTask}]
               /\ cur'[t] \in AllTasks
               /\ \A u \in Threads \ {t} : cur'[u] = cur[u]
               /\ queue' \in Seq(AllTasks)
    <3>1. Head(queue) \in AllTasks /\ Tail(queue) \in Seq(AllTasks)
      BY <2>9 DEF Take
    <3> QED
      BY <2>9, <3>1 DEF Take
  <2>10. ASSUME NEW t \in Threads, Enter(t)
         PROVE  TypeInv'
    <3>1. /\ waiting' \in Int
          /\ UNCHANGED <<active, complete, done, notified, batch, main, lock, left>>
      BY <2>10 DEF Enter, mainVars
    <3>2. CASE Take(t)
      <4>1. Held'
        BY <2>9, <3>1, <3>2
      <4> QED
        BY <2>9, <3>1, <3>2, <4>1, ZenonT(30)
    <3>3. CASE Sleep(t)
      <4>1. tpc' = [tpc EXCEPT ![t] = "wait"] /\ UNCHANGED <<cur, queue>>
        BY <3>3 DEF Sleep
      <4>2. Held'
        BY <3>1, <4>1
      <4> QED
        BY <3>1, <4>1, <4>2
    <3> QED
      BY <2>10, <3>2, <3>3 DEF Enter
  <2>11. ASSUME NEW t \in Threads, Resume(t)
         PROVE  TypeInv'
    <3>1. /\ waiting' \in Int
          /\ UNCHANGED <<active, complete, done, notified, batch, main, lock, left>>
      BY <2>11 DEF Resume, mainVars
    <3>2. CASE Take(t)
      <4>1. Held'
        BY <2>9, <3>1, <3>2
      <4> QED
        BY <2>9, <3>1, <3>2, <4>1
    <3>3. CASE Sleep(t)
      <4>1. tpc' = [tpc EXCEPT ![t] = "wait"] /\ UNCHANGED <<cur, queue>>
        BY <3>3 DEF Sleep
      <4>2. Held'
        BY <3>1, <4>1
      <4> QED
        BY <3>1, <4>1, <4>2
    <3> QED
      BY <2>11, <3>2, <3>3 DEF Resume
  <2>12. ASSUME NEW t \in Threads, Spurious(t) \/ Run(t) \/ Notify(t)
         PROVE  TypeInv'
    BY ZenonT(30), <2>12 DEF Spurious, Run, Notify, mainVars
  <2>13. ASSUME NEW t \in Threads, ExitHandler(t)
         PROVE  TypeInv'
    BY <2>13 DEF ExitHandler
  <2>14. ASSUME NEW t \in Threads, Push(t)
         PROVE  TypeInv'
    <3>1. cur[t] \in Tasks
      BY <2>14 DEF Push
    <3>2. done' \in Seq(Tasks)
      BY <2>14, <3>1 DEF Push
    <3>3. cur' \in [Threads -> AllTasks \union {NoTask}]
      BY <2>14 DEF Push
    <3>4. Held'
      BY <2>14 DEF Push, mainVars
    <3> QED
      BY <2>14, <3>2, <3>3, <3>4 DEF Push, mainVars
  <2>15. CASE UNCHANGED vars
    BY <2>15 DEF vars, threadVars, mainVars
  <2> QED
    BY <2>1, <2>2, <2>3, <2>4, <2>5, <2>6, <2>7, <2>8, <2>10, <2>11, <2>12,
       <2>13, <2>14, <2>15, ZenonT(30) DEF Next, MainStep, ThreadStep
<1> QED
  BY <1>1, <1>2, PTL DEF Spec

(* A finished task is never overlooked: the thread notifies after it has  *)
(* appended the task, and the main thread takes the whole list after the  *)
(* notification was reported.                                             *)
THEOREM DoneSeenCorrect == Spec => []DoneSeen
<1>1. Init => DoneSeen
  BY DEF Init, DoneSeen
<1>2. TypeInv /\ DoneSeen /\ [Next]_vars => DoneSeen'
  <2> SUFFICES ASSUME TypeInv, DoneSeen, [Next]_vars
               PROVE  DoneSeen'
    OBVIOUS
  <2> USE DEF TypeInv, TypeOK, DoneSeen
  <2>1. ASSUME NEW k \in Tasks, Call(k)
        PROVE  DoneSeen'
    <3>1. \A t \in Threads : tpc[t] = "notify" => tpc'[t] = "notify"
      BY <2>1 DEF Call, Post, Signal
    <3> QED
      BY <2>1, <3>1 DEF Call, mainVars
  <2>2. CASE Collect \/ Drain \/ Complete
    BY <2>2 DEF Collect, Drain, Complete, threadVars
  <2>3. CASE ExitWorker \/ Spun \/ Destroyed
    BY <2>3 DEF ExitWorker, Spun, Destroyed, threadVars
  <2>4. CASE PostExit
    <3>1. \A t \in Threads : tpc[t] = "notify" => tpc'[t] = "notify"
      BY <2>4 DEF PostExit, Post, Signal
    <3> QED
      BY <2>4, <3>1 DEF PostExit
  <2>5. ASSUME NEW t \in Threads, Enter(t) \/ Resume(t)
        PROVE  DoneSeen'
    <3>1. \A u \in Threads : tpc[u] = "notify" => tpc'[u] = "notify"
      BY <2>5 DEF Enter, Resume, Take, Sleep
    <3> QED
      BY <2>5, <3>1 DEF Enter, Resume, mainVars
  <2>6. ASSUME NEW t \in Threads, Spurious(t) \/ Run(t) \/ ExitHandler(t)
        PROVE  DoneSeen'
    BY <2>6 DEF Spurious, Run, ExitHandler, mainVars
  <2>7. ASSUME NEW t \in Threads, Push(t) \/ Notify(t)
        PROVE  DoneSeen'
    BY <2>7 DEF Push, Notify, mainVars
  <2>8. CASE UNCHANGED vars
    BY <2>8 DEF vars, threadVars, mainVars
  <2> QED
    BY <2>1, <2>2, <2>3, <2>4, <2>5, <2>6, <2>7, <2>8 DEF Next, MainStep, ThreadStep
<1> QED
  BY <1>1, <1>2, TypeCorrect, PTL DEF Spec

-----------------------------------------------------------------------------
(* tp->waiting is exact: tasks in the queue less the threads that have    *)
(* been counted but have not got a task.                                  *)
WaitingExact ==
    /\ waiting = Len(queue) - Cardinality(Sleepers)
    /\ waiting <= MaxQueue

(* A thread that starts or stops waiting for a task changes the number of *)
(* such threads, which tp->waiting counts, by one.                        *)
LEMMA SleepersCount ==
  ASSUME NEW S \in SUBSET Threads, NEW t \in Threads
  PROVE  /\ Cardinality(S) \in Nat
         /\ t \notin S => Cardinality(S \union {t}) = Cardinality(S) + 1
         /\ t \in S => Cardinality(S \ {t}) = Cardinality(S) - 1
<1>1. IsFiniteSet(S)
  BY PoolAssumption, FS_Subset
<1> QED
  BY <1>1, FS_CardinalityType, FS_AddElement, FS_RemoveElement

(* The queue is bounded by max_queue and the number of threads that wait, *)
(* however posts, wakeups and threads interleave.                         *)
THEOREM QueueBoundedCorrect == Spec => []QueueBounded
<1>1. Init => WaitingExact
  <2> SUFFICES ASSUME Init
               PROVE  WaitingExact
    OBVIOUS
  <2>1. Sleepers = {}
    BY DEF Init, Sleepers
  <2>2. Cardinality({}) = 0
    BY FS_EmptySet
  <2> QED
    BY <2>1, <2>2, PoolAssumption DEF Init, WaitingExact
<1>2. TypeInv /\ WaitingExact /\ [Next]_vars => WaitingExact'
  <2> SUFFICES ASSUME TypeInv, WaitingExact, [Next]_vars
               PROVE  WaitingExact'
    OBVIOUS
  <2> USE PoolAssumption DEF TypeInv, TypeOK
  <2>0. Sleepers \in SUBSET Threads /\ Cardinality(Sleepers) \in Nat
    BY SleepersCount, Zenon DEF Sleepers
  <2>1. ASSUME NEW k \in AllTasks, Post(k)
        PROVE  WaitingExact'
    <3>1. Sleepers' = Sleepers
      BY <2>1 DEF Post, Signal, Sleepers
    <3>2. Len(queue') = Len(queue) + 1
      BY <2>1 DEF Post
    <3>3. waiting' = waiting + 1 /\ waiting < MaxQueue
      BY <2>1 DEF Post
    <3>4. Len(queue) \in Nat
      OBVIOUS
    <3> QED
      BY <2>0, <3>1, <3>2, <3>3, <3>4, SMTT(30) DEF WaitingExact
  <2>2. ASSUME UNCHANGED <<queue, waiting>>, Sleepers' = Sleepers
        PROVE  WaitingExact'
    BY <2>2 DEF WaitingExact
  <2>3. ASSUME NEW k \in Tasks, Call(k)
        PROVE  WaitingExact'
    BY <2>1, <2>2, <2>3 DEF Call, Sleepers, AllTasks
  <2>4. CASE PostExit
    BY <2>1, <2>2, <2>4, ZenonT(30) DEF PostExit, Sleepers, AllTasks
  <2>5. CASE Collect \/ Drain \/ Complete \/ ExitWorker \/ Spun \/ Destroyed
    BY <2>2, <2>5 DEF Collect, Drain, Complete, ExitWorker, Spun, Destroyed,
                      Sleepers, threadVars
  <2>6. ASSUME NEW t \in Threads, Take(t)
        PROVE  Len(queue') = Len(queue) - 1 /\ Sleepers' = Sleepers \ {t}
    <3>1. Len(queue') = Len(queue) - 1
      BY <2>6 DEF Take
    <3>2. Sleepers' = Sleepers \ {t}
      BY <2>6 DEF Take, Sleepers
    <3> QED
      BY <3>1, <3>2
  <2>7. ASSUME NEW t \in Threads, Sleep(t)
        PROVE  queue' = queue /\ Sleepers' = Sleepers \union {t}
    BY <2>7 DEF Sleep, Sleepers
  <2>8. ASSUME NEW t \in Threads, Enter(t)
        PROVE  WaitingExact'
    <3>1. t \notin Sleepers /\ waiting' = waiting - 1
      BY <2>8 DEF Enter, Sleepers
    <3>2. CASE Take(t)
      <4>0. Sleepers' = Sleepers \ {t}
        BY <2>6, <3>2
      <4>1. Sleepers' = Sleepers
        BY <3>1, <4>0, Zenon
      <4>2. Len(queue') = Len(queue) - 1 /\ Len(queue) \in Nat
        BY <2>6, <3>2
      <4> HIDE DEF TypeInv, TypeOK
      <4> QED
        BY <2>0, <3>1, <4>1, <4>2 DEF WaitingExact
    <3>3. CASE Sleep(t)
      <4>1. Cardinality(Sleepers') = Cardinality(Sleepers) + 1
        BY <2>0, <2>7, <3>1, <3>3, SleepersCount
      <4> QED
        BY <2>0, <2>7, <3>1, <3>3, <4>1, SMTT(30) DEF WaitingExact
    <3> QED
      BY <2>8, <3>2, <3>3 DEF Enter
  <2>9. ASSUME NEW t \in Threads, Resume(t)
        PROVE  WaitingExact'
    <3>1. t \in Sleepers /\ waiting' = waiting
      BY <2>9 DEF Resume, Sleepers
    <3>2. CASE Take(t)
      <4>1. Cardinality(Sleepers') = Cardinality(Sleepers) - 1
        BY <2>0, <2>6, <3>1, <3>2, SleepersCount, Zenon
      <4>2. Len(queue') = Len(queue) - 1 /\ Len(queue) \in Nat
        BY <2>6, <3>2
      <4> HIDE DEF TypeInv, TypeOK
      <4> QED
        BY <2>0, <3>1, <4>1, <4>2 DEF WaitingExact
    <3>3. CASE Sleep(t)
      <4>1. Sleepers' = Sleepers
        BY <2>7, <3>1, <3>3, Zenon
      <4> QED
        BY <2>7, <3>1, <3>3, <4>1 DEF WaitingExact
    <3> QED
      BY <2>9, <3>2, <3>3 DEF Resume
  <2>10. ASSUME NEW t \in Threads,
                Spurious(t) \/ Run(t) \/ ExitHandler(t) \/ Push(t) \/ Notify(t)
         PROVE  WaitingExact'
    <3>1. Sleepers' = Sleepers
      BY <2>10 DEF Spurious, Run, ExitHandler, Push, Notify, Sleepers
    <3>2. UNCHANGED <<queue, waiting>>
      BY <2>10 DEF Spurious, Run, ExitHandler, Push, Notify
    <3> QED
      BY <2>2, <3>1, <3>2
  <2>11. CASE UNCHANGED vars
    BY <2>2, <2>11 DEF vars, threadVars, Sleepers
  <2> QED
    BY <2>3, <2>4, <2>5, <2>8, <2>9, <2>10, <2>11 DEF Next, MainStep, ThreadStep
<1>3. TypeInv /\ WaitingExact => QueueBounded
  <2> SUFFICES ASSUME TypeInv, WaitingExact
               PROVE  QueueBounded
    OBVIOUS
  <2>1. Sleepers \in SUBSET Threads /\ Cardinality(Sleepers) \in Nat
    BY SleepersCount, PoolAssumption, Zenon DEF Sleepers
  <2>2. Len(queue) \in Nat
    BY DEF TypeInv, TypeOK
  <2> QED
    BY <2>1, <2>2, PoolAssumption DEF WaitingExact, QueueBounded
<1> QED
  BY <1>1, <1>2, <1>3, TypeCorrect, PTL DEF Spec

-----------------------------------------------------------------------------
(* Where tasks are.  A list has a task at most once, and no two of the     *)
(* queue, the threads and the lists of finished tasks have one in common.  *)
In(s) == {s[i] : i \in DOMAIN s}

Once(s) == \A i, j \in DOMAIN s : s[i] = s[j] => i = j

Running == {cur[t] : t \in Threads} \ {NoTask}

Alone == \A t, u \in Threads : cur[t] = cur[u] => t = u \/ cur[t] = NoTask

Apart(q, r, d, b) ==
    /\ q \intersect r = {}
    /\ (q \union r) \intersect (d \union b) = {}
    /\ d \intersect b = {}

Located(q, r, d, b, a) ==
    \A k \in Tasks : a[k] = 1 <=> k \in q \union r \union d \union b

TaskInv ==
    /\ Once(queue) /\ Once(done) /\ Once(batch) /\ Alone
    /\ Apart(In(queue), Running, In(done), In(batch))
    /\ Located(In(queue), Running, In(done), In(batch), active)
    /\ \A t \in Threads : tpc[t] \in {"run", "push"} <=> cur[t] # NoTask
    /\ main = "drain" => batch = << >>

(* The exit task is somewhere only while the main thread spins on its      *)
(* flag, and a thread is gone for each one that was run.                   *)
Exited == {t \in Threads : tpc[t] = "exited"}

ExitInv ==
    /\ ExitTask \in In(queue) \union Running <=> main = "spin" /\ lock = 1
    /\ Cardinality(Exited) + left =
          IF main = "spin" /\ lock = 0 THEN Cardinality(Threads) + 1 ELSE Cardinality(Threads)
    /\ main = "destroyed" => left = 0

(* A task appended to a list is in it once if it was not there before.     *)
LEMMA AppendOnce ==
  ASSUME NEW S, NEW s \in Seq(S), NEW x \in S
  PROVE  /\ In(Append(s, x)) = In(s) \union {x}
         /\ Once(s) /\ x \notin In(s) => Once(Append(s, x))
<1>1. DOMAIN Append(s, x) = 1..(Len(s) + 1) /\ DOMAIN s = 1..Len(s) /\ Len(s) \in Nat
  OBVIOUS
<1>2. Append(s, x)[Len(s) + 1] = x
  BY <1>1
<1>3. \A i \in 1..Len(s) : Append(s, x)[i] = s[i]
  BY <1>1
<1>4. In(Append(s, x)) = In(s) \union {x}
  <2>1. In(Append(s, x)) \subseteq In(s) \union {x}
    BY <1>1, <1>2, <1>3 DEF In
  <2>2. In(s) \subseteq In(Append(s, x))
    BY <1>1, <1>3 DEF In
  <2>3. x \in In(Append(s, x))
    BY <1>1, <1>2 DEF In
  <2> QED
    BY <2>1, <2>2, <2>3
<1>5. ASSUME Once(s), x \notin In(s)
      PROVE  Once(Append(s, x))
  BY <1>1, <1>2, <1>3, <1>5 DEF Once, In
<1> QED
  BY <1>4, <1>5

(* The first task of a list is taken off.                                  *)
LEMMA TailOnce ==
  ASSUME NEW S, NEW s \in Seq(S), s # << >>, Once(s)
  PROVE  /\ Head(s) \in In(s)
         /\ In(Tail(s)) = In(s) \ {Head(s)}
         /\ Once(Tail(s))
<1>1. /\ DOMAIN s = 1..Len(s) /\ Len(s) \in Nat /\ Len(s) >= 1
      /\ DOMAIN Tail(s) = 1..(Len(s) - 1)
      /\ Head(s) = s[1]
  OBVIOUS
<1>2. \A i \in 1..(Len(s) - 1) : Tail(s)[i] = s[i + 1]
  OBVIOUS
<1>3. Head(s) \in In(s)
  BY <1>1 DEF In
<1>4. In(Tail(s)) = In(s) \ {Head(s)}
  <2>1. In(Tail(s)) \subseteq In(s) \ {Head(s)}
    BY <1>1, <1>2 DEF In, Once
  <2>2. ASSUME NEW x \in In(s), x # Head(s)
        PROVE  x \in In(Tail(s))
    <3>1. PICK i \in 1..Len(s) : s[i] = x
      BY <1>1 DEF In
    <3>2. i # 1 /\ i - 1 \in 1..(Len(s) - 1) /\ Tail(s)[i - 1] = x
      BY <1>1, <1>2, <2>2, <3>1
    <3> QED
      BY <1>1, <3>2, Zenon DEF In
  <2> QED
    BY <2>1, <2>2
<1>5. Once(Tail(s))
  BY <1>1, <1>2 DEF Once
<1> QED
  BY <1>3, <1>4, <1>5

(* A thread that holds nothing takes a task that no thread holds.          *)
LEMMA RunningTakes ==
  ASSUME NEW t \in Threads, NEW x \in AllTasks, x \notin Running,
         cur \in [Threads -> AllTasks \union {NoTask}], cur[t] = NoTask, Alone,
         cur' = [cur EXCEPT ![t] = x]
  PROVE  Running' = Running \union {x} /\ Alone'
<1>1. cur'[t] = x /\ \A u \in Threads : u # t => cur'[u] = cur[u]
  OBVIOUS
<1>2. x # NoTask
  BY PoolAssumption DEF AllTasks
<1>3. \A u \in Threads : cur[u] # x
  BY <1>2 DEF Running
<1>4. Running' = Running \union {x}
  BY <1>1, <1>2 DEF Running
<1>5. Alone'
  BY <1>1, <1>2, <1>3 DEF Alone
<1> QED
  BY <1>4, <1>5

(* A thread drops the task it held, which no other thread holds.           *)
LEMMA RunningDrops ==
  ASSUME NEW t \in Threads, Alone, cur[t] # NoTask,
         cur \in [Threads -> AllTasks \union {NoTask}],
         cur' = [cur EXCEPT ![t] = NoTask]
  PROVE  cur[t] \in Running /\ Running' = Running \ {cur[t]} /\ Alone'
<1>1. cur'[t] = NoTask /\ \A u \in Threads : u # t => cur'[u] = cur[u]
  OBVIOUS
<1>2. Running' = Running \ {cur[t]}
  BY <1>1 DEF Running, Alone
<1>3. Alone'
  BY <1>1 DEF Alone
<1> QED
  BY <1>2, <1>3 DEF Running

(* Every step moves a task from one place to the next: the places stay     *)
(* apart, and task->event.active says whether the task is in one of them.  *)
LEMMA TaskStep ==
  ASSUME TypeInv, TaskInv, ExitInv, [Next]_vars
  PROVE  TaskInv'
<1> USE DEF TypeInv, TypeOK
<1> DEFINE q == In(queue)
           d == In(done)
           b == In(batch)
<1>1. /\ Once(queue) /\ Once(done) /\ Once(batch) /\ Alone
      /\ Apart(q, Running, d, b)
      /\ Located(q, Running, d, b, active)
      /\ \A t \in Threads : tpc[t] \in {"run", "push"} <=> cur[t] # NoTask
      /\ main = "drain" => batch = << >>
  BY DEF TaskInv
<1>2. d \subseteq Tasks /\ b \subseteq Tasks
  BY DEF In
<1>3. ASSUME NEW k \in AllTasks, Post(k), k \notin q \union Running \union d \union b,
             UNCHANGED <<cur, done, batch>>, main' # "drain"
      PROVE  TaskInv'
  <2>1. queue' = Append(queue, k) /\ active' = [active EXCEPT ![k] = 1]
    BY ZenonT(30), <1>3 DEF Post
  <2>2. In(queue') = q \union {k} /\ Once(queue')
    BY <1>1, <1>3, <2>1, AppendOnce
  <2>3. Running' = Running /\ Alone' /\ Once(done') /\ Once(batch')
    BY <1>1, <1>3 DEF Running, Alone
  <2>4. \A t \in Threads : tpc'[t] \in {"run", "push"} <=> cur'[t] # NoTask
    BY ZenonT(30), <1>1, <1>3 DEF Post, Signal
  <2>5. Apart(q \union {k}, Running, d, b)
    BY <1>1, <1>3 DEF Apart
  <2>6. Located(q \union {k}, Running, d, b, active')
    BY <1>1, <1>3, <2>1 DEF Located
  <2> QED
    BY <1>3, <2>2, <2>3, <2>4, <2>5, <2>6 DEF TaskInv
<1>4. ASSUME NEW k \in Tasks, Call(k)
      PROVE  TaskInv'
  <2>1. main' # "drain" /\ UNCHANGED <<cur, done, batch>>
    BY ZenonT(30), <1>4 DEF Call, mainVars
  <2>2. CASE UNCHANGED <<active, queue, waiting, tpc>>
    BY <1>1, <2>1, <2>2 DEF TaskInv, Running, Alone, Located
  <2>3. CASE Post(k)
    <3>1. k \in AllTasks /\ k \notin q \union Running \union d \union b
      BY <1>1, <2>3 DEF Post, Located, AllTasks
    <3> QED
      BY <1>3, <2>1, <2>3, <3>1
  <2> QED
    BY <1>4, <2>2, <2>3 DEF Call
<1>5. CASE PostExit
  <2>1. main' # "drain" /\ UNCHANGED <<cur, done, batch>>
    BY <1>5, ZenonT(30) DEF PostExit
  <2>2. CASE UNCHANGED <<active, queue, waiting, tpc>>
    BY <1>1, <2>1, <2>2 DEF TaskInv, Running, Alone, Located
  <2>3. CASE Post(ExitTask)
    <3>1. ExitTask \in AllTasks /\ ExitTask \notin Tasks
      BY PoolAssumption DEF AllTasks
    <3>2. ExitTask \notin q \union Running
      BY ZenonT(30), <1>5 DEF PostExit, ExitInv
    <3> QED
      BY <1>2, <1>3, <2>1, <2>3, <3>1, <3>2
  <2> QED
    BY <1>5, <2>2, <2>3 DEF PostExit
<1>6. CASE Collect \/ ExitWorker \/ Destroyed
  <2>1. UNCHANGED <<active, queue, tpc, cur, done, batch>> /\ (main' = "drain" => batch' = << >>)
    BY ZenonT(30), <1>6 DEF Collect, ExitWorker, Destroyed, threadVars
  <2> QED
    BY <1>1, <2>1 DEF TaskInv, Running, Alone, Located
<1>7. CASE Spun
  <2>1. /\ UNCHANGED <<queue, tpc, cur, done, batch>> /\ main' # "drain"
        /\ active' = [active EXCEPT ![ExitTask] = 0]
    BY <1>7 DEF Spun, threadVars
  <2>2. \A k \in Tasks : active'[k] = active[k]
    BY <2>1, PoolAssumption DEF AllTasks
  <2> QED
    BY <1>1, <2>1, <2>2 DEF TaskInv, Running, Alone, Located
<1>8. CASE Drain
  <2>1. /\ UNCHANGED <<active, queue, tpc, cur>> /\ main' # "drain"
        /\ batch = << >> /\ batch' = done /\ done' = << >>
    BY <1>1, <1>8 DEF Drain, threadVars
  <2>2. In(<< >>) = {} /\ Once(<< >>)
    BY DEF In, Once
  <2>3. Running' = Running /\ Alone'
    BY <1>1, <2>1 DEF Running, Alone
  <2>4. b = {}
    BY <2>1, <2>2
  <2>5. Apart(q, Running, {}, d) /\ Located(q, Running, {}, d, active)
    BY <1>1, <2>4 DEF Apart, Located
  <2> QED
    BY <1>1, <2>1, <2>2, <2>3, <2>5, Zenon DEF TaskInv
<1>9. CASE Complete
  <2> DEFINE k == Head(batch)
  <2>1. /\ batch # << >> /\ batch' = Tail(batch) /\ main' # "drain"
        /\ active' = [active EXCEPT ![k] = 0]
        /\ UNCHANGED <<queue, tpc, cur, done>>
    BY <1>9 DEF Complete, threadVars
  <2>2. k \in b /\ In(batch') = b \ {k} /\ Once(batch')
    BY <1>1, <2>1, TailOnce, ZenonT(30)
  <2>3. Running' = Running /\ Alone'
    BY <1>1, <2>1 DEF Running, Alone
  <2>4. Apart(q, Running, d, b \ {k})
    BY <1>1 DEF Apart
  <2>5. k \in Tasks /\ k \notin q \union Running \union d
    BY <1>1, <1>2, <2>2 DEF Apart
  <2> HIDE DEF k, q, d, b
  <2>6. Located(q, Running, d, b \ {k}, active')
    BY SMTT(30), <1>1, <2>1, <2>2, <2>5 DEF Located, AllTasks
  <2> QED
    BY <1>1, <2>1, <2>2, <2>3, <2>4, <2>6, Zenon DEF TaskInv, q, d, b
<1>10. ASSUME NEW t \in Threads, tpc[t] \in {"lock", "woken"}, Take(t),
              UNCHANGED <<active, done, batch, main>>
       PROVE  TaskInv'
  <2> DEFINE k == Head(queue)
  <2>1. /\ queue # << >> /\ queue' = Tail(queue)
        /\ cur' = [cur EXCEPT ![t] = k] /\ tpc' = [tpc EXCEPT ![t] = "run"]
    BY <1>10, ZenonT(30) DEF Take
  <2>2. k \in q /\ In(queue') = q \ {k} /\ Once(queue')
    BY <1>1, <2>1, TailOnce
  <2>3. k \in AllTasks
    BY <2>1
  <2>4. k \notin Running /\ k \notin d \union b
    BY <1>1, <2>2 DEF Apart
  <2>5. cur[t] = NoTask
    BY <1>1, <1>10
  <2> HIDE DEF k, q, d, b
  <2>6. Running' = Running \union {k} /\ Alone'
    BY <1>1, <2>1, <2>3, <2>4, <2>5, RunningTakes, Zenon
  <2>7. Apart(q \ {k}, Running \union {k}, d, b)
    BY <1>1, <2>4 DEF Apart
  <2>8. Located(q \ {k}, Running \union {k}, d, b, active)
    BY <1>1, <2>2 DEF Located
  <2>9. \A u \in Threads : tpc'[u] \in {"run", "push"} <=> cur'[u] # NoTask
    <3>1. k # NoTask
      BY ZenonT(30), <2>3, PoolAssumption DEF AllTasks
    <3> QED
      BY <1>1, <2>1, <3>1
  <2> QED
    BY <1>1, <1>10, <2>2, <2>6, <2>7, <2>8, <2>9, ZenonT(30) DEF TaskInv, q, d, b
<1>11. ASSUME NEW t \in Threads, tpc[t] \in {"lock", "woken"}, Sleep(t),
              UNCHANGED <<active, done, batch, main>>
       PROVE  TaskInv'
  <2>1. tpc' = [tpc EXCEPT ![t] = "wait"] /\ UNCHANGED <<cur, queue>>
    BY <1>11 DEF Sleep
  <2>2. \A u \in Threads : tpc'[u] \in {"run", "push"} <=> tpc[u] \in {"run", "push"}
    BY <1>11, <2>1
  <2> QED
    BY <1>1, <1>11, <2>1, <2>2 DEF TaskInv, Running, Alone, Located
<1>12. ASSUME NEW t \in Threads, Enter(t) \/ Resume(t)
       PROVE  TaskInv'
  BY ZenonT(30), <1>10, <1>11, <1>12 DEF Enter, Resume, mainVars
<1>13. ASSUME NEW t \in Threads, Spurious(t) \/ Run(t) \/ Notify(t)
       PROVE  TaskInv'
  <2>1. UNCHANGED <<active, queue, cur, done, batch, main>>
    BY <1>13 DEF Spurious, Run, Notify, mainVars
  <2>2. \A u \in Threads : tpc'[u] \in {"run", "push"} <=> tpc[u] \in {"run", "push"}
    BY SMTT(30), <1>13 DEF Spurious, Run, Notify
  <2> QED
    BY <1>1, <2>1, <2>2 DEF TaskInv, Running, Alone, Located
<1>14. ASSUME NEW t \in Threads, ExitHandler(t)
       PROVE  TaskInv'
  <2>1. /\ tpc[t] = "run" /\ cur[t] = ExitTask
        /\ tpc' = [tpc EXCEPT ![t] = "exited"] /\ cur' = [cur EXCEPT ![t] = NoTask]
        /\ UNCHANGED <<active, queue, done, batch, main>>
    BY <1>14 DEF ExitHandler
  <2>2. ExitTask # NoTask /\ ExitTask \notin Tasks
    BY PoolAssumption
  <2>3. Running' = Running \ {ExitTask} /\ Alone'
    BY <1>1, <2>1, <2>2, RunningDrops, Zenon
  <2>4. Apart(q, Running', d, b) /\ Located(q, Running', d, b, active)
    BY <1>1, <2>2, <2>3, ZenonT(30) DEF Apart, Located
  <2>5. \A u \in Threads : tpc'[u] \in {"run", "push"} <=> cur'[u] # NoTask
    BY ZenonT(30), <1>1, <2>1
  <2> QED
    BY <1>1, <2>1, <2>3, <2>4, <2>5, ZenonT(30) DEF TaskInv
<1>15. ASSUME NEW t \in Threads, Push(t)
       PROVE  TaskInv'
  <2> DEFINE k == cur[t]
  <2>1. /\ tpc[t] = "push" /\ done' = Append(done, k)
        /\ tpc' = [tpc EXCEPT ![t] = "notify"] /\ cur' = [cur EXCEPT ![t] = NoTask]
        /\ UNCHANGED <<active, queue, batch, main>>
    BY <1>15, ZenonT(30) DEF Push, mainVars
  <2>2. k \in Tasks /\ k # NoTask
    BY <2>1, PoolAssumption DEF Held
  <2>3. k \in Running /\ Running' = Running \ {k} /\ Alone'
    BY <1>1, <2>1, <2>2, RunningDrops, Zenon
  <2>4. k \notin q \union d \union b
    BY <1>1, <2>3, ZenonT(30) DEF Apart
  <2>5. \A u \in Threads : tpc'[u] \in {"run", "push"} <=> cur'[u] # NoTask
    BY ZenonT(30), <1>1, <2>1
  <2> HIDE DEF k, q, d, b
  <2>6. In(done') = d \union {k} /\ Once(done')
    BY <1>1, <2>1, <2>2, <2>4, AppendOnce DEF d
  <2>7. Apart(q, Running \ {k}, d \union {k}, b)
    BY <1>1, <2>4 DEF Apart
  <2>8. Located(q, Running \ {k}, d \union {k}, b, active)
    BY SMTT(30), <1>1, <2>3 DEF Located
  <2> QED
    BY <1>1, <2>1, <2>3, <2>5, <2>6, <2>7, <2>8, ZenonT(30) DEF TaskInv, q, d, b
<1>16. CASE UNCHANGED vars
  BY <1>1, <1>16 DEF TaskInv, vars, threadVars, mainVars, Running, Alone, Located
<1> QED
  BY <1>4, <1>5, <1>6, <1>7, <1>8, <1>9, <1>12, <1>13, <1>14, <1>15, <1>16, ZenonT(30)
     DEF Next, MainStep, ThreadStep

(* Threads that are gone are counted by destroy, one for each exit task.   *)
LEMMA ExitStep ==
  ASSUME TypeInv, TaskInv, ExitInv, [Next]_vars
  PROVE  ExitInv'
<1> USE DEF TypeInv, TypeOK
<1> DEFINE Out == ExitTask \in In(queue) \union Running
           n == Cardinality(Exited)
           N == Cardinality(Threads)
<1>1. /\ Out <=> main = "spin" /\ lock = 1
      /\ n + left = IF main = "spin" /\ lock = 0 THEN N + 1 ELSE N
      /\ main = "destroyed" => left = 0
  BY DEF ExitInv
<1>2. Exited \in SUBSET Threads /\ n \in Nat /\ N \in Nat
  BY SleepersCount, PoolAssumption, FS_CardinalityType, Zenon DEF Exited
<1>3. ASSUME UNCHANGED <<lock, left>>, Exited' = Exited, Out' <=> Out,
             main \in {"loop", "drain", "destroy", "destroyed", "abandoned"},
             main' \in {"loop", "drain", "destroy", "abandoned"}
      PROVE  ExitInv'
  BY <1>1, <1>3, ZenonT(30) DEF ExitInv
<1>4. ASSUME UNCHANGED <<lock, left, main>>, Exited' = Exited, Out' <=> Out
      PROVE  ExitInv'
  BY <1>1, <1>4, ZenonT(30) DEF ExitInv
<1>5. ASSUME NEW k \in Tasks, Call(k)
      PROVE  ExitInv'
  <2>1. UNCHANGED <<lock, left, main, cur>>
    BY <1>5 DEF Call, mainVars
  <2>2. Exited' = Exited
    BY <1>5 DEF Call, Post, Signal, Exited
  <2>3. Out' <=> Out
    <3>1. Running' = Running
      BY <2>1, ZenonT(30) DEF Running
    <3>2. queue' = queue \/ queue' = Append(queue, k)
      BY <1>5, ZenonT(30) DEF Call, Post
    <3>3. k # ExitTask /\ k \in AllTasks
      BY PoolAssumption DEF AllTasks
    <3>4. In(queue') = In(queue) \/ In(queue') = In(queue) \union {k}
      <4>1. queue \in Seq(AllTasks)
        BY ZenonT(30)
      <4>2. In(Append(queue, k)) = In(queue) \union {k}
        BY <3>3, <4>1, AppendOnce
      <4> QED
        BY <3>2, <4>2, ZenonT(30)
    <3> QED
      BY <3>1, <3>3, <3>4, ZenonT(30)
  <2> QED
    BY <1>4, <2>1, <2>2, <2>3, ZenonT(30)
<1>6. CASE Collect \/ Drain \/ Complete
  <2>1. UNCHANGED <<queue, cur, tpc, lock, left>> /\ main \in {"loop", "drain"}
        /\ main' \in {"loop", "drain"}
    BY <1>6, ZenonT(30) DEF Collect, Drain, Complete, threadVars
  <2> QED
    BY <1>3, <2>1, ZenonT(30) DEF Running, Exited
<1>7. CASE ExitWorker
  <2>1. UNCHANGED <<queue, cur, tpc, lock, left>> /\ main = "loop" /\ main' = "destroy"
    BY <1>7, ZenonT(30) DEF ExitWorker, threadVars
  <2> QED
    BY <1>3, <2>1 DEF Running, Exited
<1>8. CASE Destroyed
  <2>1. UNCHANGED <<queue, cur, tpc, lock, left>> /\ main = "destroy" /\ main' = "destroyed"
        /\ left = 0
    BY <1>8, ZenonT(30) DEF Destroyed, threadVars
  <2>2. Exited' = Exited /\ (Out' <=> Out)
    BY <2>1, ZenonT(30) DEF Running, Exited
  <2> QED
    BY <1>1, <2>1, <2>2 DEF ExitInv
<1>9. CASE PostExit
  <2>1. main = "destroy" /\ left' = left /\ cur' = cur
    BY <1>9, ZenonT(30) DEF PostExit
  <2>2. Exited' = Exited
    BY <1>9 DEF PostExit, Post, Signal, Exited
  <2>3. Running' = Running
    BY <2>1, ZenonT(30) DEF Running
  <2>4. CASE Post(ExitTask) /\ main' = "spin" /\ lock' = 1
    <3>1. ExitTask \in AllTasks /\ queue' = Append(queue, ExitTask)
      BY <2>4 DEF AllTasks, Post
    <3>2. Out'
      BY <3>1, AppendOnce
    <3> QED
      BY <1>1, <2>1, <2>2, <2>4, <3>2 DEF ExitInv
  <2>5. CASE main' = "abandoned" /\ lock' = 1 /\ UNCHANGED <<active, queue, waiting, tpc>>
    BY <1>1, <2>1, <2>2, <2>3, <2>5, ZenonT(30) DEF ExitInv
  <2> QED
    BY <1>9, <2>4, <2>5, ZenonT(30) DEF PostExit
<1>10. CASE Spun
  <2>1. /\ UNCHANGED <<queue, cur, tpc, lock>> /\ main = "spin" /\ main' = "destroy"
        /\ lock = 0 /\ left' = left - 1
    BY <1>10, ZenonT(30) DEF Spun, threadVars
  <2>2. Exited' = Exited /\ (Out' <=> Out)
    BY <2>1 DEF Running, Exited
  <2> HIDE DEF Out, n, N
  <2>3. n + left' = N
    BY <1>1, <1>2, <2>1
  <2> QED
    BY <1>1, <2>1, <2>2, <2>3 DEF ExitInv, Out, n, N
<1>11. ASSUME NEW t \in Threads, Take(t), tpc[t] # "exited", cur[t] = NoTask
       PROVE  Exited' = Exited /\ (Out' <=> Out)
  <2> DEFINE k == Head(queue)
  <2>1. /\ queue # << >> /\ queue' = Tail(queue)
        /\ cur' = [cur EXCEPT ![t] = k] /\ tpc' = [tpc EXCEPT ![t] = "run"]
    BY <1>11, ZenonT(30) DEF Take
  <2>2. Once(queue) /\ Alone /\ Apart(In(queue), Running, In(done), In(batch))
    BY DEF TaskInv
  <2>3. k \in In(queue) /\ In(queue') = In(queue) \ {k}
    BY <2>1, <2>2, TailOnce, ZenonT(30)
  <2>4. k \in AllTasks
    BY <2>1
  <2>5. k \notin Running
    BY <2>2, <2>3 DEF Apart
  <2> HIDE DEF k
  <2>6. Running' = Running \union {k}
    BY <1>11, <2>1, <2>2, <2>4, <2>5, RunningTakes, Zenon
  <2>7. Exited' = Exited
    BY <1>11, <2>1 DEF Exited
  <2> QED
    BY <2>3, <2>6, <2>7, ZenonT(30)
<1>12. ASSUME NEW t \in Threads, Enter(t) \/ Resume(t)
       PROVE  ExitInv'
  <2>1. UNCHANGED <<lock, left, main>> /\ tpc[t] \in {"lock", "woken"}
    BY <1>12 DEF Enter, Resume, mainVars
  <2>2. cur[t] = NoTask
    BY ZenonT(30), <2>1 DEF TaskInv
  <2>3. CASE Take(t)
    BY <1>4, <1>11, <2>1, <2>2, <2>3
  <2>4. CASE Sleep(t)
    <3>1. tpc' = [tpc EXCEPT ![t] = "wait"] /\ UNCHANGED <<cur, queue>>
      BY ZenonT(30), <2>4 DEF Sleep
    <3>2. Exited' = Exited /\ (Out' <=> Out)
      BY SMTT(30), <2>1, <3>1 DEF Exited, Running
    <3> QED
      BY <1>4, <2>1, <3>2
  <2> QED
    BY <1>12, <2>3, <2>4, ZenonT(30) DEF Enter, Resume
<1>13. ASSUME NEW t \in Threads, Spurious(t) \/ Run(t) \/ Notify(t)
       PROVE  ExitInv'
  <2>1. UNCHANGED <<queue, cur, lock, left, main>>
    BY <1>13 DEF Spurious, Run, Notify, mainVars
  <2>2. Exited' = Exited
    BY <1>13 DEF Spurious, Run, Notify, Exited
  <2> QED
    BY <1>4, <2>1, <2>2 DEF Running
<1>14. ASSUME NEW t \in Threads, Push(t)
       PROVE  ExitInv'
  <2>1. /\ tpc[t] = "push" /\ cur' = [cur EXCEPT ![t] = NoTask]
        /\ tpc' = [tpc EXCEPT ![t] = "notify"]
        /\ UNCHANGED <<queue, lock, left, main>>
    BY <1>14 DEF Push, mainVars
  <2>2. cur[t] \in Tasks /\ cur[t] # NoTask /\ cur[t] # ExitTask
    BY <2>1, PoolAssumption DEF Held
  <2>3. Running' = Running \ {cur[t]}
    BY <2>1, <2>2, RunningDrops, Zenon DEF TaskInv
  <2>4. Exited' = Exited
    BY <2>1, ZenonT(30) DEF Exited
  <2> QED
    BY <1>4, <2>1, <2>2, <2>3, <2>4
<1>15. ASSUME NEW t \in Threads, ExitHandler(t)
       PROVE  ExitInv'
  <2>1. /\ tpc[t] = "run" /\ cur[t] = ExitTask /\ lock' = 0
        /\ tpc' = [tpc EXCEPT ![t] = "exited"] /\ cur' = [cur EXCEPT ![t] = NoTask]
        /\ UNCHANGED <<queue, left, main>>
    BY <1>15 DEF ExitHandler
  <2>2. ExitTask # NoTask /\ Alone /\ Apart(In(queue), Running, In(done), In(batch))
    BY PoolAssumption DEF TaskInv
  <2>3. ExitTask \in Running /\ Running' = Running \ {ExitTask}
    BY <2>1, <2>2, RunningDrops, Zenon
  <2>4. main = "spin" /\ lock = 1 /\ ~Out'
    BY <1>1, <2>1, <2>2, <2>3 DEF Apart
  <2>5. Exited' = Exited \union {t} /\ t \notin Exited
    BY <2>1 DEF Exited
  <2>6. Cardinality(Exited') = n + 1
    BY <1>2, <2>5, SleepersCount, Zenon
  <2> HIDE DEF Out, n, N
  <2>7. Cardinality(Exited') + left' = N + 1
    BY <1>1, <1>2, <2>1, <2>4, <2>6
  <2> QED
    BY <1>1, <2>1, <2>4, <2>7 DEF ExitInv, Out, n, N
<1>16. CASE UNCHANGED vars
  BY <1>4, <1>16 DEF vars, threadVars, mainVars, Running, Exited
<1> QED
  BY <1>5, <1>6, <1>7, <1>8, <1>9, <1>10, <1>12, <1>13, <1>14, <1>15, <1>16
     DEF Next, MainStep, ThreadStep

(* The places of tasks are sound, and destroy knows which threads are gone. *)
LEMMA PlacesCorrect == Spec => [](TypeInv /\ TaskInv /\ ExitInv)
<1>1. Init => TaskInv /\ ExitInv
  <2> SUFFICES ASSUME Init
               PROVE  TaskInv /\ ExitInv
    OBVIOUS
  <2>1. In(<< >>) = {} /\ Once(<< >>)
    BY DEF In, Once
  <2>2. Running = {} /\ Alone /\ Exited = {}
    BY DEF Init, Running, Alone, Exited
  <2>3. Cardinality({}) = 0 /\ Cardinality(Threads) \in Nat
    BY PoolAssumption, FS_EmptySet, FS_CardinalityType
  <2>4. TaskInv
    BY <2>1, <2>2 DEF Init, TaskInv, Apart, Located, AllTasks
  <2>5. ExitInv
    BY <2>1, <2>2, <2>3 DEF Init, ExitInv
  <2> QED
    BY <2>4, <2>5
<1>2. TypeInv /\ TaskInv /\ ExitInv /\ [Next]_vars => TaskInv' /\ ExitInv'
  BY TaskStep, ExitStep
<1> QED
  BY <1>1, <1>2, TypeCorrect, PTL DEF Spec

(* No thread uses the mutex and the condition of the pool after            *)
(* ngx_thread_pool_destroy has destroyed them, although it counts the      *)
(* threads by exit tasks that any of them may take.                        *)
THEOREM DestroySafeCorrect == Spec => []DestroySafe
<1>1. TypeInv /\ ExitInv => DestroySafe
  <2> SUFFICES ASSUME TypeInv, ExitInv, main = "destroyed"
               PROVE  \A t \in Threads : tpc[t] = "exited"
    BY DEF DestroySafe
  <2>1. Exited \in SUBSET Threads /\ IsFiniteSet(Threads)
    BY PoolAssumption DEF Exited
  <2>2. Cardinality(Exited) \in Nat
    BY <2>1, FS_Subset, FS_CardinalityType
  <2>3. Cardinality(Exited) = Cardinality(Threads)
    BY <2>2 DEF ExitInv
  <2>4. Exited = Threads
    BY <2>1, <2>3, FS_Subset
  <2> QED
    BY <2>4 DEF Exited
<1> QED
  BY <1>1, PlacesCorrect, PTL

(* A task is in exactly one place of the pool while it is active, and in   *)
(* none when it is not, however posts, threads and completions interleave. *)
THEOREM ConservedCorrect == Spec => []Conserved
<1>1. TypeInv /\ TaskInv => Conserved
  <2> SUFFICES ASSUME TypeInv, TaskInv, NEW k \in Tasks
               PROVE  Cardinality(Places(k)) = active[k]
    BY DEF Conserved
  <2> DEFINE Q == {<<"queue", i>> : i \in {j \in DOMAIN queue : queue[j] = k}}
             T == {<<"thread", t>> : t \in {u \in Threads : cur[u] = k}}
             D == {<<"done", i>> : i \in {j \in DOMAIN done : done[j] = k}}
             B == {<<"batch", i>> : i \in {j \in DOMAIN batch : batch[j] = k}}
  <2>1. Places(k) = Q \union T \union D \union B
    BY ZenonT(30) DEF Places
  <2>2. /\ Once(queue) /\ Once(done) /\ Once(batch) /\ Alone
        /\ Apart(In(queue), Running, In(done), In(batch))
        /\ active[k] = 1 <=> k \in In(queue) \union Running \union In(done) \union In(batch)
    BY DEF TaskInv, Located
  <2>3. k # NoTask /\ active[k] \in {0, 1}
    BY PoolAssumption, ZenonT(30) DEF TypeInv, TypeOK, AllTasks
  <2>4. /\ k \notin In(queue) => Q = {}
        /\ k \notin In(done) => D = {}
        /\ k \notin In(batch) => B = {}
    BY ZenonT(30) DEF In
  <2>5. k \notin Running => T = {}
    BY <2>3 DEF Running
  <2>6. ASSUME k \in In(queue)
        PROVE  \E p : Q = {p}
    <3>1. PICK i \in DOMAIN queue : queue[i] = k
      BY <2>6, ZenonT(30) DEF In
    <3>2. {j \in DOMAIN queue : queue[j] = k} = {i}
      BY <2>2, <3>1 DEF Once
    <3>3. Q = {<<"queue", i>>}
      BY <3>2
    <3> QED
      BY <3>3, Zenon
  <2>7. ASSUME k \in In(done)
        PROVE  \E p : D = {p}
    <3>1. PICK i \in DOMAIN done : done[i] = k
      BY <2>7 DEF In
    <3>2. {j \in DOMAIN done : done[j] = k} = {i}
      BY <2>2, <3>1 DEF Once
    <3>3. D = {<<"done", i>>}
      BY <3>2
    <3> QED
      BY <3>3, Zenon
  <2>8. ASSUME k \in In(batch)
        PROVE  \E p : B = {p}
    <3>1. PICK i \in DOMAIN batch : batch[i] = k
      BY <2>8 DEF In
    <3>2. {j \in DOMAIN batch : batch[j] = k} = {i}
      BY <2>2, <3>1 DEF Once
    <3>3. B = {<<"batch", i>>}
      BY <3>2
    <3> QED
      BY <3>3, Zenon
  <2>9. ASSUME k \in Running
        PROVE  \E p : T = {p}
    <3>1. PICK t \in Threads : cur[t] = k
      BY <2>9 DEF Running
    <3>2. {u \in Threads : cur[u] = k} = {t}
      BY <2>2, <2>3, <3>1 DEF Alone
    <3>3. T = {<<"thread", t>>}
      BY <3>2
    <3> QED
      BY <3>3, Zenon
  <2>10. Cardinality({}) = 0 /\ \A p : Cardinality({p}) = 1
    BY FS_EmptySet, FS_Singleton, Zenon
  <2> HIDE DEF Q, T, D, B
  <2>11. CASE active[k] = 0
    <3>1. Places(k) = {}
      BY <2>1, <2>2, <2>4, <2>5, <2>11
    <3> QED
      BY <2>10, <2>11, <3>1
  <2>12. CASE active[k] = 1
    <3>1. \E p : Places(k) = {p}
      BY <2>1, <2>2, <2>4, <2>5, <2>6, <2>7, <2>8, <2>9, <2>12, Zenon DEF Apart
    <3> QED
      BY <2>10, <2>12, <3>1, Zenon
  <2> QED
    BY <2>3, <2>11, <2>12
<1> QED
  BY <1>1, PlacesCorrect, PTL

=============================================================================
