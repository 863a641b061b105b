----------------------------- MODULE ThreadPool -----------------------------
(***************************************************************************)
(* The thread pool of a worker process (ngx_thread_pool.c), with the way   *)
(* its users call it (ngx_thread_read) and the notification through an     *)
(* eventfd (ngx_epoll_module.c).                                           *)
(*                                                                         *)
(* The main thread posts tasks; the threads of the pool take them from the *)
(* queue, run them, append them to the list of finished tasks and notify   *)
(* the event loop, which completes them.  What is done under the mutex of  *)
(* the pool, or under the spinlock of the list, is one step.  The calls of *)
(* pthread mutexes and conditions are taken to succeed, as they do for     *)
(* valid objects.                                                          *)
(***************************************************************************)
EXTENDS Integers, Sequences, FiniteSets

CONSTANTS
    Threads,    \* tp->threads
    Tasks,      \* the tasks of requests
    ExitTask,   \* the task of ngx_thread_pool_destroy
    NoTask,
    MaxQueue    \* tp->max_queue

ASSUME PoolAssumption ==
    /\ IsFiniteSet(Threads) /\ Threads # {}
    /\ ExitTask \notin Tasks /\ NoTask \notin Tasks \union {ExitTask}
    /\ MaxQueue \in Nat

VARIABLES
    active, complete,   \* of task->event, per task
    queue, waiting,     \* tp->queue, tp->waiting
    tpc, cur,           \* per thread: where it is, the task it holds
    done,               \* ngx_thread_pool_done
    notified,           \* the eventfd has an edge that epoll has not reported
    batch,              \* the finished tasks ngx_thread_pool_handler still has
    main,               \* where the main thread is
    lock, left          \* destroy: the flag it spins on, threads still to stop

threadVars == <<tpc, cur>>

mainVars == <<batch, main, lock, left>>

vars == <<active, complete, queue, waiting, threadVars, done, notified, mainVars>>

AllTasks == Tasks \union {ExitTask}

(* The types; waiting may be negative. *)
TypeOK ==
    /\ active \in [AllTasks -> {0, 1}] /\ complete \in [Tasks -> {0, 1}]
    /\ queue \in Seq(AllTasks) /\ done \in Seq(Tasks) /\ batch \in Seq(Tasks)
    /\ waiting \in Int
    /\ tpc \in [Threads -> {"lock", "wait", "woken", "run", "push", "notify", "exited"}]
    /\ cur \in [Threads -> AllTasks \union {NoTask}]
    /\ notified \in {0, 1} /\ lock \in {0, 1}
    /\ left \in Nat
    /\ main \in {"loop", "drain", "destroy", "spin", "destroyed", "abandoned"}

Init ==
    /\ active = [k \in AllTasks |-> 0]
    /\ complete = [k \in Tasks |-> 0]
    /\ queue = << >> /\ done = << >> /\ batch = << >>
    /\ waiting = 0
    /\ tpc = [t \in Threads |-> "lock"]
    /\ cur = [t \in Threads |-> NoTask]
    /\ notified = 0
    /\ main = "loop"
    /\ lock = 0 /\ left = Cardinality(Threads)

-----------------------------------------------------------------------------
(* pthread_cond_signal: wakes a thread that waits, if there is one.       *)
Signal ==
    \/ /\ \A t \in Threads : tpc[t] # "wait"
       /\ UNCHANGED tpc
    \/ \E t \in Threads : tpc[t] = "wait" /\ tpc' = [tpc EXCEPT ![t] = "woken"]

(* ngx_thread_task_post, when it succeeds.                                *)
PostUncounted(k) ==
    /\ active[k] = 0 /\ waiting < MaxQueue
    /\ active' = [active EXCEPT ![k] = 1]
    /\ Signal
    /\ queue' = Append(queue, k)
    /\ UNCHANGED waiting

PostSilent(k) ==
    /\ active[k] = 0 /\ waiting < MaxQueue
    /\ active' = [active EXCEPT ![k] = 1]
    /\ UNCHANGED tpc
    /\ queue' = Append(queue, k)
    /\ waiting' = waiting + 1

Post(k) ==
    /\ active[k] = 0 /\ waiting < MaxQueue
    /\ active' = [active EXCEPT ![k] = 1]
    /\ Signal
    /\ queue' = Append(queue, k)
    /\ waiting' = waiting + 1

(* A request wants the result of its task: it takes it if it is there,    *)
(* else it posts the task, which is refused if the task is active or the  *)
(* queue is full.                                                         *)
Call(k) ==
    /\ main = "loop"
    /\ \/ /\ complete[k] = 1
          /\ complete' = [complete EXCEPT ![k] = 0]
          /\ UNCHANGED <<active, queue, waiting, tpc>>
       \/ /\ complete[k] = 0
          /\ Post(k)
          /\ UNCHANGED complete
    /\ UNCHANGED <<cur, done, notified, mainVars>>

-----------------------------------------------------------------------------
(* A thread that holds the mutex takes the first task and unlocks.        *)
Take(t) ==
    /\ queue # << >>
    /\ cur' = [cur EXCEPT ![t] = Head(queue)]
    /\ queue' = Tail(queue)
    /\ tpc' = [tpc EXCEPT ![t] = "run"]

Sleep(t) ==
    /\ queue = << >>
    /\ tpc' = [tpc EXCEPT ![t] = "wait"]
    /\ UNCHANGED <<cur, queue>>

Enter(t) ==
    /\ tpc[t] = "lock"
    /\ waiting' = waiting - 1
    /\ Take(t) \/ Sleep(t)
    /\ UNCHANGED <<active, complete, done, notified, mainVars>>

Resume(t) ==
    /\ tpc[t] = "woken"
    /\ Take(t) \/ Sleep(t)
    /\ UNCHANGED <<active, complete, waiting, done, notified, mainVars>>

(* pthread_cond_wait may return without a signal.                         *)
Spurious(t) ==
    /\ tpc[t] = "wait"
    /\ tpc' = [tpc EXCEPT ![t] = "woken"]
    /\ UNCHANGED <<active, complete, queue, waiting, cur, done, notified, mainVars>>

(* task->handler                                                          *)
Run(t) ==
    /\ tpc[t] = "run" /\ cur[t] \in Tasks
    /\ tpc' = [tpc EXCEPT ![t] = "push"]
    /\ UNCHANGED <<active, complete, queue, waiting, cur, done, notified, mainVars>>

(* ngx_thread_pool_exit_handler                                           *)
ExitHandler(t) ==
    /\ tpc[t] = "run" /\ cur[t] = ExitTask
    /\ lock' = 0
    /\ tpc' = [tpc EXCEPT ![t] = "exited"]
    /\ cur' = [cur EXCEPT ![t] = NoTask]
    /\ UNCHANGED <<active, complete, queue, waiting, done, notified, batch, main, left>>

Push(t) ==
    /\ tpc[t] = "push"
    /\ done' = Append(done, cur[t])
    /\ cur' = [cur EXCEPT ![t] = NoTask]
    /\ tpc' = [tpc EXCEPT ![t] = "notify"]
    /\ UNCHANGED <<active, complete, queue, waiting, notified, mainVars>>

(* ngx_epoll_notify                                                       *)
Notify(t) ==
    /\ tpc[t] = "notify"
    /\ notified' = 1
    /\ tpc' = [tpc EXCEPT ![t] = "lock"]
    /\ UNCHANGED <<active, complete, queue, waiting, cur, done, mainVars>>

-----------------------------------------------------------------------------
(* epoll_wait reports the eventfd ...                                     *)
Collect ==
    /\ main = "loop" /\ batch = << >> /\ notified = 1
    /\ notified' = 0
    /\ main' = "drain"
    /\ UNCHANGED <<active, complete, queue, waiting, threadVars, done, batch, lock, left>>

(* ... and ngx_thread_pool_handler takes the list.                        *)
DrainFirst ==
    /\ main = "drain"
    /\ main' = "loop"
    /\ IF done = << >> THEN UNCHANGED <<done, batch>>
       ELSE batch' = <<Head(done)>> /\ done' = Tail(done)
    /\ UNCHANGED <<active, complete, queue, waiting, threadVars, notified, lock, left>>

Drain ==
    /\ main = "drain"
    /\ main' = "loop"
    /\ batch' = done /\ done' = << >>
    /\ UNCHANGED <<active, complete, queue, waiting, threadVars, notified, lock, left>>

(* One turn of its loop.  The next task is read before the handler of     *)
(* this one is called: the handler may post the task again (Call).        *)
CompleteForgetful ==
    /\ main = "loop" /\ batch # << >>
    /\ LET k == Head(batch)
       IN  /\ complete' = [complete EXCEPT ![k] = 1]
           /\ active' = [active EXCEPT ![k] = 0]
    /\ batch' = << >>
    /\ UNCHANGED <<queue, waiting, threadVars, done, notified, main, lock, left>>

Complete ==
    /\ main = "loop" /\ batch # << >>
    /\ LET k == Head(batch)
       IN  /\ complete' = [complete EXCEPT ![k] = 1]
           /\ active' = [active EXCEPT ![k] = 0]
    /\ batch' = Tail(batch)
    /\ UNCHANGED <<queue, waiting, threadVars, done, notified, main, lock, left>>

-----------------------------------------------------------------------------
(* ngx_thread_pool_destroy: the worker exits, whatever the tasks do.      *)
ExitWorker ==
    /\ main = "loop" /\ batch = << >>
    /\ main' = "destroy"
    /\ UNCHANGED <<active, complete, queue, waiting, threadVars, done, notified, batch,
                   lock, left>>

(* One exit task per thread; destroy gives up when the queue is full.     *)
PostExit ==
    /\ main = "destroy" /\ left > 0
    /\ \/ /\ Post(ExitTask)
          /\ main' = "spin" /\ lock' = 1
       \/ /\ waiting >= MaxQueue
          /\ main' = "abandoned" /\ lock' = 1
          /\ UNCHANGED <<active, queue, waiting, tpc>>
    /\ UNCHANGED <<complete, cur, done, notified, batch, left>>

SpunHasty ==
    /\ main = "spin"
    /\ active' = [active EXCEPT ![ExitTask] = 0]
    /\ left' = left - 1
    /\ main' = "destroy"
    /\ UNCHANGED <<complete, queue, waiting, threadVars, done, notified, batch, lock>>

Spun ==
    /\ main = "spin" /\ lock = 0
    /\ active' = [active EXCEPT ![ExitTask] = 0]
    /\ left' = left - 1
    /\ main' = "destroy"
    /\ UNCHANGED <<complete, queue, waiting, threadVars, done, notified, batch, lock>>

(* The condition and the mutex are destroyed.                             *)
Destroyed ==
    /\ main = "destroy" /\ left = 0
    /\ main' = "destroyed"
    /\ UNCHANGED <<active, complete, queue, waiting, threadVars, done, notified, batch,
                   lock, left>>

ThreadStep(t) ==
    \/ Enter(t) \/ Resume(t) \/ Spurious(t) \/ Run(t) \/ ExitHandler(t)
    \/ Push(t) \/ Notify(t)

MainStep ==
    \/ \E k \in Tasks : Call(k)
    \/ Collect \/ Drain \/ Complete
    \/ ExitWorker \/ PostExit \/ Spun \/ Destroyed

Next == MainStep \/ \E t \in Threads : ThreadStep(t)

Spec == Init /\ [][Next]_vars

(* Threads run and tasks end; the event loop turns.  Requests need not    *)
(* call, and the worker need not exit.                                    *)
Fairness ==
    /\ \A t \in Threads :
          /\ WF_vars(Enter(t)) /\ WF_vars(Resume(t)) /\ WF_vars(Run(t))
          /\ WF_vars(ExitHandler(t)) /\ WF_vars(Push(t)) /\ WF_vars(Notify(t))
    /\ WF_vars(Collect) /\ WF_vars(Drain) /\ WF_vars(Complete)
    /\ WF_vars(PostExit) /\ WF_vars(Spun) /\ WF_vars(Destroyed)

FairSpec == Spec /\ Fairness

-----------------------------------------------------------------------------
Sleepers == {t \in Threads : tpc[t] \in {"wait", "woken"}}

Places(k) ==
    {<<"queue", i>> : i \in {j \in DOMAIN queue : queue[j] = k}}
       \union {<<"thread", t>> : t \in {u \in Threads : cur[u] = k}}
       \union {<<"done", i>> : i \in {j \in DOMAIN done : done[j] = k}}
       \union {<<"batch", i>> : i \in {j \in DOMAIN batch : batch[j] = k}}

(* The queue has at most max_queue tasks more than there are threads that *)
(* wait for one, although tp->waiting is decremented by a thread before   *)
(* it takes a task, and becomes negative.                                 *)
QueueBounded ==
    Len(queue) <= MaxQueue + Cardinality(Sleepers)

(* A task that is active is in exactly one place (queue, thread, list of  *)
(* finished tasks), and one that is not, in none: task_post refuses the   *)
(* first, and the request may reuse or free the second.                   *)
Conserved ==
    \A k \in Tasks : Cardinality(Places(k)) = active[k]

(* No finished task waits unseen: if the list is not empty, the handler   *)
(* is about to take it, or a notification is pending or about to be sent  *)
(* (the order of append and ngx_notify in ngx_thread_pool_cycle).         *)
DoneSeen ==
    done # << >> => \/ notified = 1 \/ main = "drain"
                    \/ \E t \in Threads : tpc[t] = "notify"

(* When destroy frees the mutex and the condition, no thread is left that *)
(* could use them.                                                        *)
DestroySafe ==
    main = "destroyed" => \A t \in Threads : tpc[t] = "exited"

(* A task that was posted is completed, unless the worker exits: no       *)
(* wakeup of a thread or of the event loop is lost.  And then             *)
(* ngx_thread_pool_destroy comes to an end: it does not spin for ever on  *)
(* an exit task that no thread runs.                                      *)
TasksFinish ==
    /\ \A k \in Tasks :
          active[k] = 1 ~> complete[k] = 1 \/ main \notin {"loop", "drain"}
    /\ main = "destroy" ~> main \in {"destroyed", "abandoned"}

=============================================================================
