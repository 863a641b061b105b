------------------------------- MODULE Dyups --------------------------------
(***************************************************************************)
(* Dynamic upstreams (ngx_http_upstream_dyups_module): how an update of an *)
(* upstream made through one worker reaches the others.                    *)
(*                                                                         *)
(* Every worker holds its own copy of the upstream list.  A command is     *)
(* applied by the worker that receives it and then put in a queue in       *)
(* shared memory; every worker reads the queue on a timer and before each  *)
(* command of its own.  A message lists the pids that have applied it, and *)
(* is destroyed once that list has worker_processes entries.  A table in   *)
(* shared memory (sh->status) records when each pid last read the queue: a *)
(* worker started after a crash takes over the entry that is oldest, and   *)
(* the pid found there is replaced by its own in all messages.             *)
(*                                                                         *)
(* Each handler runs under shpool->mutex, hence is one action; what the    *)
(* mutex itself guarantees is the subject of module Shmtx.  A pid is the   *)
(* pair <<worker, incarnation>>; the status times are kept as ranks, which *)
(* is all that the search for the oldest one depends on.                   *)
(***************************************************************************)
EXTENDS Integers, FiniteSets

CONSTANTS
    Workers,        \* the worker processes of one cycle
    Names,          \* names of upstreams
    Contents,       \* server lists a POST may carry
    Absent, Broken, \* no such upstream; an upstream whose servers were not set
    Static,         \* the upstreams of the configuration file
    MaxMsgs,        \* bound on messages sent
    MaxFaults,      \* bound on crashes of workers, on commands that fail half
                    \* way and on readers without memory, taken together
    MaxStalls       \* bound on workers late by more than 2 * read_msg_timeout

ASSUME ConstantsAssumption ==
    /\ IsFiniteSet(Workers) /\ Workers # {}
    /\ Absent \notin Contents /\ Broken \notin Contents /\ Absent # Broken
    /\ Static \in [Names -> Contents \union {Absent}]
    /\ {MaxMsgs, MaxFaults, MaxStalls} \subseteq Nat

VARIABLES
    state,      \* per worker: dead, forked, asleep (in ngx_msleep), running
    inc,        \* per worker: which incarnation, the second half of its pid
    view,       \* per worker: its upstream list
    status,     \* sh->status: pid and rank of the time, per slot
    allocated,  \* sh->status # NULL
    queue,      \* sh->msg_queue; the ids order the messages by age
    version,    \* sh->version
    late,       \* per sleeper: who has not read the queue since it fell asleep
    intended,   \* history: the upstream list all successful commands add up to
    failed,     \* history, per worker: names whose last change here failed
    restarted,  \* history: the workers that lost the commands they applied
    used        \* how much of each bound is spent; early: crashes before
                \* every worker had its entry in sh->status

vars == <<state, inc, view, status, allocated, queue, version, late,
          intended, failed, restarted, used>>

N == Cardinality(Workers)

Slots == 1..N

NoPid == <<>>

Pid(w) == <<w, inc[w]>>

Values == Contents \union {Absent, Broken}

Budgets == {"crash", "early", "fail", "pool", "stall"}

(* The types.  The times in sh->status rank its entries.                  *)
TypeOK ==
    /\ state \in [Workers -> {"dead", "forked", "asleep", "running"}]
    /\ inc \in [Workers -> Nat]
    /\ view \in [Workers -> [Names -> Values]]
    /\ status \in [Slots -> [pid : {NoPid} \union (Workers \X Nat), time : 0..N]]
    /\ allocated \in BOOLEAN
    /\ version \in Nat
    /\ \A m \in queue :
          /\ m.id \in 1..version
          /\ m.name \in Names
          /\ m.content \in Contents \union {Absent}
          /\ m.acks \subseteq Workers \X Nat
    /\ late \in [Workers -> SUBSET Workers]
    /\ intended \in [Names -> Contents \union {Absent}]
    /\ failed \in [Workers -> SUBSET Names]
    /\ restarted \subseteq Workers
    /\ used \in [Budgets -> Nat]

-----------------------------------------------------------------------------
(* sh->status.  Slot i becomes p's and the most recent one.               *)
Touched(s, i, p) ==
    [j \in Slots |->
        IF j = i THEN [pid |-> p, time |-> N]
        ELSE IF s[j].time > s[i].time THEN [pid |-> s[j].pid, time |-> s[j].time - 1]
        ELSE s[j]]

(* The slots a reader may write its time in: its own or one never taken.  *)
Mine(s, p) == {i \in Slots : s[i].pid \in {NoPid, p}}

First(S) == CHOOSE i \in S : \A j \in S : i <= j

ReadStatus(s, p) ==
    IF Mine(s, p) = {} THEN s ELSE Touched(s, First(Mine(s, p)), p)

(* The search of ngx_http_dyups_init_process: the first of the oldest.    *)
OldestLast(s) ==
    CHOOSE i \in Slots : \A j \in Slots :
       s[i].time < s[j].time \/ (s[i].time = s[j].time /\ i >= j)

Oldest(s) ==
    CHOOSE i \in Slots : \A j \in Slots :
       s[i].time < s[j].time \/ (s[i].time = s[j].time /\ i <= j)

Purge(q, opid, npid) ==
    {[m EXCEPT !.acks = IF opid \in @ THEN (@ \ {opid}) \union {npid} ELSE @] :
        m \in q}

-----------------------------------------------------------------------------
(* The queue as pid p reads it.                                           *)
Full(m) == Cardinality(m.acks) = N

Unread(q, p) == {m \in q : ~Full(m) /\ p \notin m.acks}

(* The queue after p has worked through the messages up to number k.      *)
ConsumedKept(q, p, k) ==
    {m \in q : m.id > k \/ Full(m)}
       \union {[m EXCEPT !.acks = @ \union {p}] : m \in {x \in q : x.id <= k /\ ~Full(x)}}

Consumed(q, p, k) ==
    {m \in q : m.id > k}
       \union {[m EXCEPT !.acks = @ \union {p}] : m \in {x \in q : x.id <= k /\ ~Full(x)}}

Newest(S) == CHOOSE m \in S : \A x \in S : x.id <= m.id

About(S, n) == {m \in S : m.name = n}

(* What the messages of S, applied in order, leave of upstream n, v so    *)
(* far.  An update first removes the old upstream, so one that fails (the *)
(* domain of left) leaves none, or one whose servers were never set.      *)
Applied(S, left, n, v) ==
    IF About(S, n) = {} THEN v
    ELSE LET m == Newest(About(S, n))
         IN  IF m \in DOMAIN left THEN left[m] ELSE m.content

-----------------------------------------------------------------------------
(* ngx_http_dyups_read_msg_locked, the start of every handler: pool says   *)
(* whether the reader could allocate memory, left what the updates that    *)
(* failed have left behind.                                                *)
Seen(w, pool) == IF pool THEN Unread(queue, Pid(w)) ELSE {}

Faults == used["crash"] + used["fail"] + used["pool"]

Failures(S) ==
    UNION {[bad -> {Absent, Broken}] :
              bad \in {B \in SUBSET {m \in S : m.content # Absent} :
                          Faults + Cardinality(B) <= MaxFaults}}

MayRead(w, pool) ==
    /\ state[w] = "running"
    /\ pool \/ (queue # {} /\ Faults < MaxFaults)

ReadTime(w) ==
    /\ status' = ReadStatus(status, Pid(w))
    /\ late' = [s \in Workers |-> late[s] \ {w}]

QueueRead(w, pool) ==
    IF pool THEN Consumed(queue, Pid(w), version) ELSE queue

ViewRead(w, pool, left) ==
    [n \in Names |-> Applied(Seen(w, pool), left, n, view[w][n])]

FailedRead(w, pool, left) ==
    {n \in Names : IF About(Seen(w, pool), n) = {} THEN n \in failed[w]
                   ELSE Newest(About(Seen(w, pool), n)) \in DOMAIN left}

(* Memory was short for the reader if ~pool, and k commands failed.       *)
Spent(pool, k) ==
    [used EXCEPT !["pool"] = IF pool THEN @ ELSE @ + 1, !["fail"] = @ + k]

(* The timer of a worker: ngx_http_dyups_read_msg.  A command rejected    *)
(* before it changes anything (a syntax error found in the sandbox, an    *)
(* unknown name in a DELETE) has the same effect.                         *)
ReadMsg(w) ==
    \E pool \in BOOLEAN :
       /\ MayRead(w, pool)
       /\ UNCHANGED <<state, inc, allocated, version, intended, restarted>>
       /\ ReadTime(w)
       /\ queue' = QueueRead(w, pool)
       /\ \E left \in Failures(Seen(w, pool)) :
             /\ view' = [view EXCEPT ![w] = ViewRead(w, pool, left)]
             /\ failed' = [failed EXCEPT ![w] = FailedRead(w, pool, left)]
             /\ used' = Spent(pool, Cardinality(DOMAIN left))

(* ngx_http_dyups_send_msg: the sender has applied the message already.   *)
Sent(q, w, n, c) ==
    q \union {[id |-> version + 1, name |-> n, content |-> c, acks |-> {Pid(w)}]}

(* A POST (c # Absent) or DELETE of n answered with 200: the worker reads *)
(* the queue, applies the command, and sends it.                          *)
CommandUnread(w, n, c) ==
    /\ MayRead(w, TRUE)
    /\ version < MaxMsgs
    /\ (c = Absent) => (view[w][n] # Absent)
    /\ view' = [view EXCEPT ![w][n] = c]
    /\ failed' = [failed EXCEPT ![w] = @ \ {n}]
    /\ queue' = Sent(queue, w, n, c)
    /\ version' = version + 1
    /\ intended' = [intended EXCEPT ![n] = c]
    /\ UNCHANGED <<state, inc, status, allocated, late, restarted, used>>

Command(w, n, c) ==
    \E pool \in BOOLEAN :
       /\ MayRead(w, pool)
       /\ version < MaxMsgs
       /\ ReadTime(w)
       /\ \E left \in Failures(Seen(w, pool)) :
             LET f == ViewRead(w, pool, left)
             IN  /\ (c = Absent) => (f[n] # Absent)
                 /\ view' = [view EXCEPT ![w] = [f EXCEPT ![n] = c]]
                 /\ failed' = [failed EXCEPT ![w] =
                                  FailedRead(w, pool, left) \ {n}]
                 /\ used' = Spent(pool, Cardinality(DOMAIN left))
       /\ queue' = Sent(QueueRead(w, pool), w, n, c)
       /\ version' = version + 1
       /\ intended' = [intended EXCEPT ![n] = c]
       /\ UNCHANGED <<state, inc, allocated, restarted>>

(* A command answered with 500: v is what it leaves of n.  The upstream   *)
(* was removed but not recreated (Absent), recreated without its servers  *)
(* (Broken), or changed here but could not be sent (c).                   *)
CommandFails(w, n, c, v) ==
    \E pool \in BOOLEAN :
       /\ MayRead(w, pool)
       /\ ReadTime(w)
       /\ \E left \in Failures(Seen(w, pool)) :
             LET f == ViewRead(w, pool, left)
             IN  /\ Faults + Cardinality(DOMAIN left) + (IF pool THEN 0 ELSE 1) < MaxFaults
                 /\ (c = Absent) => (f[n] # Absent /\ v = Absent)
                 /\ view' = [view EXCEPT ![w] = [f EXCEPT ![n] = v]]
                 /\ failed' = [failed EXCEPT ![w] =
                                  FailedRead(w, pool, left) \union {n}]
                 /\ used' = Spent(pool, Cardinality(DOMAIN left) + 1)
       /\ queue' = QueueRead(w, pool)
       /\ UNCHANGED <<state, inc, allocated, version, intended, restarted>>

-----------------------------------------------------------------------------
(* The life of a worker.  It may crash between two handlers (k = 0) or in *)
(* the middle of one, after the messages up to number k were marked as    *)
(* its own; the master then frees the mutex and starts a new process,     *)
(* whose upstreams are those of the configuration file.                   *)
Crash(w, k) ==
    /\ state[w] \in {"asleep", "running"}
    /\ Faults < MaxFaults
    /\ used' = [used EXCEPT !["crash"] = @ + 1,
                 !["early"] = IF \E i \in Slots : status[i].pid = NoPid THEN @ + 1 ELSE @]
    /\ IF k = 0 THEN UNCHANGED <<queue, status>>
       ELSE /\ state[w] = "running"
            /\ \E m \in Unread(queue, Pid(w)) : m.id = k
            /\ queue' = Consumed(queue, Pid(w), k)
            /\ status' = ReadStatus(status, Pid(w))
    /\ state' = [state EXCEPT ![w] = "dead"]
    /\ late' = [s \in Workers |-> IF s = w THEN {} ELSE late[s] \ {w}]
    /\ UNCHANGED <<inc, view, allocated, version, intended, failed, restarted>>

Respawn(w) ==
    /\ state[w] = "dead"
    /\ state' = [state EXCEPT ![w] = "forked"]
    /\ inc' = [inc EXCEPT ![w] = @ + 1]
    /\ view' = [view EXCEPT ![w] = Static]
    /\ failed' = [failed EXCEPT ![w] = {}]
    /\ restarted' = restarted \union {w}
    /\ UNCHANGED <<status, allocated, queue, version, late, intended, used>>

(* ngx_http_dyups_init_process up to ngx_msleep.                          *)
InitProcess(w) ==
    /\ state[w] = "forked"
    /\ allocated' = TRUE
    /\ IF allocated /\ version # 0
       THEN /\ state' = [state EXCEPT ![w] = "asleep"]
            /\ late' = [late EXCEPT ![w] = {v \in Workers : state[v] = "running"}]
       ELSE /\ state' = [state EXCEPT ![w] = "running"]
            /\ UNCHANGED late
    /\ UNCHANGED <<inc, view, status, queue, version, intended, failed,
                   restarted, used>>

(* Its second half.  It has slept for twice the time between two reads of *)
(* a worker: unless one is late, everyone running has read since.         *)
WakeUp(w) ==
    /\ state[w] = "asleep"
    /\ \/ late[w] = {} /\ UNCHANGED used
       \/ /\ late[w] # {} /\ used["stall"] < MaxStalls
          /\ used' = [used EXCEPT !["stall"] = @ + 1]
    /\ LET i == Oldest(status)
       IN  /\ status' = Touched(status, i, Pid(w))
           /\ queue' = Purge(queue, status[i].pid, Pid(w))
    /\ state' = [state EXCEPT ![w] = "running"]
    /\ late' = [late EXCEPT ![w] = {}]
    /\ UNCHANGED <<inc, view, allocated, version, intended, failed, restarted>>

-----------------------------------------------------------------------------
Init ==
    /\ state = [w \in Workers |-> "forked"]
    /\ inc = [w \in Workers |-> 1]
    /\ view = [w \in Workers |-> Static]
    /\ status = [i \in Slots |-> [pid |-> NoPid, time |-> 0]]
    /\ allocated = FALSE
    /\ queue = {}
    /\ version = 0
    /\ late = [w \in Workers |-> {}]
    /\ intended = Static
    /\ failed = [w \in Workers |-> {}]
    /\ restarted = {}
    /\ used = [b \in Budgets |-> 0]

Next ==
    \E w \in Workers :
       \/ ReadMsg(w)
       \/ \E n \in Names, c \in Contents \union {Absent} : Command(w, n, c)
       \/ \E n \in Names, c \in Contents \union {Absent}, v \in Values :
             v \in {Absent, Broken, c} /\ CommandFails(w, n, c, v)
       \/ \E k \in 0..version : Crash(w, k)
       \/ Respawn(w)
       \/ InitProcess(w)
       \/ WakeUp(w)

Spec == Init /\ [][Next]_vars

(* The timer is armed again at the end of every read; the master starts a *)
(* new process for each one that dies; a sleeping process wakes up.  The  *)
(* state of a worker says which of these it is waiting for.               *)
Awaited(w) == ReadMsg(w) \/ Respawn(w) \/ InitProcess(w) \/ WakeUp(w)

FairSpec == Spec /\ \A w \in Workers : WF_vars(Awaited(w))

-----------------------------------------------------------------------------
(* The copy of upstream n that worker w serves is the one all successful  *)
(* commands add up to, unless a message about n is still waiting for it or *)
(* the last change of n failed in it.                                     *)
Current(w, n) ==
    (/\ state[w] = "running"
     /\ About(Unread(queue, Pid(w)), n) = {}
     /\ n \notin failed[w])
    => view[w][n] = intended[n]

(* No command is lost or overtaken on its way to a worker that has not    *)
(* crashed: a message is destroyed only after that worker has applied it, *)
(* and the commands of several workers are applied in one order.  Not so  *)
(* if a new process took over the entry of a worker that was only late or *)
(* had not come to read yet, or if a reader had no memory.                *)
SurvivorsCurrent ==
    (\A b \in {"early", "pool", "stall"} : used[b] = 0)
        => \A w \in Workers \ restarted, n \in Names : Current(w, n)

(* The pids fit in the arrays that were allocated for worker_processes of *)
(* them, whoever crashes, restarts or is late: a worker owns at most one  *)
(* entry of sh->status, whichever way it got it (the entry it no longer   *)
(* writes would be taken for a dead one), and no read of a message writes *)
(* behind msg->pid.                                                       *)
PidsFit ==
    /\ \A i, j \in Slots :
          (status[i].pid = status[j].pid /\ i # j) => status[i].pid = NoPid
    /\ \A m \in queue : Cardinality(m.acks) <= N

(* Shared memory does not fill up with messages everybody has applied:    *)
(* once no more commands arrive, the queue becomes and stays empty.       *)
QueueDrains ==
    <>[](queue = {})

=============================================================================
