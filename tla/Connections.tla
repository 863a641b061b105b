---------------------------- MODULE Connections -----------------------------
(***************************************************************************)
(* The connections of a worker (ngx_connection.c) and the events that find *)
(* their way to them (ngx_epoll_process_events, posted events).            *)
(*                                                                         *)
(* Connections are slots of an array; the free ones form a stack, and the  *)
(* idle ones a queue from which they are taken back when few slots are     *)
(* free.  epoll_wait reports many events at once, and the handler of one   *)
(* may close, and open anew, the slot another one is about: the bit        *)
(* instance is there to tell a stale event from a good one.                *)
(*                                                                         *)
(* Handlers are the code of all other modules: a handler is any sequence   *)
(* of calls to the functions below, one step each, that ends with Return.  *)
(***************************************************************************)
EXTENDS Integers, Sequences, FiniteSets, Functions

CONSTANTS
    Slots,      \* ngx_cycle->connections
    NoSlot,     \* a connection pointer that is NULL
    FreeShare,  \* 16: as long as more than 1/16 of the slots is free, none is taken back
    ReuseShare, \* 8: the share of the idle connections that is taken back at once,
    ReuseMax,   \* 32: and the most of them
    MaxOpens    \* bound on the openings of a slot

ASSUME SlotsAssumption ==
    /\ IsFiniteSet(Slots) /\ NoSlot \notin Slots
    /\ {FreeShare, ReuseShare, ReuseMax} \subseteq Nat \ {0}

VARIABLES
    pool,   \* free, freeN, fd, instance, reusable, rq, rn, linger, posted: see TypeOK
    batch,  \* entries reported by epoll_wait; the first one is being looked at
    leg,    \* which of its events is next, c->read or c->write
    posts,  \* 1: flags has NGX_POST_EVENTS in this call of ngx_epoll_process_events
    pc,     \* wait, events, posted, handler; drain, take: in ngx_get_connection
    ret,    \* where a handler returns to
    turns,  \* ngx_drain_connections: the turns left,
    last,   \*    and c, the connection of the last turn
    refused \* 1: the last ngx_get_connection failed

(* History variables: how often a slot was opened; the opening a posted    *)
(* event is about; whether a connection was free or idle when              *)
(* ngx_get_connection was called.                                          *)
VARIABLES born, pborn, spare

loop == <<batch, leg, posts, ret>>
drain == <<turns, last, spare>>
vars == <<pool, loop, pc, drain, refused, born, pborn>>

Entries == [slot : Slots, inst : {0, 1}, born : Nat]
Events == Slots \X {"read", "write"}

(* The types; the two counters stay within the number of slots. *)
TypeOK ==
    /\ pool.free \in Seq(Slots) /\ pool.rq \in Seq(Slots) /\ pool.posted \in Seq(Events)
    /\ pool.freeN \in 0..Cardinality(Slots) /\ pool.rn \in 0..Cardinality(Slots)
    /\ \A f \in {"fd", "instance", "reusable", "linger"} : pool[f] \in [Slots -> {0, 1}]
    /\ batch \in Seq(Entries) /\ leg \in {"read", "write"} /\ posts \in {0, 1}
    /\ pc \in {"wait", "events", "posted", "handler", "drain", "take"}
    /\ ret \in {"events", "posted"}
    /\ turns \in 0..ReuseMax /\ last \in Slots \union {NoSlot}
    /\ refused \in {0, 1} /\ spare \in {0, 1}
    /\ born \in [Slots -> Nat] /\ pborn \in [Events -> Nat]

Orders(S) == Bijection(1..Cardinality(S), S)

Init ==
    /\ \E f \in Orders(Slots) :
          pool = [free |-> f, freeN |-> Cardinality(Slots),
                  fd |-> [s \in Slots |-> 0], instance |-> [s \in Slots |-> 1],
                  reusable |-> [s \in Slots |-> 0], rq |-> << >>, rn |-> 0,
                  linger |-> [s \in Slots |-> 0], posted |-> << >>]
    /\ batch = << >> /\ leg = "read" /\ posts = 0 /\ pc = "wait" /\ ret = "events"
    /\ turns = 0 /\ last = NoSlot /\ refused = 0 /\ spare = 0
    /\ born = [s \in Slots |-> 0] /\ pborn = [e \in Events |-> 0]

-----------------------------------------------------------------------------
(* ngx_queue_remove, if s is in the queue.                                *)
Without(q, i) == SubSeq(q, 1, i - 1) \o SubSeq(q, i + 1, Len(q))

QueueRemove(q, s) ==
    IF s \in Range(q) THEN Without(q, CHOOSE i \in DOMAIN q : q[i] = s) ELSE q

(* ngx_reusable_connection: idle connections enter the queue at its head. *)
ReusableConnection(p, s, r) ==
    LET q == IF p.reusable[s] = 1 THEN QueueRemove(p.rq, s) ELSE p.rq
    IN  [p EXCEPT !.rq = IF r = 1 THEN <<s>> \o q ELSE q,
                  !.rn = p.rn - p.reusable[s] + r,
                  !.reusable = [p.reusable EXCEPT ![s] = r]]

(* ngx_free_connection                                                    *)
FreeConnection(p, s) ==
    [p EXCEPT !.free = <<s>> \o p.free, !.freeN = p.freeN + 1]

(* ngx_close_connection; a second call changes nothing.                   *)
CloseConnectionPosted(p, s) ==
    IF p.fd[s] = 0 THEN p
    ELSE [FreeConnection(ReusableConnection(p, s, 0), s)
            EXCEPT !.fd = [p.fd EXCEPT ![s] = 0]]

CloseConnection(p, s) ==
    IF p.fd[s] = 0 THEN p
    ELSE [FreeConnection(ReusableConnection(p, s, 0), s)
            EXCEPT !.fd = [p.fd EXCEPT ![s] = 0],
                   !.posted = QueueRemove(QueueRemove(p.posted, <<s, "read">>), <<s, "write">>)]

(* The read handler of an idle connection that finds c->close: it closes  *)
(* the connection, or it lingers, idle again, and closes it next time.    *)
CloseHandler(p, s, lingers) ==
    IF lingers /\ p.linger[s] = 0
    THEN [ReusableConnection(p, s, 1) EXCEPT !.linger = [p.linger EXCEPT ![s] = 1]]
    ELSE CloseConnection(p, s)

(* ngx_get_connection: the slot on top of the stack, cleared but for its  *)
(* instance, which is inverted.                                           *)
Opened(p, s) ==
    [p EXCEPT !.free = Tail(p.free), !.freeN = p.freeN - 1,
              !.fd = [p.fd EXCEPT ![s] = 1],
              !.linger = [p.linger EXCEPT ![s] = 0],
              !.reusable = [p.reusable EXCEPT ![s] = 0]]

Taken(p, s) ==
    [Opened(p, s) EXCEPT !.instance = [p.instance EXCEPT ![s] = 1 - p.instance[s]]]

-----------------------------------------------------------------------------
(* epoll_wait reports entries for some of the open connections.  Which of *)
(* its two events an entry is about (revents), and whether the event is   *)
(* active, is left open until the event is looked at: PassEvent.          *)
EpollWait ==
    /\ pc = "wait"
    /\ pc' = "events" /\ leg' = "read"
    /\ posts' \in {0, 1}
    /\ \E S \in SUBSET {s \in Slots : pool.fd[s] = 1} : \E q \in Orders(S) :
          batch' = [i \in DOMAIN q |->
                      [slot |-> q[i], inst |-> pool.instance[q[i]], born |-> born[q[i]]]]
    /\ UNCHANGED <<pool, ret, drain, refused, born, pborn>>

(* The loop over the entries.  The read event comes first, then the write *)
(* event, each after a check of fd and instance of its own: the handler   *)
(* of the first may have closed the connection and opened the slot anew.  *)
StaleAtRead(e) ==
    leg = "read" /\ (pool.fd[e.slot] = 0 \/ pool.instance[e.slot] # e.inst)

Stale(e) == pool.fd[e.slot] = 0 \/ pool.instance[e.slot] # e.inst

Looking == pc = "events" /\ batch # << >>

NextLeg ==
    IF leg = "read" THEN leg' = "write" /\ UNCHANGED batch
                    ELSE leg' = "read" /\ batch' = Tail(batch)

(* Both checks skip what is left of the entry.                            *)
SkipEntry ==
    /\ Looking /\ Stale(Head(batch))
    /\ leg' = "read" /\ batch' = Tail(batch)
    /\ UNCHANGED <<pool, posts, pc, ret, drain, refused, born, pborn>>

(* The event is not in revents, or is not active (rev->active,            *)
(* wev->active, which handlers change).  The write event is looked at     *)
(* before its check.                                                      *)
PassEvent ==
    /\ Looking /\ (leg = "read" => ~Stale(Head(batch)))
    /\ NextLeg
    /\ UNCHANGED <<pool, posts, pc, ret, drain, refused, born, pborn>>

PostEvent(e) ==
    IF e \in Range(pool.posted) THEN UNCHANGED <<pool, pborn>>
    ELSE /\ pool' = [pool EXCEPT !.posted = Append(@, e)]
         /\ pborn' = [pborn EXCEPT ![e] = born[e[1]]]

DeferEvent ==
    /\ Looking /\ posts = 1 /\ ~Stale(Head(batch))
    /\ PostEvent(<<Head(batch).slot, leg>>)
    /\ NextLeg
    /\ UNCHANGED <<posts, pc, ret, drain, refused, born>>

HandleEvent ==
    /\ Looking /\ posts = 0 /\ ~Stale(Head(batch))
    /\ pc' = "handler" /\ ret' = "events"
    /\ NextLeg
    /\ UNCHANGED <<pool, posts, drain, refused, born, pborn>>

(* An event of a listening socket, or a timer: a handler that is about no *)
(* connection of the pool.  With NGX_POST_EVENTS those of the listening   *)
(* sockets are posted, too, and come first among the posted ones.         *)
OtherEvent ==
    /\ (pc = "events" /\ leg = "read" /\ posts = 0) \/ pc = "posted"
    /\ pc' = "handler" /\ ret' = pc
    /\ UNCHANGED <<pool, batch, leg, posts, drain, refused, born, pborn>>

EventsDone ==
    /\ pc = "events" /\ batch = << >>
    /\ pc' = "posted"
    /\ UNCHANGED <<pool, loop, drain, refused, born, pborn>>

(* ngx_event_process_posted                                               *)
ProcessPosted ==
    /\ pc = "posted"
    /\ IF pool.posted = << >>
       THEN pc' = "wait" /\ UNCHANGED <<pool, ret>>
       ELSE /\ pool' = [pool EXCEPT !.posted = Tail(@)]
            /\ pc' = "handler" /\ ret' = "posted"
    /\ UNCHANGED <<batch, leg, posts, drain, refused, born, pborn>>

-----------------------------------------------------------------------------
(* What a handler may do.  ngx_get_connection begins with                 *)
(* ngx_drain_connections, which takes back idle connections when few are  *)
(* free: nothing to do, or so many turns of a loop.                       *)
Enough == pool.freeN > Cardinality(Slots) \div FreeShare \/ pool.rn = 0

Turns ==
    LET n == pool.rn \div ReuseShare
    IN  IF n = 0 THEN 1 ELSE IF n < ReuseMax THEN n ELSE ReuseMax

GetConnection ==
    /\ pc = "handler"
    /\ \A s \in Slots : born[s] < MaxOpens
    /\ IF Enough
       THEN pc' = "take" /\ turns' = 0
       ELSE pc' = "drain" /\ turns' = Turns
    /\ spare' = IF pool.free = << >> /\ pool.rq = << >> THEN 0 ELSE 1
    /\ last' = NoSlot /\ refused' = 0
    /\ UNCHANGED <<pool, loop, born, pborn>>

(* One turn: the handler of the connection that is idle longest.          *)
DrainTurn(lingers) ==
    /\ pc = "drain" /\ turns > 0 /\ pool.rq # << >>
    /\ last' = pool.rq[Len(pool.rq)]
    /\ pool' = CloseHandler(pool, last', lingers)
    /\ turns' = turns - 1
    /\ UNCHANGED <<loop, pc, spare, refused, born, pborn>>

(* The end of ngx_drain_connections: if nothing came free, the connection *)
(* of the last turn is lingering, and its handler is called again.        *)
DrainOnce(lingers) ==
    /\ pc = "drain" /\ (turns = 0 \/ pool.rq = << >>)
    /\ pc' = "take"
    /\ UNCHANGED <<pool, loop, drain, refused, born, pborn>>

DrainEnds(lingers) ==
    /\ pc = "drain" /\ (turns = 0 \/ pool.rq = << >>)
    /\ pool' = IF pool.freeN = 0 /\ last # NoSlot /\ pool.reusable[last] = 1
               THEN CloseHandler(pool, last, lingers) ELSE pool
    /\ pc' = "take"
    /\ UNCHANGED <<loop, drain, refused, born, pborn>>

(* The rest of ngx_get_connection.                                        *)
TakeFree ==
    /\ pc = "take"
    /\ IF pool.free = << >>
       THEN refused' = 1 /\ UNCHANGED <<pool, born>>
       ELSE LET s == Head(pool.free)
            IN  /\ refused' = 0
                /\ pool' = Taken(pool, s)
                /\ born' = [born EXCEPT ![s] = @ + 1]
    /\ pc' = "handler" /\ turns' = 0 /\ last' = NoSlot /\ spare' = 0
    /\ UNCHANGED <<loop, pborn>>

Close(s) ==
    /\ pc = "handler"
    /\ pool' = CloseConnection(pool, s)
    /\ refused' = 0
    /\ UNCHANGED <<loop, pc, drain, born, pborn>>

(* A connection becomes idle, or busy again.                              *)
SetReusable(s, r) ==
    /\ pc = "handler" /\ pool.fd[s] = 1
    /\ pool' = ReusableConnection(pool, s, r)
    /\ refused' = 0
    /\ UNCHANGED <<loop, pc, drain, born, pborn>>

Post(e) ==
    /\ pc = "handler" /\ pool.fd[e[1]] = 1
    /\ PostEvent(e)
    /\ refused' = 0
    /\ UNCHANGED <<loop, pc, drain, born>>

Return ==
    /\ pc = "handler"
    /\ pc' = ret /\ refused' = 0
    /\ UNCHANGED <<pool, loop, drain, born, pborn>>

Handler ==
    \/ GetConnection \/ TakeFree \/ Return
    \/ \E lingers \in BOOLEAN : DrainTurn(lingers) \/ DrainEnds(lingers)
    \/ \E s \in Slots : Close(s) \/ \E r \in {0, 1} : SetReusable(s, r)
    \/ \E e \in Events : Post(e)

Next ==
    \/ EpollWait \/ SkipEntry \/ PassEvent \/ DeferEvent \/ HandleEvent \/ OtherEvent
    \/ EventsDone \/ ProcessPosted \/ Handler

Spec == Init /\ [][Next]_vars

-----------------------------------------------------------------------------
(* The stack of free connections holds every slot that is closed, once,    *)
(* and the queue of idle ones only open slots, once, in agreement with     *)
(* c->reusable: connections are neither leaked nor handed out twice, and   *)
(* free_connection_n and reusable_connections_n count them.  A posted      *)
(* event is about the connection that is open in its slot:                 *)
(* ngx_close_connection deletes the posted events of the connection.       *)
PoolSound ==
    /\ TypeOK
    /\ IsInjective(pool.free) /\ IsInjective(pool.rq)
    /\ Range(pool.free) = {s \in Slots : pool.fd[s] = 0}
    /\ Range(pool.rq) = {s \in Slots : pool.reusable[s] = 1}
    /\ \A s \in Range(pool.rq) : pool.fd[s] = 1
    /\ pool.freeN = Len(pool.free)
    /\ pool.rn = Len(pool.rq)
    /\ IsInjective(pool.posted)
    /\ \A e \in Range(pool.posted) : pool.fd[e[1]] = 1 /\ pborn[e] = born[e[1]]

(* An event of the first entry is handled or posted in this step.         *)
Dispatched == pc = "events" /\ <<batch, leg>>' # <<batch, leg>>
                            /\ (pc' = "handler" \/ pool' # pool)

(* An event reported by epoll_wait, to be read or to be written, is not   *)
(* handled, nor posted, for a connection opened since, if the slot was    *)
(* opened an odd number of times: the two checks of fd and instance in    *)
(* ngx_epoll_process_events compare one bit and cannot tell an even       *)
(* number from none.                                                      *)
InstanceCatches ==
    [][Dispatched => (born[Head(batch).slot] - Head(batch).born) % 2 = 0]_vars

(* ngx_get_connection fails only if no connection was free and none idle  *)
(* when it was called: ngx_drain_connections frees one even if all of     *)
(* those whose handlers it calls linger at first.                         *)
RefusedOnlyIfBusy == [][refused' = 1 => spare = 0]_vars

=============================================================================
