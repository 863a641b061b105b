---------------------------- MODULE AcceptMutex -----------------------------
(***************************************************************************)
(* How workers share the listening sockets: ngx_process_events_and_timers, *)
(* the accept mutex, ngx_event_accept and its answer to a lack of file     *)
(* descriptors, with and without accept_mutex, up to the graceful shutdown *)
(* of a worker.                                                            *)
(*                                                                         *)
(* A worker goes round: loop (trylock), wait (epoll_wait), accept (the     *)
(* accept events), unlock, tail (timers, posted events, signals).  The     *)
(* mutex is taken and given up in one step each: Shmtx shows that trylock, *)
(* unlock and force_unlock are that.                                       *)
(***************************************************************************)
EXTENDS Integers, FiniteSets

CONSTANTS
    Workers, Nobody,
    Socks,          \* the listening sockets, none with reuseport
    Confs,          \* the configurations to look at, see conf
    ConnN,          \* worker_connections
    Reserve         \* connection_n / 8, by itself as small instances have less than 8

ASSUME AcceptAssumption ==
    /\ Nobody \notin Workers
    /\ Confs \subseteq [mutex : BOOLEAN, multi : BOOLEAN, timers : BOOLEAN,
                        max_events : Nat]
    /\ ConnN \in Nat \ {0} /\ Reserve \in 0..ConnN

VARIABLES
    lock,       \* the word of ngx_accept_mutex
    wk,         \* the workers, see TypeOK
    pending,    \* connections the kernel has for each listening socket
    used,       \* how much of the bounds is used up
    conf        \* mutex: accept_mutex, with more than one worker; multi:
                \* multi_accept; timers: some timer of no concern here is
                \* always set (health checks...); max_events: bound on
                \* clients, calls that run out of descriptors, failures of
                \* epoll_ctl and crashes, taken together

vars == <<lock, wk, pending, used, conf>>

MayHappen ==
    used.arrivals + used.noFiles + used.epoll + used.crashes < conf.max_events

(* The types; free_connection_n never goes below 0: no accept without a     *)
(* connection for it.                                                       *)
TypeOK ==
    /\ lock \in Workers \cup {Nobody}
    /\ wk \in [Workers ->
         [pc : {"loop", "wait", "accept", "tail", "dead", "gone"},
          held : {0, 1},            \* ngx_accept_mutex_held
          disabled : Int,           \* ngx_accept_disabled
          post : {0, 1},            \* NGX_POST_EVENTS
          skipped : {0, 1},         \* this turn did not try the mutex
          bounded : {0, 1},         \* epoll_wait has a timeout
          active : SUBSET Socks,    \* read events in epoll
          timer : SUBSET Socks,     \* read events with a timer,
          timedout : SUBSET Socks,  \* and those whose handler failed on timeout
          batch : SUBSET Socks,     \* accept events reported, still to be handled
          free : 0..ConnN,          \* free_connection_n
          exiting : {0, 1}]]        \* ngx_exiting: listening sockets are closed
    /\ pending \in [Socks -> 0..conf.max_events]
    /\ used \in [{"arrivals", "noFiles", "epoll", "crashes"} -> 0..conf.max_events]
    /\ conf \in Confs

Mutex(w) == conf.mutex /\ wk[w].exiting = 0

(* ngx_event_process_init: with the mutex, the listening sockets are left *)
(* out of epoll.                                                          *)
Started ==
    [pc |-> "loop", held |-> 0, disabled |-> 0, post |-> 0, skipped |-> 0,
     bounded |-> 0, active |-> IF conf.mutex THEN {} ELSE Socks, timer |-> {},
     timedout |-> {}, batch |-> {}, free |-> ConnN, exiting |-> 0]

Init ==
    /\ conf \in Confs
    /\ lock = Nobody
    /\ wk = [w \in Workers |-> Started]
    /\ pending = [s \in Socks |-> 0]
    /\ used = [arrivals |-> 0, noFiles |-> 0, epoll |-> 0, crashes |-> 0]

Unlocked(w) == IF lock = w THEN Nobody ELSE lock

(* One epoll_ctl of several may fail: some sockets are changed, not all.  *)
EpollError ==
    MayHappen /\ used' = [used EXCEPT !.epoll = @ + 1]

-----------------------------------------------------------------------------
(* ngx_event_find_timer: connections that are open have timers.           *)
HasTimer(r) == conf.timers \/ r.timer # {} \/ r.free < ConnN

Waits(r, post, skipped, delay) ==
    [r EXCEPT !.pc = "wait", !.post = post, !.skipped = skipped,
              !.bounded = IF delay = 1 \/ HasTimer(r) THEN 1 ELSE 0]

(* The head of ngx_process_events_and_timers without the mutex, or with   *)
(* ngx_accept_disabled > 0.                                               *)
TurnPlain(w) ==
    /\ wk[w].pc = "loop" /\ ~Mutex(w)
    /\ wk' = [wk EXCEPT ![w] = Waits(@, 0, 0, 0)]
    /\ UNCHANGED <<lock, pending, used, conf>>

TurnSkips(w) ==
    /\ wk[w].pc = "loop" /\ Mutex(w) /\ wk[w].disabled > 0
    /\ wk' = [wk EXCEPT ![w] = Waits([wk[w] EXCEPT !.disabled = @ - 1], 0, 1, 0)]
    /\ UNCHANGED <<lock, pending, used, conf>>

(* ngx_trylock_accept_mutex succeeds.                                     *)
TurnLocks(w) ==
    /\ wk[w].pc = "loop" /\ Mutex(w) /\ wk[w].disabled <= 0 /\ lock = Nobody
    /\ \/ /\ wk' = [wk EXCEPT ![w] =
                      Waits([wk[w] EXCEPT !.active = IF wk[w].held = 1 THEN @ ELSE Socks,
                                          !.held = 1], 1, 0, 0)]
          /\ lock' = w
          /\ UNCHANGED used
       \/ /\ wk[w].held = 0
          /\ EpollError
          /\ \E S \in SUBSET Socks : S # Socks /\ wk[w].active \subseteq S
                /\ wk' = [wk EXCEPT ![w].active = S, ![w].pc = "tail"]
          /\ UNCHANGED lock
    /\ UNCHANGED <<pending, conf>>

(* It fails: another worker has the mutex.                                *)
TurnFailsListening(w) ==
    /\ wk[w].pc = "loop" /\ Mutex(w) /\ wk[w].disabled <= 0 /\ lock # Nobody
    /\ wk' = [wk EXCEPT ![w] = Waits([wk[w] EXCEPT !.held = 0], 0, 0, 1)]
    /\ UNCHANGED <<lock, pending, used, conf>>

TurnFails(w) ==
    /\ wk[w].pc = "loop" /\ Mutex(w) /\ wk[w].disabled <= 0 /\ lock # Nobody
    /\ \/ /\ wk' = [wk EXCEPT ![w] =
                      Waits([wk[w] EXCEPT !.active = IF wk[w].held = 1 THEN {} ELSE @,
                                          !.held = 0], 0, 0, 1)]
          /\ UNCHANGED used
       \/ /\ wk[w].held = 1
          /\ EpollError
          /\ \E S \in SUBSET wk[w].active : S # {}
                /\ wk' = [wk EXCEPT ![w].active = S, ![w].pc = "tail"]
    /\ UNCHANGED <<lock, pending, conf>>

(* epoll_wait reports the listening sockets that have connections, or     *)
(* returns because of its timeout, a signal or another connection.        *)
Readable(w) == {s \in wk[w].active : pending[s] > 0}

EpollReturns(w) ==
    /\ wk[w].pc = "wait"
    /\ wk' = [wk EXCEPT ![w].pc = "accept", ![w].batch = Readable(w)]
    /\ UNCHANGED <<lock, pending, used, conf>>

-----------------------------------------------------------------------------
(* ngx_event_accept for socket s.  Without NGX_POST_EVENTS it is called   *)
(* from the loop over the events, for those still active.                 *)
Called(w, s) ==
    /\ wk[w].pc = "accept" /\ s \in wk[w].batch
    /\ wk[w].post = 1 \/ s \in wk[w].active

Handles(w, s) == Called(w, s) /\ s \notin wk[w].timedout

SkipInactive(w) ==
    /\ wk[w].pc = "accept" /\ wk[w].post = 0 /\ ~(wk[w].batch \subseteq wk[w].active)
    /\ wk' = [wk EXCEPT ![w].batch = @ \cap wk[w].active]
    /\ UNCHANGED <<lock, pending, used, conf>>

(* ngx_enable_accept_events, if ev->timedout is left from a failure of it.*)
Enable(w, s) ==
    \/ /\ wk' = [wk EXCEPT ![w].timer = @ \ {s}, ![w].timedout = @ \ {s},
                           ![w].active = Socks, ![w].batch = @ \cup {s},
                           ![w].pc = "accept"]
       /\ UNCHANGED used
    \/ /\ EpollError
       /\ \E S \in SUBSET Socks : S # Socks /\ wk[w].active \subseteq S
             /\ wk' = [wk EXCEPT ![w].timer = @ \ {s}, ![w].timedout = @ \cup {s},
                                 ![w].active = S, ![w].batch = @ \ {s}]

EnableAgain(w, s) ==
    /\ Called(w, s) /\ s \in wk[w].timedout
    /\ Enable(w, s)
    /\ UNCHANGED <<lock, pending, conf>>

(* A connection is taken from the kernel.  It gets one of the free        *)
(* connections, or one that was idle; it is closed if there is none, or   *)
(* after it has one, because of a later error.                            *)
AcceptOne(w, s) ==
    /\ Handles(w, s) /\ pending[s] > 0
    /\ pending' = [pending EXCEPT ![s] = @ - 1]
    /\ \E kept \in BOOLEAN :
          wk' = [wk EXCEPT ![w].disabled = Reserve - wk[w].free,
                           ![w].free = IF kept /\ @ > 0 THEN @ - 1 ELSE @,
                           ![w].batch = IF kept /\ conf.multi THEN @ ELSE @ \ {s}]
    /\ UNCHANGED <<lock, used, conf>>

(* EAGAIN; another worker was faster, or multi_accept has taken all.      *)
AcceptAgain(w, s) ==
    /\ Handles(w, s) /\ pending[s] = 0
    /\ wk' = [wk EXCEPT ![w].batch = @ \ {s}]
    /\ UNCHANGED <<lock, pending, used, conf>>

(* ECONNABORTED, or another error of a connection that is lost with it.   *)
AcceptAborted(w, s) ==
    /\ Handles(w, s) /\ pending[s] > 0
    /\ pending' = [pending EXCEPT ![s] = @ - 1]
    /\ \E again \in {conf.multi, FALSE} :
          wk' = [wk EXCEPT ![w].batch = IF again THEN @ ELSE @ \ {s}]
    /\ UNCHANGED <<lock, used, conf>>

(* EMFILE or ENFILE, if pending or not: all listening sockets are taken   *)
(* out of epoll, until the mutex is had again or the timer expires.       *)
NoFilesNoTimer(w, s) ==
    /\ Handles(w, s) /\ MayHappen
    /\ used' = [used EXCEPT !.noFiles = @ + 1]
    /\ IF Mutex(w)
       THEN /\ wk' = [wk EXCEPT ![w].batch = @ \ {s}, ![w].active = {},
                                ![w].held = 0, ![w].disabled = 1]
            /\ lock' = IF wk[w].held = 1 THEN Unlocked(w) ELSE lock
       ELSE /\ wk' = [wk EXCEPT ![w].batch = @ \ {s}, ![w].active = {}]
            /\ UNCHANGED lock
    /\ UNCHANGED <<pending, conf>>

NoFiles(w, s) ==
    /\ Handles(w, s) /\ MayHappen
    /\ used' = [used EXCEPT !.noFiles = @ + 1]
    /\ IF Mutex(w)
       THEN /\ wk' = [wk EXCEPT ![w].batch = @ \ {s}, ![w].active = {},
                                ![w].held = 0, ![w].disabled = 1]
            /\ lock' = IF wk[w].held = 1 THEN Unlocked(w) ELSE lock
       ELSE /\ wk' = [wk EXCEPT ![w].batch = @ \ {s}, ![w].active = {},
                                ![w].timer = @ \cup {s}]
            /\ UNCHANGED lock
    /\ UNCHANGED <<pending, conf>>

(* ngx_disable_accept_events fails and nothing else is done.              *)
NoFilesError(w, s) ==
    /\ Handles(w, s)
    /\ EpollError
    /\ \E S \in SUBSET wk[w].active : S # {}
          /\ wk' = [wk EXCEPT ![w].batch = @ \ {s}, ![w].active = S]
    /\ UNCHANGED <<lock, pending, conf>>

(* All accept events are handled: the mutex is given up, but the sockets  *)
(* stay in epoll and ngx_accept_mutex_held stays set.                     *)
AcceptDone(w) ==
    /\ wk[w].pc = "accept" /\ wk[w].batch = {}
    /\ wk' = [wk EXCEPT ![w].pc = "tail"]
    /\ lock' = IF wk[w].held = 1 THEN Unlocked(w) ELSE lock
    /\ UNCHANGED <<pending, used, conf>>

-----------------------------------------------------------------------------
(* ngx_event_expire_timers for the event of a listening socket:           *)
(* ngx_event_accept with ev->timedout.                                    *)
TimerExpires(w, s) ==
    /\ wk[w].pc = "tail" /\ s \in wk[w].timer
    /\ Enable(w, s)
    /\ UNCHANGED <<lock, pending, conf>>

(* A handler closes a connection: after the unlock, or, without           *)
(* NGX_POST_EVENTS, among the accept events.                              *)
CloseConnection(w) ==
    /\ wk[w].pc = "tail" \/ (wk[w].pc = "accept" /\ wk[w].post = 0)
    /\ wk[w].free < ConnN
    /\ wk' = [wk EXCEPT ![w].free = @ + 1]
    /\ UNCHANGED <<lock, pending, used, conf>>

(* ngx_quit: ngx_close_listening_sockets.                                 *)
QuitTimersLeft(w) ==
    /\ wk[w].pc = "tail" /\ wk[w].exiting = 0
    /\ wk' = [wk EXCEPT ![w].exiting = 1, ![w].held = 0, ![w].active = {}]
    /\ UNCHANGED <<lock, pending, used, conf>>

Quit(w) ==
    /\ wk[w].pc = "tail" /\ wk[w].exiting = 0
    /\ wk' = [wk EXCEPT ![w].exiting = 1, ![w].held = 0, ![w].active = {},
                        ![w].timer = {}]
    /\ UNCHANGED <<lock, pending, used, conf>>

(* The end of a turn of ngx_worker_process_cycle: a worker that is        *)
(* exiting goes once no timer keeps it.                                   *)
TurnEnds(w) ==
    /\ wk[w].pc = "tail"
    /\ wk' = [wk EXCEPT ![w].pc =
                 IF wk[w].exiting = 1 /\ wk[w].free = ConnN /\ wk[w].timer = {}
                 THEN "gone" ELSE "loop"]
    /\ UNCHANGED <<lock, pending, used, conf>>

(* A worker dies; the master takes the mutex away from it and starts      *)
(* another one in its place, unless it was told to quit.                  *)
Crash(w) ==
    /\ wk[w].pc \notin {"dead", "gone"} /\ MayHappen
    /\ used' = [used EXCEPT !.crashes = @ + 1]
    /\ wk' = [wk EXCEPT ![w].pc = "dead", ![w].batch = {}, ![w].active = {}]
    /\ UNCHANGED <<lock, pending, conf>>

Reap(w) ==
    /\ wk[w].pc = "dead"
    /\ lock' = Unlocked(w)
    /\ wk' = [wk EXCEPT ![w] = IF wk[w].exiting = 1
                              THEN [wk[w] EXCEPT !.pc = "gone"] ELSE Started]
    /\ UNCHANGED <<pending, used, conf>>

Arrive(s) ==
    /\ MayHappen
    /\ used' = [used EXCEPT !.arrivals = @ + 1]
    /\ pending' = [pending EXCEPT ![s] = @ + 1]
    /\ UNCHANGED <<lock, wk, conf>>

Turn(w) == TurnPlain(w) \/ TurnSkips(w) \/ TurnLocks(w) \/ TurnFails(w)

Accept(w) ==
    \/ SkipInactive(w) \/ AcceptDone(w)
    \/ \E s \in Socks :
          \/ EnableAgain(w, s) \/ AcceptOne(w, s) \/ AcceptAgain(w, s)
          \/ AcceptAborted(w, s) \/ NoFiles(w, s) \/ NoFilesError(w, s)

WorkerStep(w) ==
    \/ Turn(w) \/ EpollReturns(w) \/ Accept(w)
    \/ (\E s \in Socks : TimerExpires(w, s))
    \/ CloseConnection(w) \/ Quit(w) \/ TurnEnds(w)

Next ==
    \/ \E w \in Workers : WorkerStep(w) \/ Crash(w) \/ Reap(w)
    \/ \E s \in Socks : Arrive(s)

Spec == Init /\ [][Next]_vars

(* Processes run; epoll_wait returns if there is something to report or   *)
(* it has a timeout; timers expire; connections are closed at last; the   *)
(* master reaps.  Nothing makes a client arrive or the master quit.       *)
EpollWakes(w) == (Readable(w) # {} \/ wk[w].bounded = 1) /\ EpollReturns(w)

Goes(w) == Turn(w) \/ EpollWakes(w) \/ Accept(w) \/ TurnEnds(w) \/ Reap(w)

Fairness ==
    \A w \in Workers :
       /\ WF_vars(Goes(w))
       /\ SF_vars(CloseConnection(w))
       /\ SF_vars(\E s \in Socks : TimerExpires(w, s))

FairSpec == Spec /\ Fairness

-----------------------------------------------------------------------------
(* The mutex is held by a worker only from its trylock to the end of its   *)
(* accept events, never while it runs the handlers of connections or after *)
(* it ran out of descriptors; a dead holder is relieved.  And exactly the  *)
(* holder listens: a worker that does has the mutex, or did not try it as  *)
(* ngx_accept_disabled was set; one that has it waits on every socket, as  *)
(* nobody else does.  (Not so after the epoll calls of                     *)
(* ngx_enable_accept_events or ngx_disable_accept_events failed half way.) *)
HolderListens ==
    /\ lock # Nobody => \/ wk[lock].pc \in {"wait", "accept"} /\ wk[lock].held = 1
                        \/ wk[lock].pc = "dead"
    /\ conf.mutex /\ used.epoll = 0 => \A w \in Workers : wk[w].pc = "wait" =>
          /\ wk[w].active # {} /\ wk[w].skipped = 0 => lock = w
          /\ lock = w => wk[w].active = Socks

(* A worker that has closed its listening sockets accepts on none: no     *)
(* timer set for lack of descriptors survives the graceful shutdown.      *)
NoAcceptAfterClose ==
    \A w \in Workers : wk[w].exiting = 1 =>
        wk[w].batch = {} /\ wk[w].active = {} /\ lock # w

(* A client that has connected is accepted, whoever crashes or runs out   *)
(* of descriptors, if some worker is left that is not told to quit.  The  *)
(* exceptions: with the mutex, a worker out of descriptors sets no timer, *)
(* and without another timer all may sleep and none listen; and after an  *)
(* error of epoll_ctl nobody may listen on one of the sockets.            *)
Served ==
    \A s \in Socks : pending[s] > 0 ~>
        \/ pending[s] = 0
        \/ \A w \in Workers : wk[w].exiting = 1
        \/ conf.mutex /\ ~conf.timers /\ used.noFiles > 0
        \/ used.epoll > 0

=============================================================================
