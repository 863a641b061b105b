------------------------------ MODULE Upstream ------------------------------
(***************************************************************************)
(* Requests that are passed to the peers of an upstream                    *)
(* (ngx_http_upstream.c with the proxy module), composed with the balancer *)
(* of RoundRobin, shared by the workers, and with the cache of idle        *)
(* connections each worker has (ngx_http_upstream_keepalive_module.c).     *)
(*                                                                         *)
(* A worker runs one handler at a time (running); a handler is cut into    *)
(* steps where it takes the locks of the group, since other workers go on  *)
(* between them.  The steps that wait for an event start from the event    *)
(* loop.  What a peer and a client do is chosen by the environment.        *)
(***************************************************************************)
EXTENDS RoundRobin

CONSTANTS
    Reqs,         \* requests that may exist at one time
    Conns         \* ngx_connection_t of upstream connections, 1..n

VARIABLES
    req,          \* ngx_http_upstream_t with its balancer data, per request
    conn,         \* the upstream connections
    cache,        \* kcf->cache of each worker, the last used first
    running,      \* the request whose handler each worker is in
    discarded,    \* ngx_rr_discarded_init of each worker
    used          \* the load and the faults so far

vars == <<conf, group, req, conn, cache, running, discarded, used>>

Workers == {1, 2}
NoReq == 0
NoConn == 0

Fresh == [pc |-> "idle", set |-> "main", config |-> 0, tried |-> {},
          slot |-> NoPeer, tries |-> 0, conn |-> NoConn, cached |-> FALSE,
          request_sent |-> FALSE, body_sent |-> FALSE, received |-> FALSE,
          keepalive |-> FALSE, ft |-> "none", seen |-> {}, sent |-> FALSE]

Closed == [addr |-> NoAddr, clean |-> TRUE, eof |-> FALSE]

Worker(r) == conf.worker[r]
InLoop(r) == running[Worker(r)] = NoReq
Runs(r, pc) == running[Worker(r)] = r /\ req[r].pc = pc
Event(r, pcs) == InLoop(r) /\ req[r].pc \in pcs
Idempotent(r) == conf.method[r] # "POST"

Init ==
    /\ GroupInit
    /\ req = [r \in Reqs |-> Fresh]
    /\ conn = [k \in Conns |-> Closed]
    /\ cache = [w \in Workers |-> <<>>]
    /\ running = [w \in Workers |-> NoReq]
    /\ discarded = [w \in Workers |-> FALSE]
    /\ used = [requests |-> 0, resolves |-> 0, crashes |-> 0, checks |-> 0]

(***************************************************************************)
(* The end of a step: the handler goes on at pc, waits at pc for an event, *)
(* or the request is over.                                                 *)
(***************************************************************************)
GoesOn(r, q, pc) ==
    /\ req' = [req EXCEPT ![r] = [q EXCEPT !.pc = pc]]
    /\ running' = [running EXCEPT ![Worker(r)] = r]

Waits(r, q, pc) ==
    /\ req' = [req EXCEPT ![r] = [q EXCEPT !.pc = pc]]
    /\ running' = [running EXCEPT ![Worker(r)] = NoReq]

Ends(r) ==
    /\ req' = [req EXCEPT ![r] = Fresh]
    /\ running' = [running EXCEPT ![Worker(r)] = NoReq]

(***************************************************************************)
(* ngx_http_upstream_init_request() and                                    *)
(* ngx_http_upstream_init_round_robin_peer().                              *)
(***************************************************************************)
Begin(r) ==
    /\ Event(r, {"idle"})
    /\ used.requests < conf.max_requests
    /\ group.lock["main"] # "write"
    /\ LET tries == IF conf.max_tries > 0 THEN Min({conf.max_tries, Tries(group)})
                    ELSE Tries(group)
       IN  GoesOn(r, [Fresh EXCEPT !.config = group.config, !.tries = tries], "get")
    /\ used' = [used EXCEPT !.requests = @ + 1]
    /\ UNCHANGED <<conf, group, conn, cache, discarded>>

(***************************************************************************)
(* ngx_http_upstream_connect(): the balancer is asked for a peer, under    *)
(* the write lock of the set.  If the peers have changed since the request *)
(* began, or no peer can be had, there are "no live upstreams": next() is  *)
(* called with a reason that no configuration lists and ends the request.  *)
(***************************************************************************)
Asking(r) == Runs(r, "get") /\ group.lock[req[r].set] = "free"
CurrentAlways(r) == req[r].config <= group.config
Current(r) == req[r].config = group.config

(***************************************************************************)
(* A search that fails among the backup peers takes the lock of the main   *)
(* set again.                                                              *)
(***************************************************************************)
Relocks(r) == req[r].set = "backup" => group.lock["main"] = "free"

GetBusy(r) ==
    /\ Asking(r)
    /\ Relocks(r)
    /\ ~Current(r)
    /\ Ends(r)
    /\ UNCHANGED <<conf, group, conn, cache, discarded, used>>

(***************************************************************************)
(* The answers the balancer may give: the first choice of a worker in a    *)
(* set with weights is preceded by a random number of rounds.              *)
(***************************************************************************)
Answers(r) ==
    LET k == req[r].set
        n == Len(group.set[k].list)
        first == ~discarded[Worker(r)] /\ n > 0 /\ group.set[k].weighted
        draws == IF group.set[k].init_number = Unset THEN 1..n ELSE {1}
    IN  IF OnlyPeer(group, k) THEN {GetSingle(group)}
        ELSE UNION {GetPeer(g, k, req[r].tried, d) : d \in draws \cup {1},
                      g \in IF first THEN UNION {Discard(group, k, d) : d \in draws}
                            ELSE {group}}

Discards(r) ==
    discarded' = [discarded EXCEPT ![Worker(r)] =
                    \/ @
                    \/ /\ ~OnlyPeer(group, req[r].set)
                       /\ group.set[req[r].set].list # <<>>
                       /\ group.set[req[r].set].weighted]

(***************************************************************************)
(* ngx_http_upstream_get_keepalive_peer(): the connection to the address   *)
(* of the peer that was used last.                                         *)
(***************************************************************************)
Suitable(w, a) == SelectInSeq(cache[w], LAMBDA k : conn[k].addr = a)
Without(seq, i) == [j \in 1..(Len(seq) - 1) |-> IF j < i THEN seq[j] ELSE seq[j + 1]]

GetPeerOk(r) ==
    /\ Asking(r)
    /\ Current(r)
    /\ \E x \in Answers(r) :
         LET w == Worker(r)
             hit == Suitable(w, x.g.peer[x.slot].addr)
         IN  /\ x.slot # NoPeer
             /\ group' = x.g
             /\ cache' = IF hit = 0 THEN cache
                         ELSE [cache EXCEPT ![w] = Without(@, hit)]
             /\ GoesOn(r, [req[r] EXCEPT
                             !.slot = x.slot, !.cached = hit # 0,
                             !.tried = IF x.pos = Unset THEN @ ELSE @ \cup {x.pos},
                             !.seen = @ \cup {x.slot},
                             !.conn = IF hit = 0 THEN NoConn ELSE cache[w][hit]],
                       "connect")
    /\ Discards(r)
    /\ UNCHANGED <<conf, conn, used>>

(***************************************************************************)
(* No peer of the set can be used: the backup peers are asked, under their *)
(* own lock, or the request ends.                                          *)
(***************************************************************************)
GetFailed(r) ==
    /\ Asking(r)
    /\ Current(r)
    /\ Relocks(r)
    /\ \E x \in Answers(r) : x.slot = NoPeer /\ group' = x.g
    /\ IF req[r].set = "main" /\ conf.has_backup
       THEN GoesOn(r, [req[r] EXCEPT !.set = "backup", !.tried = {},
                                     !.seen = {}, !.cached = FALSE], "get")
       ELSE Ends(r)
    /\ Discards(r)
    /\ UNCHANGED <<conf, conn, cache, used>>

(***************************************************************************)
(* The rest of ngx_http_upstream_connect().  Prepared is the state of the  *)
(* request once it has a connection: what an earlier peer left is reset.   *)
(***************************************************************************)
ReinitKept(q) == q
Reinit(q) == [q EXCEPT !.keepalive = FALSE]

Prepared(q) ==
    LET again == q.request_sent \/ q.received
    IN  [(IF again THEN Reinit(q) ELSE q) EXCEPT
           !.request_sent = FALSE, !.body_sent = FALSE, !.received = FALSE]

ConnectError(r) ==
    /\ Runs(r, "connect")
    /\ ~req[r].cached
    /\ GoesOn(r, req[r], "finalize")
    /\ UNCHANGED <<conf, group, conn, cache, discarded, used>>

ConnectDeclined(r) ==
    /\ Runs(r, "connect")
    /\ ~req[r].cached
    /\ GoesOn(r, [req[r] EXCEPT !.ft = "error"], "next")
    /\ UNCHANGED <<conf, group, conn, cache, discarded, used>>

ConnectBegins(r) ==
    /\ Runs(r, "connect")
    /\ ~req[r].cached
    /\ \E k \in Conns :
         /\ conn[k] = Closed
         /\ \A j \in Conns : conn[j] = Closed => k <= j
         /\ conn' = [conn EXCEPT ![k].addr = group.peer[req[r].slot].addr]
         /\ Waits(r, [Prepared(req[r]) EXCEPT !.conn = k], "connecting")
    /\ UNCHANGED <<conf, group, cache, discarded, used>>

(***************************************************************************)
(* ngx_http_upstream_send_request(), at once on a cached connection or     *)
(* when the connection is there: the connection is broken, or the request  *)
(* is sent (its body wholly or in part), or sending fails.                 *)
(***************************************************************************)
Sending(r) == \/ Runs(r, "connect") /\ req[r].cached
              \/ Event(r, {"connecting"})
Ready(r) == IF req[r].cached /\ req[r].pc = "connect" THEN Prepared(req[r]) ELSE req[r]

Broken(r) ==
    /\ Sending(r)
    /\ \E ft \in {"error", "timeout"} :
         /\ ft = "timeout" => req[r].pc = "connecting"
         /\ GoesOn(r, [Ready(r) EXCEPT !.ft = ft], "next")
    /\ UNCHANGED <<conf, group, conn, cache, discarded, used>>

Send(r) ==
    /\ Sending(r)
    /\ \E whole \in {TRUE, ~conf.bodies} :
         Waits(r, [Ready(r) EXCEPT !.request_sent = TRUE, !.body_sent = whole,
                                   !.sent = TRUE], "header")
    /\ conn' = [conn EXCEPT ![req[r].conn].clean = FALSE]
    /\ UNCHANGED <<conf, group, cache, discarded, used>>

SendFails(r) ==
    /\ Sending(r)
    /\ GoesOn(r, [Ready(r) EXCEPT !.request_sent = TRUE, !.sent = TRUE,
                                  !.ft = "error"], "next")
    /\ conn' = [conn EXCEPT ![req[r].conn].clean = FALSE]
    /\ UNCHANGED <<conf, group, cache, discarded, used>>

(***************************************************************************)
(* The rest of the body is sent on while the header is not there: the      *)
(* proxy module does not set preserve_output.                              *)
(***************************************************************************)
SendRest(r) ==
    /\ Event(r, {"header"})
    /\ ~req[r].body_sent
    /\ Waits(r, [req[r] EXCEPT !.body_sent = TRUE], "header")
    /\ UNCHANGED <<conf, group, conn, cache, discarded, used>>

(***************************************************************************)
(* ngx_http_upstream_process_header(): the peer is too slow, closes the    *)
(* connection or sends no valid header ...                                 *)
(***************************************************************************)
HeaderFails(r) ==
    /\ Event(r, {"header"})
    /\ \E ft \in {"timeout", "error", "invalid_header"} :
         GoesOn(r, [req[r] EXCEPT !.ft = ft,
                                  !.received = @ \/ ft = "invalid_header"], "next")
    /\ UNCHANGED <<conf, group, conn, cache, discarded, used>>

(***************************************************************************)
(* ... or sends a header.  A response without a body is whole with its     *)
(* header, and sets u->keepalive unless the peer closes the connection.    *)
(* ngx_http_upstream_test_next() passes an error on to the next peer, if   *)
(* one is left (late: next_upstream_timeout is over).                      *)
(***************************************************************************)
Types(r, ft) == {ft} \cup (IF req[r].request_sent /\ ~Idempotent(r)
                           THEN {"non_idempotent"} ELSE {})
Resendable(r, ft) ==
    /\ Types(r, ft) \subseteq conf.next
    /\ ~ (req[r].request_sent /\ conf.unbuffered)

Header(r) ==
    /\ Event(r, {"header"})
    /\ \E status \in conf.statuses,
          empty, stays, late \in BOOLEAN :
         LET q == [req[r] EXCEPT !.received = TRUE,
                                 !.keepalive = IF empty THEN stays ELSE @]
         IN  /\ late => conf.timeout
             /\ stays => empty /\ conf.max_cached > 0
             /\ conn' = [conn EXCEPT ![q.conn].clean = empty /\ q.body_sent]
             /\ IF /\ status # "http_200"
                   /\ q.tries > 1
                   /\ Resendable(r, status)
                   /\ ~late
                THEN GoesOn(r, [q EXCEPT !.ft = status], "next")
                ELSE IF empty THEN GoesOn(r, q, "finalize")
                ELSE Waits(r, q, "body")
    /\ UNCHANGED <<conf, group, cache, discarded, used>>

(***************************************************************************)
(* The body: ngx_http_proxy_copy_filter() and the chunked filter see its   *)
(* end, or the peer fails.                                                 *)
(***************************************************************************)
BodyEnds(r) ==
    /\ Event(r, {"body"})
    /\ \E stays \in {FALSE, conf.max_cached > 0} :
         GoesOn(r, [req[r] EXCEPT !.keepalive = stays], "finalize")
    /\ conn' = [conn EXCEPT ![req[r].conn].clean = req[r].body_sent]
    /\ UNCHANGED <<conf, group, cache, discarded, used>>

BodyFails(r) ==
    /\ Event(r, {"body"})
    /\ GoesOn(r, req[r], "finalize")
    /\ conn' = [conn EXCEPT ![req[r].conn].eof = TRUE]
    /\ UNCHANGED <<conf, group, cache, discarded, used>>

(***************************************************************************)
(* The client closes the connection                                        *)
(* (ngx_http_upstream_check_broken_connection), or a body that is not      *)
(* buffered cannot be read from it (ngx_http_upstream_send_request).       *)
(***************************************************************************)
Abort(r) ==
    /\ Event(r, {"connecting", "header", "body"})
    /\ GoesOn(r, req[r], "finalize")
    /\ UNCHANGED <<conf, group, conn, cache, discarded, used>>

(***************************************************************************)
(* ngx_http_upstream_free_keepalive_peer(): a connection that may be used  *)
(* again goes to the cache (fits: keepalive_requests and keepalive_time    *)
(* allow it and the worker is not exiting).  If there is no free item the  *)
(* connection that was idle longest makes room.  Otherwise the caller      *)
(* closes the connection.                                                  *)
(***************************************************************************)
Saves(q, failed, fits) ==
    /\ ~failed
    /\ q.conn # NoConn
    /\ ~conn[q.conn].eof
    /\ q.keepalive
    /\ q.body_sent
    /\ fits
    /\ conf.max_cached > 0

Close(cs) == conn' = [k \in Conns |-> IF k \in cs THEN Closed ELSE conn[k]]

FreeConnection(r, failed, fits) ==
    LET q == req[r]
        old == cache[Worker(r)]
        full == Len(old) = conf.max_cached
    IN  IF Saves(q, failed, fits)
        THEN /\ cache' = [cache EXCEPT ![Worker(r)] =
                            <<q.conn>> \o (IF full THEN Front(old) ELSE old)]
             /\ Close(IF full THEN {Last(old)} ELSE {})
        ELSE /\ Close({q.conn})
             /\ UNCHANGED cache

(***************************************************************************)
(* The locks to give the peer back: the read lock of the set, and the lock *)
(* of the peer.                                                            *)
(***************************************************************************)
MayFree(r) ==
    /\ group.lock[req[r].set] # "write"
    /\ req[r].slot \notin group.dead

(***************************************************************************)
(* ngx_http_upstream_next(): the peer is given back, and the next one is   *)
(* asked for unless the request may not be passed on (over: the client is  *)
(* gone, or next_upstream_timeout is over).  A try on a cached connection  *)
(* that was broken does not count.                                         *)
(***************************************************************************)
CountedOnce(r) ==
    LET q == req[r]
        freed == IF OnlyPeer(group, q.set) THEN q.tries ELSE Max({0, q.tries - 1})
    IN  IF q.cached /\ q.ft = "error" /\ conf.retry_cached THEN q.tries ELSE freed

Counted(r) ==
    LET q == req[r]
        freed == IF OnlyPeer(group, q.set) THEN 0 ELSE Max({0, q.tries - 1})
    IN  IF q.cached /\ q.ft = "error" /\ conf.retry_cached THEN freed + 1 ELSE freed

NextPeer(r) ==
    /\ Runs(r, "next")
    /\ MayFree(r)
    /\ \E fits, over \in BOOLEAN :
         LET q == req[r]
             failed == q.ft # "http_404"
         IN  /\ fits => q.keepalive
             /\ group' = FreePeer(group, q.set, q.slot, failed)
             /\ FreeConnection(r, failed, fits)
             /\ IF Counted(r) = 0 \/ ~Resendable(r, q.ft) \/ over
                THEN Ends(r)
                ELSE GoesOn(r, [q EXCEPT !.tries = Counted(r), !.slot = NoPeer,
                                         !.conn = NoConn, !.cached = FALSE,
                                         !.ft = "none"], "get")
    /\ UNCHANGED <<conf, discarded, used>>

(***************************************************************************)
(* ngx_http_upstream_finalize_request().                                   *)
(***************************************************************************)
Finalize(r) ==
    /\ Runs(r, "finalize")
    /\ MayFree(r)
    /\ \E fits \in BOOLEAN :
         /\ fits => req[r].keepalive
         /\ group' = FreePeer(group, req[r].set, req[r].slot, FALSE)
         /\ FreeConnection(r, FALSE, fits)
    /\ Ends(r)
    /\ UNCHANGED <<conf, discarded, used>>

(***************************************************************************)
(* ngx_http_upstream_keepalive_close_handler(): the peer closed a cached   *)
(* connection or sent something, or keepalive_timeout is over.             *)
(***************************************************************************)
CacheClose(w) ==
    /\ running[w] = NoReq
    /\ \E i \in DOMAIN cache[w] :
         /\ Close({cache[w][i]})
         /\ cache' = [cache EXCEPT ![w] = Without(@, i)]
    /\ UNCHANGED <<conf, group, req, running, discarded, used>>

(***************************************************************************)
(* The name of the servers is resolved anew, in worker 1.                  *)
(***************************************************************************)
Resolve ==
    /\ running[1] = NoReq
    /\ used.resolves < conf.max_resolves
    /\ group.lock["main"] = "free"
    /\ \E answer \in conf.answers : group' = Resolved(group, answer)
    /\ used' = [used EXCEPT !.resolves = @ + 1]
    /\ UNCHANGED <<conf, req, conn, cache, running, discarded>>

(***************************************************************************)
(* fail_timeout passes since a peer was checked.                           *)
(***************************************************************************)
FailTimeout(s) ==
    /\ conf.ticks
    /\ group.peer[s].recent
    /\ group' = [group EXCEPT !.peer[s].recent = FALSE]
    /\ UNCHANGED <<conf, req, conn, cache, running, discarded, used>>

(***************************************************************************)
(* The health checks of some worker find that a peer went down or is back: *)
(* ngx_http_upstream_check_status_update(), without the locks of the       *)
(* group.                                                                  *)
(***************************************************************************)
Checked(a) ==
    /\ used.checks < conf.max_checks
    /\ group' = [group EXCEPT !.sick = IF a \in @ THEN @ \ {a} ELSE @ \cup {a}]
    /\ used' = [used EXCEPT !.checks = @ + 1]
    /\ UNCHANGED <<conf, req, conn, cache, running, discarded>>

(***************************************************************************)
(* A worker dies: its requests and connections are gone, the references of *)
(* the requests stay.  If it dies inside of a critical section (stuck) the *)
(* locks stay, too.                                                        *)
(***************************************************************************)
Holding(w) ==
    IF running[w] # NoReq THEN req[running[w]].pc
    ELSE IF w = 1 /\ conf.max_resolves > 0 THEN "resolve" ELSE "loop"

Stuck(g, w) ==
    LET q == req[running[w]]
    IN  CASE Holding(w) = "resolve" -> [g EXCEPT !.lock["main"] = "write"]
          [] Holding(w) = "get" -> [g EXCEPT !.lock[q.set] = "write"]
          [] Holding(w) \in {"next", "finalize"} ->
               [g EXCEPT !.lock[q.set] = "read", !.dead = @ \cup {q.slot}]

MayStick(w) ==
    CASE Holding(w) = "resolve" -> group.lock["main"] = "free"
      [] Holding(w) = "get" -> Asking(running[w])
      [] Holding(w) \in {"next", "finalize"} -> MayFree(running[w])
      [] OTHER -> FALSE

Crash(w) ==
    LET gone == {r \in Reqs : Worker(r) = w /\ req[r].pc # "idle"}
        held(s) == Cardinality({r \in gone : req[r].slot = s})
        left == [group EXCEPT !.peer =
                   [s \in Slots |-> [@[s] EXCEPT !.lost = @ + held(s)]]]
    IN  /\ used.crashes < conf.max_crashes
        /\ \E stuck \in BOOLEAN :
             /\ stuck => MayStick(w)
             /\ group' = IF stuck THEN Stuck(left, w) ELSE left
        /\ req' = [r \in Reqs |-> IF r \in gone THEN Fresh ELSE req[r]]
        /\ Close(ToSet(cache[w]) \cup {req[r].conn : r \in gone})
        /\ cache' = [cache EXCEPT ![w] = <<>>]
        /\ running' = [running EXCEPT ![w] = NoReq]
        /\ discarded' = [discarded EXCEPT ![w] = FALSE]
        /\ used' = [used EXCEPT !.crashes = @ + 1]
        /\ UNCHANGED conf

Request(r) ==
    \/ GetBusy(r) \/ GetPeerOk(r) \/ GetFailed(r)
    \/ ConnectError(r) \/ ConnectDeclined(r) \/ ConnectBegins(r)
    \/ Broken(r) \/ Send(r) \/ SendFails(r) \/ SendRest(r)
    \/ HeaderFails(r) \/ Header(r) \/ BodyEnds(r) \/ BodyFails(r)
    \/ Abort(r) \/ NextPeer(r) \/ Finalize(r)

Next ==
    \/ \E r \in Reqs : Begin(r) \/ Request(r)
    \/ \E w \in Workers : CacheClose(w) \/ Crash(w)
    \/ Resolve
    \/ \E s \in Slots : FailTimeout(s)
    \/ \E a \in ToSet(conf.main) : Checked(a)

Spec == Init /\ [][Next]_vars

(***************************************************************************)
(* Every wait of a request has a timer (connect, send and read timeouts),  *)
(* and the event loop serves every event.                                  *)
(***************************************************************************)
FairSpec == Spec /\ \A r \in Reqs : WF_vars(Request(r))

-----------------------------------------------------------------------------
Holders(s) == Cardinality({r \in Reqs : req[r].slot = s})

(***************************************************************************)
(* A request that has a peer finds it in memory until it gives it back,    *)
(* although names are resolved anew meanwhile: refs and conns count the    *)
(* requests (and what dead workers took with them), a peer that is in no   *)
(* set is in memory only while it is counted, and conns stays within       *)
(* max_conns.                                                              *)
(***************************************************************************)
PeersHeld ==
    \A s \in Slots :
      LET p == group.peer[s]
          in == Listed(group, "main") \cup Listed(group, "backup")
      IN  /\ p.refs = Holders(s) + p.lost
          /\ p.conns = p.refs
          /\ Used(s) <=> s \in in \/ (p.zombie /\ p.refs > 0)
          /\ s \in in => ~p.zombie
          /\ conf.max_conns > 0 => p.conns <= conf.max_conns

Owners(k) == {r \in Reqs : req[r].conn = k}

(***************************************************************************)
(* Every open connection has one owner: a request, or the cache of one     *)
(* worker.  A request uses a connection to the address of its peer, also   *)
(* if it comes from the cache, and what is in the cache is clean: all of   *)
(* the requests sent on it were sent wholly, and their responses read, so  *)
(* that no request reads the response to an earlier one.                   *)
(***************************************************************************)
ConnsOwned ==
    /\ \A k \in Conns :
         LET places == {x \in Workers \X (1..conf.max_cached) :
                          x[2] <= Len(cache[x[1]]) /\ cache[x[1]][x[2]] = k}
             n == Cardinality(Owners(k)) + Cardinality(places)
         IN  /\ n = IF conn[k].addr = NoAddr THEN 0 ELSE 1
             /\ places # {} => conn[k].clean /\ ~conn[k].eof
    /\ \A r \in Reqs :
         req[r].conn # NoConn => conn[req[r].conn].addr = group.peer[req[r].slot].addr
    /\ \A w \in Workers : Len(cache[w]) <= conf.max_cached

(***************************************************************************)
(* A request is given another peer only if that peer of the set has not    *)
(* failed it before (positions in the bitmap of tried peers stand for the  *)
(* same peers as long as the set is unchanged), but for a group of one     *)
(* peer, which is asked again when a cached connection was broken.  And a  *)
(* request that is not idempotent, or whose body is not buffered, gets     *)
(* another peer only if nothing of it was sent.                            *)
(***************************************************************************)
NextIsNew ==
    [][\A r \in Reqs :
         req[r].slot = NoPeer /\ req'[r].slot # NoPeer =>
           /\ req'[r].slot \notin req[r].seen \/ group.single
           /\ req[r].sent => /\ Idempotent(r) \/ "non_idempotent" \in conf.next
                             /\ ~conf.unbuffered]_vars

LocksFree == group.lock = [k \in Sets |-> "free"] /\ group.dead = {}

(***************************************************************************)
(* Requests end: each is answered or given up after finitely many peers,   *)
(* unless a worker died while it held a lock of the group.                 *)
(***************************************************************************)
RequestsFinish == []<>(LocksFree => \A r \in Reqs : req[r].pc = "idle")
=============================================================================
