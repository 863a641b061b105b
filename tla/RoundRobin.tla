----------------------------- MODULE RoundRobin -----------------------------
(***************************************************************************)
(* The peers of an upstream in a shared memory zone: the round robin       *)
(* balancer (ngx_http_upstream_round_robin.c) and the re-resolution of     *)
(* names (ngx_http_upstream_zone_module.c), which removes and adds peers   *)
(* while requests use them.                                                *)
(*                                                                         *)
(* The workers enter the group under ngx_rwlock_t locks: the write lock of *)
(* a set to choose a peer or to change the set, its read lock with the     *)
(* lock of the peer to give a peer back.  A critical section is one step,  *)
(* so a lock is seen as taken only when its owner died in the section:     *)
(* nothing ever releases it then (ngx_unlock_mutexes knows the mutexes of  *)
(* the slab pools only).                                                   *)
(*                                                                         *)
(* checked and accessed are compared with the clock and with each other    *)
(* only: recent is now - checked <= fail_timeout, probed is                *)
(* accessed < checked.  Positions in a set count from 1.                   *)
(***************************************************************************)
EXTENDS Integers, Sequences, FiniteSets, SequencesExt, FiniteSetsExt

CONSTANTS
    Slots,        \* chunks of the slab pool that can hold a peer, 1..n
    Confs         \* the configurations to start from

VARIABLES
    conf,         \* the configuration and the load
    group         \* ngx_http_upstream_rr_peers_t, the peers and the locks

Sets == {"main", "backup"}
NoPeer == 0                        \* NULL
NoAddr == "none"
Unset == 0                         \* NGX_CONF_UNSET_UINT, positions are 1..n

(***************************************************************************)
(* ngx_http_upstream_rr_peer_t.  lost counts the references of requests    *)
(* whose worker died (it exists in the model only).                        *)
(***************************************************************************)
NewPeer(a) == [addr |-> a, weight |-> conf.weight[a], current |-> 0,
               effective |-> conf.weight[a], conns |-> 0, fails |-> 0,
               refs |-> 0, recent |-> FALSE, probed |-> FALSE,
               zombie |-> FALSE, lost |-> 0]

FreeSlot == [addr |-> NoAddr, weight |-> 0, current |-> 0, effective |-> 0,
             conns |-> 0, fails |-> 0, refs |-> 0, recent |-> FALSE,
             probed |-> FALSE, zombie |-> FALSE, lost |-> 0]

NewSet(list, weighted) ==
    [list |-> list, weighted |-> weighted, last_peer |-> NoPeer,
     last_number |-> Unset, last_config |-> 0, init_number |-> Unset]

Heavy(peer, list) == MapThenSumSet(LAMBDA s : peer[s].weight, ToSet(list)) # Len(list)

(***************************************************************************)
(* set_single(): one peer, and no backup peers.                            *)
(***************************************************************************)
Single(g) == Len(g.set.main.list) = 1 /\ g.set.backup.list = <<>>

GroupInit ==
    /\ conf \in Confs
    /\ LET all == conf.main \o conf.backup
           peer == [s \in Slots |-> IF s <= Len(all) THEN NewPeer(all[s]) ELSE FreeSlot]
           main == [i \in 1..Len(conf.main) |-> i]
           backup == [i \in 1..Len(conf.backup) |-> Len(conf.main) + i]
           g == [peer |-> peer,
                 set |-> [main |-> NewSet(main, Heavy(peer, main)),
                          backup |-> NewSet(backup, Heavy(peer, backup))],
                 config |-> 0, single |-> FALSE,
                 lock |-> [k \in Sets |-> "free"], dead |-> {}, sick |-> {}]
       IN  group = [g EXCEPT !.single = Single(g)]

Used(s) == group.peer[s].addr # NoAddr
Listed(g, k) == ToSet(g.set[k].list)
Pos(list, s) == CHOOSE i \in DOMAIN list : list[i] = s
Wrap(i, n) == ((i - 1) % n) + 1

Tries(g) == Cardinality({s \in Listed(g, "main") \cup Listed(g, "backup") :
                           g.peer[s].addr \notin conf.down})

(***************************************************************************)
(* ngx_http_upstream_check_peer_down(): the health checks, if they are     *)
(* configured, found the address down (sick).                              *)
(***************************************************************************)
Usable(g, p) ==
    /\ p.addr \notin conf.down
    /\ p.addr \notin g.sick
    /\ ~ (conf.max_fails > 0 /\ p.fails >= conf.max_fails /\ p.recent)
    /\ ~ (conf.max_conns > 0 /\ p.conns >= conf.max_conns)

(***************************************************************************)
(* The scan of ngx_http_upstream_get_peer() starts at a position and, on   *)
(* its own, at a peer.  init_number is drawn once (drawn) and brought back *)
(* into range; a set without weights goes on after the last peer it chose  *)
(* while the set is unchanged.                                             *)
(***************************************************************************)
Drawn(set, drawn) ==
    LET n == Len(set.list)
    IN  IF set.init_number = Unset THEN drawn ELSE Wrap(set.init_number, n)

LastValid(g, k) ==
    LET set == g.set[k]
    IN  /\ set.last_peer # NoPeer
        /\ set.last_number <= Len(set.list)
        /\ set.last_config = g.config
        /\ set.last_peer # Last(set.list)

Start(g, k, init) ==
    LET set == g.set[k]
        at(i) == [pos |-> i, slot |-> set.list[i]]
    IN  IF set.weighted \/ set.last_number = Unset THEN at(init)
        ELSE IF LastValid(g, k)
        THEN [pos |-> Wrap(set.last_number + 1, Len(set.list)),
              slot |-> set.list[Pos(set.list, set.last_peer) + 1]]
        ELSE at(1)

Ring(list, start) ==
    LET n == Len(list)
        first == Pos(list, start.slot)
    IN  [j \in 1..n |-> [pos |-> Wrap(start.pos + j - 1, n),
                         slot |-> list[Wrap(first + j - 1, n)]]]

Scan(g, k, tried, start) ==
    SelectSeq(Ring(g.set[k].list, start),
              LAMBDA x : x.pos \notin tried /\ Usable(g, g.peer[x.slot]))

(***************************************************************************)
(* One round of smooth weights among the peers of a scan: each gains its   *)
(* effective weight, the best gives back the sum.  With recover, effective *)
(* weights that failures lowered grow back.                                *)
(***************************************************************************)
Gain(peer, x) == peer[x.slot].current + peer[x.slot].effective

Best(peer, scan) ==
    scan[CHOOSE j \in DOMAIN scan :
           /\ \A i \in DOMAIN scan : Gain(peer, scan[i]) <= Gain(peer, scan[j])
           /\ \A i \in 1..(j - 1) : Gain(peer, scan[i]) < Gain(peer, scan[j])]

Round(peer, scan, best, recover) ==
    LET total == FoldLeft(LAMBDA sum, x : sum + peer[x.slot].effective, 0, scan)
        after(p) == [p EXCEPT !.current = @ + p.effective,
                              !.effective = IF recover /\ @ < p.weight
                                            THEN @ + 1 ELSE @]
    IN  [s \in Slots |->
           CASE s = best -> [after(peer[s]) EXCEPT !.current = @ - total]
             [] s # best /\ (\E j \in DOMAIN scan : scan[j].slot = s) -> after(peer[s])
             [] OTHER -> peer[s]]

(***************************************************************************)
(* The groups that ngx_http_upstream_adapte_rr_peer_weight(), called one   *)
(* to number times, may leave: rounds among all the peers of the set.      *)
(***************************************************************************)
Discard(g, k, drawn) ==
    LET set == g.set[k]
        n == Len(set.list)
        init == IF set.init_number = Unset THEN drawn ELSE set.init_number
        begin == Wrap(init, n)
        ring == Ring(set.list, [pos |-> begin, slot |-> set.list[begin]])
        after[i \in 0..n] ==
            IF i = 0 THEN {g.peer}
            ELSE {Round(p, ring, Best(p, ring).slot, FALSE) : p \in after[i - 1]}
    IN  {[g EXCEPT !.peer = p, !.set[k].init_number = init] :
           p \in UNION {after[i] : i \in 1..n}}

(***************************************************************************)
(* A peer is chosen: the request refers to it and has a connection, and    *)
(* the first choice after fail_timeout is the probe of the peer.           *)
(***************************************************************************)
Taken(p) == [p EXCEPT !.refs = @ + 1, !.conns = @ + 1]
Probing(p) == IF p.recent THEN p
              ELSE [p EXCEPT !.recent = TRUE, !.probed = TRUE]

(***************************************************************************)
(* ngx_http_upstream_get_peer(): a peer of the set that was not tried yet. *)
(***************************************************************************)
NotFound(g) == [g |-> g, slot |-> NoPeer, pos |-> Unset]

Chosen(g, k, x, scan) ==
    LET peer == IF g.set[k].weighted THEN Round(g.peer, scan, x.slot, TRUE) ELSE g.peer
        last == [g.set[k] EXCEPT !.last_peer = x.slot, !.last_number = x.pos,
                                 !.last_config = g.config]
    IN  [g |-> [g EXCEPT !.set[k] = IF @.weighted THEN @ ELSE last,
                         !.peer = [peer EXCEPT ![x.slot] = Taken(Probing(@))]],
         slot |-> x.slot, pos |-> x.pos]

Picked(g, k, scan) ==
    IF scan = <<>> THEN {NotFound(g)}
    ELSE {Chosen(g, k, x, scan) :
            x \in {IF g.set[k].weighted THEN Best(g.peer, scan) ELSE Head(scan)}}

GetPeer(g, k, tried, drawn) ==
    IF g.set[k].list = <<>> THEN {NotFound(g)}
    ELSE LET init == Drawn(g.set[k], drawn)
         IN  UNION {Picked([g EXCEPT !.set[k].init_number = init], k, scan) :
                      scan \in {Scan(g, k, tried, Start(g, k, init))}}

(***************************************************************************)
(* The peer of a group that has one: its failures are not looked at.       *)
(***************************************************************************)
GetSingle(g) ==
    LET s == g.set.main.list[1]
        full == conf.max_conns > 0 /\ g.peer[s].conns >= conf.max_conns
    IN  IF g.peer[s].addr \in conf.down \cup g.sick \/ full THEN NotFound(g)
        ELSE [g |-> [g EXCEPT !.peer[s] = Taken(@)], slot |-> s, pos |-> Unset]

(***************************************************************************)
(* ngx_http_upstream_free_round_robin_peer_locked() and                    *)
(* ngx_http_upstream_rr_peer_unref(): failures count, a success ends them  *)
(* if it answers a probe, and the last reference to a peer that was        *)
(* removed frees it.  fails is compared with max_fails only, and capped.   *)
(***************************************************************************)
OnlyPeer(g, k) == k = "main" /\ g.single

Judged(g, k, p, failed) ==
    CASE OnlyPeer(g, k) -> [p EXCEPT !.fails = 0]
      [] ~OnlyPeer(g, k) /\ failed ->
           [p EXCEPT !.fails = Min({@ + 1, conf.max_fails + 1}),
                     !.recent = TRUE, !.probed = FALSE,
                     !.effective = IF conf.max_fails = 0 THEN @
                       ELSE Max({0, @ - (p.weight \div conf.max_fails)})]
      [] OTHER -> [p EXCEPT !.fails = IF p.probed THEN 0 ELSE @]

Unref(p) ==
    IF p.refs = 1 /\ p.zombie THEN FreeSlot
    ELSE [p EXCEPT !.refs = @ - 1, !.conns = @ - 1]

FreePeer(g, k, s, failed) ==
    [g EXCEPT !.peer[s] = Unref(Judged(g, k, @, failed))]

(***************************************************************************)
(* ngx_http_upstream_zone_remove_peer_locked(): the peer leaves the set;   *)
(* while requests refer to it it stays in memory as a zombie.              *)
(***************************************************************************)
DroppedAtOnce(p) == FreeSlot
Dropped(p) == IF p.refs > 0 THEN [p EXCEPT !.zombie = TRUE] ELSE FreeSlot

RemovePeer(g, s) ==
    LET set == g.set.main
        kept == [set EXCEPT !.list = SelectSeq(@, LAMBDA t : t # s)]
        left == [g EXCEPT
                   !.set.main = IF set.last_peer = s
                                THEN [kept EXCEPT !.last_peer = NoPeer,
                                                  !.last_number = Unset]
                                ELSE kept,
                   !.config = @ + 1,
                   !.peer[s] = Dropped(@)]
    IN  [left EXCEPT !.single = Single(left),
                     !.set.main.weighted = Heavy(g.peer, kept.list)]

AddPeer(g, a) ==
    LET free == {s \in Slots : g.peer[s].addr = NoAddr}
        more == [g EXCEPT !.peer[Min(free)] = NewPeer(a),
                          !.set.main.list = Append(@, Min(free)),
                          !.config = @ + 1]
    IN  IF free = {} THEN g ELSE
        [more EXCEPT !.single = Single(more),
                     !.set.main.weighted = Heavy(more.peer, more.set.main.list)]

(***************************************************************************)
(* ngx_http_upstream_zone_resolve_handler(): the peers of the main set     *)
(* whose address is not in the answer go, new addresses are added at the   *)
(* end while there is memory.                                              *)
(***************************************************************************)
Resolved(g, answer) ==
    LET gone == SelectSeq(g.set.main.list,
                          LAMBDA s : g.peer[s].addr \notin ToSet(answer))
        left == FoldLeft(RemovePeer, g, gone)
        new == SelectSeq(answer, LAMBDA a :
                 \A s \in Listed(left, "main") : left.peer[s].addr # a)
    IN  FoldLeft(AddPeer, left, new)
=============================================================================
