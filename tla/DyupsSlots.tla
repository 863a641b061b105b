----------------------------- MODULE DyupsSlots -----------------------------
(***************************************************************************)
(* The upstream list of one worker, as the dyups module keeps it           *)
(* (dy_upstreams, and the tree umcf->rbtree in which requests look an      *)
(* upstream up by name, as in the default build), while requests run.      *)
(*                                                                         *)
(* A dynamic upstream lives in a memory pool of its own.  Requests, and    *)
(* the connections to servers they leave in the keepalive cache, use that  *)
(* memory after the upstream was deleted or replaced, so each holds a      *)
(* reference.  A deleted upstream is DELETING until a later search of the  *)
(* list finds it without references; then its pool is destroyed, and its   *)
(* slot (DELETED) may be used again.                                       *)
(*                                                                         *)
(* The worker is a single thread: every handler is one action.             *)
(***************************************************************************)
EXTENDS Integers, Sequences, FiniteSets

CONSTANTS
    Names,        \* names of upstreams
    StaticNames,  \* a sequence: those of the configuration file
    Requests,     \* requests, each may be used again once it is done
    Conns,        \* connections to servers
    MaxObjs,      \* bound on upstreams ever made
    MaxFails      \* bound on failures of an update

ASSUME ConstantsAssumption ==
    /\ StaticNames \in Seq(Names)
    /\ \A i, j \in DOMAIN StaticNames : StaticNames[i] = StaticNames[j] => i = j
    /\ IsFiniteSet(Requests) /\ IsFiniteSet(Conns)
    /\ MaxObjs \in Nat /\ MaxFails \in Nat

VARIABLES
    slots,      \* dy_upstreams: dynamic, deleted, and the upstream of the slot
    tree,       \* umcf->rbtree: the upstreams a request can find
    objs,       \* the upstreams made: name, reference count, memory, progress
    request,    \* per request: the upstream it uses, 0 for none
    conn,       \* per connection: the upstream it holds, 0 for none
    crashed,    \* the worker has used a pointer that was never set
    fails       \* failures so far

vars == <<slots, tree, objs, request, conn, crashed, fails>>

NewSlot(o) == [dynamic |-> TRUE, deleted |-> "no", obj |-> o]

(* built: how far ngx_dyups_init_upstream and ngx_dyups_add_server came.  *)
NewObj(n, pool, built) ==
    [name |-> n, ref |-> 0, pool |-> pool, freed |-> FALSE, built |-> built]

Built == {"conf", "servers", "ready"}

Ids == 1..Len(objs)

(* The types; ref never goes below 0. *)
TypeOK ==
    /\ \A i \in DOMAIN slots :
          /\ slots[i].dynamic \in BOOLEAN
          /\ slots[i].deleted \in {"no", "deleting", "deleted"}
          /\ slots[i].obj \in Ids \union {0}
    /\ tree \subseteq Ids
    /\ \A o \in Ids :
          /\ objs[o].name \in Names
          /\ objs[o].ref \in Nat
          /\ objs[o].pool \in BOOLEAN
          /\ objs[o].freed \in BOOLEAN
          /\ objs[o].built \in Built
    /\ request \in [Requests -> Ids \union {0}]
    /\ conn \in [Conns -> Ids \union {0}]
    /\ crashed \in BOOLEAN
    /\ fails \in Nat

-----------------------------------------------------------------------------
(* ngx_dyups_find_upstream.  The search ends at the upstream it looks for; *)
(* on its way it frees the deleted ones that nobody refers to any more.    *)
Matches(s, o, n) ==
    {i \in DOMAIN s : /\ s[i].dynamic
                      /\ s[i].deleted = "no"
                      /\ o[s[i].obj].name = n}

Match(s, o, n) ==
    IF Matches(s, o, n) = {} THEN 0
    ELSE CHOOSE i \in Matches(s, o, n) : \A j \in Matches(s, o, n) : i <= j

Searched(s, o, n) ==
    IF Match(s, o, n) = 0 THEN DOMAIN s ELSE 1..Match(s, o, n)

UnusedHasty(s, o, n) ==
    {i \in Searched(s, o, n) : s[i].dynamic /\ s[i].deleted = "deleting"}

Unused(s, o, n) ==
    {i \in Searched(s, o, n) : /\ s[i].dynamic
                               /\ s[i].deleted = "deleting"
                               /\ o[s[i].obj].ref = 0}

Swept(s, o, n) ==
    [i \in DOMAIN s |-> IF i \in Unused(s, o, n)
                        THEN [s[i] EXCEPT !.deleted = "deleted"] ELSE s[i]]

Freed(s, o, n) ==
    [x \in DOMAIN o |-> IF o[x].pool /\ \E i \in Unused(s, o, n) : s[i].obj = x
                        THEN [o[x] EXCEPT !.freed = TRUE] ELSE o[x]]

(* The slot to use again: the last one that is DELETED, 0 if none is.     *)
Reusable(s, o, n) ==
    LET D == {i \in Searched(s, o, n) : /\ s[i].dynamic
                                        /\ Swept(s, o, n)[i].deleted = "deleted"}
    IN  IF D = {} THEN 0 ELSE CHOOSE i \in D : \A j \in D : i >= j

(* ngx_dyups_mark_upstream_delete.                                        *)
MarkedSlots(s, i) == [s EXCEPT ![i].deleted = "deleting"]

MarkedTree(t, o) == t \ {o}

(* It reads uscf->servers, which a failed update may not have set.        *)
Unset(i) == objs[slots[i].obj].built = "conf"

-----------------------------------------------------------------------------
(* What ngx_dyups_do_update leaves before it makes the new upstream.      *)
Cleared(n) ==
    LET m == Match(slots, objs, n)
        s1 == Swept(slots, objs, n)
        o1 == Freed(slots, objs, n)
        s2 == MarkedSlots(s1, m)
    IN  IF m = 0
        THEN [slots |-> s1, objs |-> o1, tree |-> tree,
              idx |-> Reusable(slots, objs, n)]
        ELSE [slots |-> Swept(s2, o1, n), objs |-> Freed(s2, o1, n),
              tree |-> MarkedTree(tree, slots[m].obj),
              idx |-> LET again == Match(s2, o1, n)
                      IN  IF again # 0 THEN again ELSE Reusable(s2, o1, n)]

Put(s, i, x) == IF i = 0 THEN Append(s, x) ELSE [s EXCEPT ![i] = x]

(* ngx_dyups_do_update, and where it may fail: no room for a slot; before *)
(* or after the new upstream is entered in its slot; or while its servers *)
(* are added, when requests can find it already.                          *)
OldSlot(f) ==
    IF f.idx = 0 THEN [NewSlot(0) EXCEPT !.dynamic = FALSE] ELSE f.slots[f.idx]

NoSlot(f) ==
    f.idx = 0 /\ slots' = f.slots /\ tree' = f.tree /\ objs' = f.objs

BeforeSlot(f) ==
    /\ slots' = Put(f.slots, f.idx, OldSlot(f))
    /\ tree' = f.tree /\ objs' = f.objs

AfterSlot(f, n, o) ==
    /\ slots' = Put(f.slots, f.idx, [OldSlot(f) EXCEPT !.dynamic = TRUE, !.obj = o])
    /\ tree' = f.tree
    /\ objs' = Append(f.objs, NewObj(n, TRUE, "conf"))

Entered(f, n, o, built) ==
    /\ slots' = Put(f.slots, f.idx, NewSlot(o))
    /\ tree' = f.tree \union {o}
    /\ objs' = Append(f.objs, NewObj(n, TRUE, built))

Crashes ==
    /\ crashed' = TRUE
    /\ UNCHANGED <<slots, tree, objs, request, conn, fails>>

(* The upstream to mark, if there is one, has its servers.                *)
Markable(n) == Match(slots, objs, n) # 0 => ~Unset(Match(slots, objs, n))

DoUpdate(n) ==
    /\ ~crashed /\ Markable(n)
    /\ Len(objs) < MaxObjs
    /\ Entered(Cleared(n), n, Len(objs) + 1, "ready")
    /\ UNCHANGED <<request, conn, crashed, fails>>

DoUpdateFails(n) ==
    /\ ~crashed /\ Markable(n)
    /\ Len(objs) < MaxObjs /\ fails < MaxFails
    /\ \/ NoSlot(Cleared(n))
       \/ BeforeSlot(Cleared(n))
       \/ AfterSlot(Cleared(n), n, Len(objs) + 1)
       \/ \E built \in {"conf", "servers"} :
             Entered(Cleared(n), n, Len(objs) + 1, built)
    /\ fails' = fails + 1
    /\ UNCHANGED <<request, conn, crashed>>

(* ngx_dyups_do_delete; 404 if there is no such upstream.                 *)
DoDelete(n) ==
    /\ ~crashed /\ Markable(n)
    /\ LET m == Match(slots, objs, n)
           s1 == Swept(slots, objs, n)
       IN  /\ slots' = IF m = 0 THEN s1 ELSE MarkedSlots(s1, m)
           /\ objs' = Freed(slots, objs, n)
           /\ tree' = IF m = 0 THEN tree ELSE MarkedTree(tree, slots[m].obj)
    /\ UNCHANGED <<request, conn, crashed, fails>>

(* Either of them on an upstream whose servers were never set.            *)
MarkCrashes(n) ==
    /\ ~crashed /\ ~Markable(n)
    /\ Crashes

-----------------------------------------------------------------------------
(* ngx_http_upstream_rbtree_lookup.                                       *)
Named(n) == {o \in tree : objs[o].name = n}

Ref(o, k) == [objs EXCEPT ![o].ref = @ + k]

(* ngx_http_dyups_init_peer: the request holds the upstream until its     *)
(* pool is destroyed.                                                     *)
InitPeer(r, n) ==
    /\ ~crashed /\ request[r] = 0
    /\ \E o \in Named(n) :
          /\ objs[o].built = "ready"
          /\ objs' = Ref(o, 1)
          /\ request' = [request EXCEPT ![r] = o]
    /\ UNCHANGED <<slots, tree, conn, crashed, fails>>

(* It calls uscf->peer.init, which a failed update has not set.           *)
InitPeerCrashes(r, n) ==
    /\ ~crashed /\ request[r] = 0
    /\ \E o \in Named(n) : objs[o].built # "ready"
    /\ Crashes

(* ngx_http_dyups_clean_request, run when the request's pool is destroyed.*)
CleanRequest(r) ==
    /\ ~crashed /\ request[r] # 0
    /\ objs' = Ref(request[r], -1)
    /\ request' = [request EXCEPT ![r] = 0]
    /\ UNCHANGED <<slots, tree, conn, crashed, fails>>

(* ngx_http_dyups_free_peer: the connection, which the request may leave  *)
(* in the cache, holds the upstream too.  A cached or failed one changes  *)
(* nothing.  Without memory for the cleanup the reference stays for ever. *)
FreePeer(r, c) ==
    /\ ~crashed /\ request[r] # 0 /\ conn[c] = 0
    /\ objs' = Ref(request[r], 1)
    /\ \/ conn' = [conn EXCEPT ![c] = request[r]] /\ UNCHANGED fails
       \/ fails < MaxFails /\ fails' = fails + 1 /\ UNCHANGED conn
    /\ UNCHANGED <<slots, tree, request, crashed>>

(* The connection is closed, and its pool destroyed.                      *)
CleanConn(c) ==
    /\ ~crashed /\ conn[c] # 0
    /\ objs' = Ref(conn[c], -1)
    /\ conn' = [conn EXCEPT ![c] = 0]
    /\ UNCHANGED <<slots, tree, request, crashed, fails>>

-----------------------------------------------------------------------------
(* ngx_http_dyups_init: the upstreams of the configuration have no pool.  *)
Init ==
    /\ slots = [i \in DOMAIN StaticNames |-> NewSlot(i)]
    /\ tree = DOMAIN StaticNames
    /\ objs = [i \in DOMAIN StaticNames |-> NewObj(StaticNames[i], FALSE, "ready")]
    /\ request = [r \in Requests |-> 0]
    /\ conn = [c \in Conns |-> 0]
    /\ crashed = FALSE
    /\ fails = 0

Next ==
    \/ \E n \in Names : DoUpdate(n) \/ DoUpdateFails(n) \/ DoDelete(n) \/ MarkCrashes(n)
    \/ \E r \in Requests, n \in Names : InitPeer(r, n) \/ InitPeerCrashes(r, n)
    \/ \E r \in Requests, c \in Conns : FreePeer(r, c)
    \/ \E r \in Requests : CleanRequest(r)
    \/ \E c \in Conns : CleanConn(c)

Spec == Init /\ [][Next]_vars

-----------------------------------------------------------------------------
(* The memory of an upstream is given back only when no request and no    *)
(* connection uses it, however often the upstream was replaced meanwhile; *)
(* references are never dropped twice, what a request can find by name is *)
(* never freed memory, and two upstreams of one name are never served at  *)
(* once.                                                                  *)
NoUseAfterFree ==
    /\ TypeOK
    /\ \A r \in Requests : request[r] # 0 => ~objs[request[r]].freed
    /\ \A c \in Conns : conn[c] # 0 => ~objs[conn[c]].freed
    /\ \A o \in tree : /\ ~objs[o].freed
                       /\ \A x \in tree : objs[x].name = objs[o].name => x = o

=============================================================================
