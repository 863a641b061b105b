----------------------------- MODULE FileCache ------------------------------
(***************************************************************************)
(* The cache of proxied responses (ngx_http_file_cache.c and its callers   *)
(* in ngx_http_upstream.c).  Nodes live in a slab zone shared by the       *)
(* workers, the cache manager and the cache loader; each critical section  *)
(* under the zone's mutex is one action.  The files are opened, renamed    *)
(* and unlinked outside of it, in actions of their own.                    *)
(*                                                                         *)
(* A worker is represented by the request it has in the cache.  A file     *)
(* takes one block, so fs_size is 0 or 1.  Times are compared with the     *)
(* clock only, so each is kept as "passed or not" and passes in an action  *)
(* of its own (LockAges, FileExpires, ErrorExpires, Inactive).             *)
(***************************************************************************)
EXTENDS Integers, Sequences, FiniteSets, SequencesExt, FiniteSetsExt

CONSTANTS
    Reqs,         \* requests that may be in the cache at one time
    Nodes,        \* nodes that fit in the zone's slab pool, 1..n
    Confs         \* the configurations to start from, each with two bounds:
                  \* max_requests, and max_faults (crashes, failed renames)

VARIABLES
    conf,         \* the configuration and the load
    node,         \* ngx_http_file_cache_node_t of each slab chunk
    queue,        \* sh->queue, head first: the chunks in use, newest first
    size,         \* sh->size, in blocks
    watermark,    \* sh->watermark
    cold,         \* sh->cold: the loader has not seen the whole directory
    file,         \* the file of each key
    c,            \* ngx_http_cache_t of each request
    del,          \* the deletion each process has begun
    loader,       \* the loader: keys it has still to visit, the one at hand
    used          \* the load and faults so far, and the drift of size

vars == <<conf, node, queue, size, watermark, cold, file, c, del, loader, used>>

Manager == 0                       \* the cache manager process
Deleters == Reqs \cup {Manager}
None == 0                          \* c->node == NULL
NoKey == "none"
AnyVar == "any"                       \* a response without a Vary header
Keys == conf.mains \cup conf.variants
Huge == Cardinality(Nodes) + 1     \* the watermark before any failure

FreeNode == [key |-> NoKey, count |-> 0, uses |-> 0, exists |-> FALSE,
             updating |-> FALSE, lock_time |-> "zero", deleting |-> FALSE,
             error |-> FALSE, valid |-> FALSE, fs |-> 0, idle |-> FALSE, leaked |-> 0,
             orphan |-> FALSE]

NoFile == [st |-> NoKey, var |-> AnyVar]

Idle == [pc |-> "idle", then |-> "open", main |-> NoKey, key |-> NoKey,
         want |-> AnyVar, node |-> None, rc |-> "ok", exists |-> FALSE,
         error |-> FALSE, valid |-> FALSE, secondary |-> FALSE,
         updating |-> FALSE, same |-> FALSE, zero |-> FALSE, over |-> FALSE,
         cacheable |-> TRUE, patient |-> TRUE, stale |-> FALSE,
         own |-> FALSE, var |-> AnyVar]

NoDel == [node |-> None, took |-> 0, st |-> "none"]

Used(n) == node[n].key # NoKey
Lookup(k) == {n \in Nodes : node[n].key = k}
Aged(n) == node[n].lock_time # "future"
Unused == {n \in Nodes : ~Used(n)}
Touch(q, n) == <<n>> \o SelectSeq(q, LAMBDA m : m # n)
Without(q, n) == SelectSeq(q, LAMBDA m : m # n)
Goto(r, pc) == c' = [c EXCEPT ![r].pc = pc]
Loaded(k) == [FreeNode EXCEPT !.key = k, !.uses = 1, !.exists = TRUE, !.fs = 1]

(***************************************************************************)
(* The zone is new and the directory holds files of an earlier run (cold), *)
(* or the loader has been through it, or through a part (warm).            *)
(***************************************************************************)
Init ==
    /\ conf \in Confs
    /\ LET warm == SetToSeq(conf.warm)
       IN  /\ queue = [i \in 1..Len(warm) |-> i]
           /\ node = [n \in Nodes |->
                        IF n <= Len(warm) THEN Loaded(warm[n]) ELSE FreeNode]
           /\ size = Len(warm)
    /\ watermark = Huge
    /\ cold = conf.cold
    /\ \E st \in {NoKey, "fresh", "stale", "bad"} :
         file = [k \in Keys |->
                   IF k \in conf.warm THEN [st |-> "fresh", var |-> conf.warm_var]
                   ELSE IF conf.cold /\ k \in conf.mains
                   THEN [st |-> st, var |-> AnyVar] ELSE NoFile]
    /\ c = [r \in Reqs |-> Idle]
    /\ del = [d \in Deleters |-> NoDel]
    /\ loader = [left |-> IF conf.cold THEN Keys \ conf.warm ELSE {}, at |-> NoKey,
                 failed |-> FALSE]
    /\ used = [reqs |-> 0, faults |-> 0, drift |-> 0]

(***************************************************************************)
(* ngx_http_upstream_cache() for a new request: the cache is bypassed or   *)
(* opened.                                                                 *)
(***************************************************************************)
Begin(r) ==
    /\ c[r].pc = "idle"
    /\ r \in conf.reqs
    /\ used.reqs < conf.max_requests
    /\ \E k \in conf.mains, w \in conf.wants, bypass \in conf.bypass :
         c' = [c EXCEPT ![r] =
                 [Idle EXCEPT !.main = k, !.key = k, !.want = w,
                    !.pc = IF bypass THEN "fetch" ELSE "exists",
                    !.then = IF bypass THEN "store" ELSE "open"]]
    /\ used' = [used EXCEPT !.reqs = @ + 1]
    /\ UNCHANGED <<conf, node, queue, size, watermark, cold, file, del, loader>>

(***************************************************************************)
(* ngx_http_file_cache_exists(): look the key up and take a reference.     *)
(* Entering(r, n, nd, rc) is its end (the label done): the node moves to   *)
(* the head of the queue and the request remembers it.                     *)
(***************************************************************************)
Entering(r, n, nd, rc) ==
    /\ node' = [node EXCEPT ![n] = [nd EXCEPT !.idle = FALSE]]
    /\ queue' = Touch(queue, n)
    /\ c' = [c EXCEPT ![r].node = n, ![r].rc = rc,
                      ![r].exists = nd.exists, ![r].error = nd.error,
                      ![r].same = IF c[r].node = None
                                  THEN c[r].zero /\ nd.lock_time = "zero" ELSE @,
                      ![r].pc = IF c[r].then = "open" THEN "opened" ELSE "body"]

ExistsFound(r) ==
    /\ c[r].pc = "exists"
    /\ \E n \in (IF c[r].node # None THEN {c[r].node} ELSE Lookup(c[r].key)) :
         LET nd == IF c[r].node # None THEN node[n]
                   ELSE [node[n] EXCEPT !.count = @ + 1,
                                        !.uses = Min({@ + 1, conf.min_uses})]
         IN  IF nd.error /\ ~nd.valid
             THEN /\ Entering(r, n, [nd EXCEPT !.error = FALSE, !.fs = 0,
                                               !.exists = FALSE], "declined")
                  /\ used' = [used EXCEPT !.drift = @ + nd.fs]
             ELSE /\ Entering(r, n, nd,
                       IF \/ nd.error
                          \/ nd.exists
                          \/ nd.uses >= conf.min_uses
                       THEN "ok" ELSE "again")
                  /\ UNCHANGED used
    /\ UNCHANGED <<conf, size, watermark, cold, file, del, loader>>

Missing(r) == c[r].node = None /\ Lookup(c[r].key) = {}

Alloc(r) ==
    LET n == Min(Unused)
    IN  Entering(r, n, [FreeNode EXCEPT !.key = c[r].key, !.uses = 1,
                                        !.count = 1], "declined")

SetWatermark == watermark' = Len(queue) - Len(queue) \div 8

ExistsNew(r) ==
    /\ c[r].pc = "exists"
    /\ Missing(r)
    /\ IF Unused # {}
       THEN Alloc(r) /\ UNCHANGED watermark
       ELSE /\ SetWatermark
            /\ Goto(r, "nomem")
            /\ UNCHANGED <<node, queue>>
    /\ UNCHANGED <<conf, size, cold, file, del, loader, used>>

(***************************************************************************)
(* After ngx_http_file_cache_forced_expire() the node is allocated without *)
(* a second look at the tree: another request may have added the key.      *)
(***************************************************************************)
Realloc(r) ==
    /\ c[r].pc = "realloc"
    /\ IF Unused # {} THEN Alloc(r)
       ELSE Goto(r, "free") /\ UNCHANGED <<node, queue>>
    /\ UNCHANGED <<conf, size, watermark, cold, file, del, loader, used>>

(***************************************************************************)
(* ngx_http_file_cache_delete(), up to the unlock, for the node n of the   *)
(* queue q: the file goes out of the size before it is unlinked.           *)
(***************************************************************************)
Delete(d, n, nds, q) ==
    IF nds[n].exists
    THEN /\ size' = size - nds[n].fs
         /\ node' = [nds EXCEPT ![n].count = @ + 1, ![n].deleting = TRUE]
         /\ queue' = q
         /\ del' = [del EXCEPT ![d] = [node |-> n, took |-> nds[n].fs,
                                       st |-> "unlink"]]
    ELSE /\ node' = [nds EXCEPT ![n] = FreeNode]
         /\ queue' = Without(q, n)
         /\ del' = [del EXCEPT ![d] = NoDel]
         /\ UNCHANGED size

(***************************************************************************)
(* ngx_http_file_cache_forced_expire(): from the tail, nodes in use go to  *)
(* the head (at most 20 of them, each once) until one is unused, which is  *)
(* deleted, or is being deleted by somebody else.                          *)
(***************************************************************************)
ForcedExpire(d) ==
    LET Stops(i) == \/ node[queue[i]].count = 0
                    \/ node[queue[i]].deleting
        last == {i \in DOMAIN queue : Stops(i)}
        keep == IF last = {} THEN 0 ELSE Max(last)
        passed == {queue[i] : i \in keep + 1 .. Len(queue)}
        q == SubSeq(queue, keep + 1, Len(queue)) \o SubSeq(queue, 1, keep)
        nds == [n \in Nodes |-> IF n \in passed
                                THEN [node[n] EXCEPT !.idle = FALSE] ELSE node[n]]
    IN  IF keep # 0 /\ node[queue[keep]].count = 0
        THEN Delete(d, queue[keep], nds, q)
        ELSE /\ node' = nds /\ queue' = q
             /\ del' = [del EXCEPT ![d] = NoDel]
             /\ UNCHANGED size

NoMem(r) ==
    /\ c[r].pc = "nomem"
    /\ ForcedExpire(r)
    /\ Goto(r, IF del'[r] = NoDel THEN "realloc" ELSE "delete")
    /\ UNCHANGED <<conf, watermark, cold, file, loader, used>>

(* The unlink.  A request that has the old file open keeps the old inode. *)
Gone(k) == [r \in Reqs |-> IF c[r].key = k THEN [c[r] EXCEPT !.own = FALSE]
                                            ELSE c[r]]

Unlink(d) ==
    /\ del[d].st = "unlink"
    /\ LET k == node[del[d].node].key
       IN  file' = [file EXCEPT ![k] = NoFile] /\ c' = Gone(k)
    /\ del' = [del EXCEPT ![d].st = "relock"]
    /\ UNCHANGED <<conf, node, queue, size, watermark, cold, loader, used>>

(* The rest of ngx_http_file_cache_delete(): a request may have taken the   *)
(* node in the meantime, and then it stays, with exists and fs_size as      *)
(* they are.                                                                *)
DeleteEnds(d, unused) ==
    /\ del[d].st = "relock"
    /\ LET n == del[d].node
           nd == [node[n] EXCEPT !.count = @ - 1, !.deleting = FALSE]
       IN  /\ node' = [node EXCEPT ![n] = IF unused THEN FreeNode ELSE nd]
           /\ queue' = IF unused THEN Without(queue, n) ELSE queue
           /\ used' = [used EXCEPT !.drift =
                         @ - del[d].took + IF unused THEN nd.fs ELSE 0]
    /\ del' = [del EXCEPT ![d] = NoDel]
    /\ IF d = Manager THEN UNCHANGED c ELSE Goto(d, "realloc")
    /\ UNCHANGED <<conf, size, watermark, cold, file, loader>>

DeleteUnchecked(d) == DeleteEnds(d, TRUE)

DeleteDone(d) == /\ del[d].st = "relock"
                 /\ DeleteEnds(d, node[del[d].node].count = 1)

(***************************************************************************)
(* ngx_http_file_cache_manager(): one turn of ngx_http_file_cache_expire() *)
(* and one of the loop that brings size and count under their limits: the  *)
(* mutex is released between the look at them and the deletion.            *)
(***************************************************************************)
ManagerExpire ==
    /\ del[Manager] = NoDel
    /\ queue # <<>>
    /\ LET n == Last(queue)
       IN  /\ node[n].idle
           /\ \/ /\ node[n].count = 0
                 /\ Delete(Manager, n, node, queue)
              \/ /\ node[n].count > 0
                 /\ ~node[n].deleting
                 /\ node' = [node EXCEPT ![n].idle = FALSE]
                 /\ queue' = Touch(queue, n)
                 /\ UNCHANGED <<size, del>>
    /\ UNCHANGED <<conf, watermark, cold, file, c, loader, used>>

ManagerCheck ==
    /\ del[Manager] = NoDel
    /\ size >= conf.max_size \/ Len(queue) >= watermark
    /\ del' = [del EXCEPT ![Manager].st = "force"]
    /\ UNCHANGED <<conf, node, queue, size, watermark, cold, file, c, loader, used>>

ManagerForced ==
    /\ del[Manager].st = "force"
    /\ ForcedExpire(Manager)
    /\ UNCHANGED <<conf, watermark, cold, file, c, loader, used>>

(***************************************************************************)
(* The rest of ngx_http_file_cache_open() and the checks of                *)
(* ngx_http_file_cache_read() on the header of the file.  Opening the file *)
(* or reading it may fail, which ends the request (Fails).                 *)
(***************************************************************************)
OpenFile(r) ==
    LET x == c[r]
        test == IF x.rc = "ok" THEN x.exists ELSE cold
        scarce == x.rc = "declined" /\ conf.min_uses > 1
        f == file[x.key]
        Go(y) == c' = [c EXCEPT ![r] = [y EXCEPT !.rc = "ok", !.exists = FALSE]]
        To(pc) == Go([x EXCEPT !.pc = pc])
        Fails == used' = [used EXCEPT !.faults = @ + 1] /\ used.faults < conf.max_faults
        Fetch(ca) == Go([x EXCEPT !.pc = "fetch", !.cacheable = ca])
    IN  /\ x.pc = "opened"
        /\ \/ x.rc = "ok" /\ x.error /\ To("free") /\ UNCHANGED used
           \/ x.rc = "again" /\ Fetch(FALSE) /\ UNCHANGED used
           \/ ~x.error /\ x.rc # "again" /\ test /\ To("free") /\ Fails
           \/ /\ ~x.error /\ x.rc # "again"
              /\ ~test \/ f.st = NoKey
              /\ IF scarce THEN Fetch(FALSE) ELSE To("lock")
              /\ UNCHANGED used
           \/ /\ ~x.error /\ x.rc # "again"
              /\ test
              /\ f.st # NoKey
              /\ IF f.st = "bad" THEN Fetch(TRUE)
                 ELSE IF f.var \notin {AnyVar, x.want}
                 THEN IF x.secondary THEN Fetch(TRUE) ELSE To("reopen")
                 ELSE Go([x EXCEPT !.own = TRUE,
                            !.pc = IF f.st = "fresh" THEN "read" ELSE "expired"])
              /\ UNCHANGED used
        /\ UNCHANGED <<conf, node, queue, size, watermark, cold, file, del, loader>>

(* ngx_http_file_cache_reopen(): the file is of another variant.            *)
Reopen(r) ==
    /\ c[r].pc = "reopen"
    /\ node' = [node EXCEPT ![c[r].node].count = @ - 1]
    /\ c' = [c EXCEPT ![r].node = None, ![r].secondary = TRUE,
                      ![r].key = c[r].want, ![r].pc = "exists"]
    /\ UNCHANGED <<conf, queue, size, watermark, cold, file, del, loader, used>>

(* ngx_http_file_cache_read(): a file the loader has not come to yet.       *)
ReadCold(r) ==
    LET n == c[r].node
    IN  /\ c[r].pc \in {"read", "expired"}
        /\ IF cold /\ ~node[n].exists
           THEN /\ node' = [node EXCEPT ![n].uses = 1, ![n].exists = TRUE,
                                        ![n].fs = 1]
                /\ size' = size + 1
           ELSE UNCHANGED <<node, size>>
        /\ Goto(r, IF c[r].pc = "read" THEN "free" ELSE "stale")
        /\ UNCHANGED <<conf, queue, watermark, cold, file, del, loader, used>>

(* ngx_http_file_cache_read(), the end: an expired response.  The first     *)
(* request refreshes it; the lock time of the node is copied, not renewed.  *)
ReadStale(r) ==
    LET n == c[r].node
    IN  /\ c[r].pc = "stale"
        /\ IF node[n].updating
           THEN /\ c' = [c EXCEPT ![r].pc = IF conf.use_stale THEN "free"
                                            ELSE "fetch",
                                  ![r].stale = TRUE]
                /\ UNCHANGED node
           ELSE /\ node' = [node EXCEPT ![n].updating = TRUE, ![n].orphan = FALSE]
                /\ c' = [c EXCEPT ![r].updating = TRUE, ![r].same = TRUE,
                                  ![r].zero = node[n].lock_time = "zero",
                                  ![r].over = \E s \in Reqs : /\ c[s].node = n
                                                              /\ c[s].same,
                                  ![r].stale = TRUE, ![r].pc = "fetch"]
        /\ UNCHANGED <<conf, queue, size, watermark, cold, file, del, loader,
                       used>>

(***************************************************************************)
(* ngx_http_file_cache_lock(): one request fetches a missing response, the *)
(* others wait.  A lock older than lock_age is taken over, which gives the *)
(* node a new lock time: the old holder's is not the same any more.        *)
(***************************************************************************)
Lock(r) ==
    LET n == c[r].node
    IN  /\ c[r].pc = "lock"
        /\ IF ~conf.lock
           THEN Goto(r, "fetch") /\ UNCHANGED node
           ELSE IF ~node[n].updating \/ Aged(n)
           THEN /\ node' = [node EXCEPT ![n].updating = TRUE, ![n].orphan = FALSE,
                                        ![n].lock_time = "future"]
                /\ c' = [s \in Reqs |->
                           IF s = r THEN [c[r] EXCEPT !.updating = TRUE,
                                            !.same = TRUE, !.over = FALSE,
                                            !.pc = "fetch"]
                           ELSE IF c[s].node = n
                           THEN [c[s] EXCEPT !.same = FALSE] ELSE c[s]]
           ELSE /\ c' = [c EXCEPT ![r].pc = IF c[r].patient THEN "wait"
                                            ELSE "fetch",
                                  ![r].cacheable = c[r].patient]
                /\ UNCHANGED node
        /\ UNCHANGED <<conf, queue, size, watermark, cold, file, del, loader,
                       used>>

(***************************************************************************)
(* ngx_http_file_cache_lock_wait_handler(), the firings of the timer that  *)
(* end the wait (the others only set the timer again): lock_timeout has    *)
(* passed, the lock is released, or it is old.  The request goes back to   *)
(* ngx_http_file_cache_open(), or ends if the client has gone.             *)
(***************************************************************************)
LockWaitHolder(r) ==
    /\ c[r].pc = "wait"
    /\ ~node[c[r].node].updating
    /\ Goto(r, "exists")
    /\ UNCHANGED <<conf, node, queue, size, watermark, cold, file, del, loader,
                   used>>

LockWait(r) ==
    LET n == c[r].node
    IN  /\ c[r].pc = "wait"
        /\ \/ \E pc \in {"exists", "free"} :
                c' = [c EXCEPT ![r].patient = FALSE, ![r].pc = pc]
           \/ /\ ~node[n].updating \/ Aged(n)
              /\ \E pc \in {"exists", "free"} : Goto(r, pc)
        /\ UNCHANGED <<conf, node, queue, size, watermark, cold, file, del,
                       loader, used>>

(***************************************************************************)
(* ngx_http_file_cache_free(), called when the request is finalized or its *)
(* pool is cleaned up, with c->error (and c->valid_sec) as in x.           *)
(***************************************************************************)
FreeWith(r, x, unlocks) ==
    LET n == x.node
        nd == [node[n] EXCEPT !.count = @ - 1,
                 !.updating = @ /\ ~unlocks,
                 !.error = @ \/ x.error,
                 !.valid = @ \/ (x.error /\ x.valid)]
        last == ~x.error /\ ~nd.exists /\ nd.count = 0 /\ conf.min_uses = 1
    IN  /\ IF n = None THEN UNCHANGED <<node, queue>>
           ELSE /\ node' = [node EXCEPT ![n] = IF last THEN FreeNode ELSE nd]
                /\ queue' = IF last THEN Without(queue, n) ELSE queue
        /\ c' = [c EXCEPT ![r] = Idle]

FreeUnchecked(r, x) == FreeWith(r, x, x.updating)
FreeLocked(r, x) == FreeWith(r, x, FALSE)

CacheFree(r, x) == FreeWith(r, x, x.updating /\ x.same)

(* The response came from the cache, or the request ends with an error.     *)
Served(r) ==
    /\ c[r].pc = "free"
    /\ CacheFree(r, c[r])
    /\ UNCHANGED <<conf, size, watermark, cold, file, del, loader, used>>

(***************************************************************************)
(* What comes of the request sent upstream.  There may be nothing to store *)
(* (an error, a response that must not be cached, a stale response sent    *)
(* instead), and then the error itself may be cached; a 304 may let the    *)
(* stale file live on (ngx_http_file_cache_update_header(), unless the     *)
(* file has been replaced); or a response to store begins.                 *)
(***************************************************************************)
FetchFails(r) ==
    /\ c[r].pc = "fetch"
    /\ \E cached \in BOOLEAN :
         /\ cached => c[r].cacheable /\ conf.errors
         /\ CacheFree(r, [c[r] EXCEPT !.error = @ \/ cached, !.valid = cached])
    /\ UNCHANGED <<conf, size, watermark, cold, file, del, loader, used>>

Revalidate(r) ==
    /\ c[r].pc = "fetch"
    /\ c[r].stale
    /\ file' = IF c[r].own THEN [file EXCEPT ![c[r].key].st = "fresh"] ELSE file
    /\ CacheFree(r, c[r])
    /\ UNCHANGED <<conf, size, watermark, cold, del, loader, used>>

(* ngx_http_upstream_send_response(): a bypassed request now creates its    *)
(* node; ngx_http_file_cache_update_variant() returns to the main key if    *)
(* the response does not vary the way the secondary key says.               *)
FetchStore(r) ==
    /\ c[r].pc = "fetch"
    /\ c[r].cacheable
    /\ \E v \in (IF conf.variants = {} THEN {AnyVar} ELSE {AnyVar, c[r].want}) :
         LET back == c[r].secondary /\ v = AnyVar
         IN  /\ node' = IF back
                        THEN [node EXCEPT ![c[r].node].count = @ - 1,
                                          ![c[r].node].updating = FALSE]
                        ELSE node
             /\ c' = [s \in Reqs |->
                        IF s = r
                        THEN [c[r] EXCEPT !.var = v, !.valid = TRUE,
                               !.then = "store",
                               !.key = IF back THEN c[r].main ELSE @,
                               !.node = IF back THEN None ELSE @,
                               !.over = @ \/ back,
                               !.pc = IF back \/ c[r].node = None THEN "exists"
                                      ELSE "body"]
                        ELSE IF back /\ c[s].node = c[r].node
                        THEN [c[s] EXCEPT !.over = TRUE] ELSE c[s]]
    /\ UNCHANGED <<conf, queue, size, watermark, cold, file, del, loader, used>>

(***************************************************************************)
(* ngx_http_upstream_process_request(): the body is complete and           *)
(* ngx_http_file_cache_update() renames the temporary file, which may      *)
(* fail, and asks for its size, which may fail although the file is in     *)
(* place; or the upstream broke off.                                       *)
(***************************************************************************)
BodyFails(r) ==
    /\ c[r].pc = "body"
    /\ CacheFree(r, c[r])
    /\ UNCHANGED <<conf, size, watermark, cold, file, del, loader, used>>

Rename(r) ==
    /\ c[r].pc = "body"
    /\ \E renamed, known \in BOOLEAN :
         LET ok == renamed /\ known
         IN  /\ known => renamed
             /\ ~ok => used.faults < conf.max_faults
             /\ used' = [used EXCEPT !.faults = IF ok THEN @ ELSE @ + 1]
             /\ file' = IF renamed THEN [file EXCEPT ![c[r].key] =
                                           [st |-> "fresh", var |-> c[r].var]] ELSE file
             /\ c' = [(IF renamed THEN Gone(c[r].key) ELSE c) EXCEPT
                        ![r].pc = "update", ![r].exists = ok]
    /\ UNCHANGED <<conf, node, queue, size, watermark, cold, del, loader>>

(* The critical section of ngx_http_file_cache_update(): whoever holds the  *)
(* lock of the node, it is released.                                        *)
UpdateFrom(r, old) ==
    LET n == c[r].node
        fs == IF c[r].exists THEN 1 ELSE 0
    IN  /\ c[r].pc = "update"
        /\ node' = [node EXCEPT ![n].count = @ - 1, ![n].error = FALSE,
                                ![n].fs = fs, ![n].updating = FALSE,
                                ![n].exists = @ \/ c[r].exists]
        /\ size' = size + fs - old
        /\ c' = [s \in Reqs |-> IF s = r THEN Idle
                                ELSE IF c[s].node = n
                                THEN [c[s] EXCEPT !.over = TRUE] ELSE c[s]]
        /\ UNCHANGED <<conf, queue, watermark, cold, file, del, loader, used>>

UpdateAdds(r) == UpdateFrom(r, 0)

Update(r) == /\ c[r].pc = "update"
             /\ UpdateFrom(r, node[c[r].node].fs)

(***************************************************************************)
(* A worker dies outside of the critical sections: what it held stays      *)
(* held.  The cache manager may die the same way.                          *)
(***************************************************************************)
Crash(d) ==
    /\ used.faults < conf.max_faults
    /\ used' = [used EXCEPT !.faults = @ + 1, !.drift = @ - del[d].took]
    /\ IF d = Manager THEN del[d] # NoDel /\ UNCHANGED c
       ELSE c[d].pc # "idle" /\ c' = [c EXCEPT ![d] = Idle]
    /\ LET lost(n) == (IF del[d].node = n THEN 1 ELSE 0)
                      + (IF d # Manager /\ c[d].node = n THEN 1 ELSE 0)
           owner(n) == d # Manager /\ c[d].node = n /\ c[d].updating /\ c[d].same
       IN  node' = [n \in Nodes |-> [node[n] EXCEPT !.leaked = @ + lost(n),
                                                    !.orphan = @ \/ owner(n)]]
    /\ del' = [del EXCEPT ![d] = NoDel]
    /\ UNCHANGED <<conf, queue, size, watermark, cold, file, loader>>

(***************************************************************************)
(* ngx_http_file_cache_loader(): ngx_walk_tree() comes to a file,          *)
(* ngx_http_file_cache_add() makes a node for it if there is none, and the *)
(* file is deleted if there is no memory for the node.  A file too small   *)
(* for a header is deleted at once (files that are not named like a key    *)
(* are no file of a key here).                                             *)
(***************************************************************************)
LoaderVisit(k) ==
    /\ loader.at = NoKey
    /\ k \in loader.left
    /\ \E small \in BOOLEAN :
         /\ small => file[k].st = "bad"
         /\ loader' = [left |-> loader.left \ {k}, failed |-> small,
                       at |-> IF file[k].st = NoKey THEN NoKey ELSE k]
    /\ UNCHANGED <<conf, node, queue, size, watermark, cold, file, c, del, used>>

LoaderAdd ==
    /\ loader.at # NoKey
    /\ ~loader.failed
    /\ \/ \E n \in Lookup(loader.at) :
            /\ node' = [node EXCEPT ![n].idle = FALSE]
            /\ queue' = Touch(queue, n)
            /\ loader' = [loader EXCEPT !.at = NoKey]
            /\ UNCHANGED <<size, watermark>>
       \/ /\ Lookup(loader.at) = {}
          /\ Unused # {}
          /\ LET n == Min(Unused)
             IN  /\ node' = [node EXCEPT ![n] = Loaded(loader.at)]
                 /\ queue' = Touch(queue, n)
          /\ size' = size + 1
          /\ loader' = [loader EXCEPT !.at = NoKey]
          /\ UNCHANGED watermark
       \/ /\ Lookup(loader.at) = {}
          /\ Unused = {}
          /\ SetWatermark
          /\ loader' = [loader EXCEPT !.failed = TRUE]
          /\ UNCHANGED <<node, queue, size>>
    /\ UNCHANGED <<conf, cold, file, c, del, used>>

LoaderUnlink ==
    /\ loader.failed
    /\ file' = [file EXCEPT ![loader.at] = NoFile]
    /\ c' = Gone(loader.at)
    /\ loader' = [loader EXCEPT !.at = NoKey, !.failed = FALSE]
    /\ UNCHANGED <<conf, node, queue, size, watermark, cold, del, used>>

LoaderDone ==
    /\ cold
    /\ loader.left = {} /\ loader.at = NoKey
    /\ cold' = FALSE
    /\ UNCHANGED <<conf, node, queue, size, watermark, file, c, del, loader,
                   used>>

(***************************************************************************)
(* Time.  The queue is in the order of the nodes' last use, so the oldest  *)
(* becomes inactive first.                                                 *)
(***************************************************************************)
LockAges(n) ==
    /\ node[n].lock_time = "future"
    /\ node' = [node EXCEPT ![n].lock_time = "past"]
    /\ UNCHANGED <<conf, queue, size, watermark, cold, file, c, del, loader,
                   used>>

ErrorExpires(n) ==
    /\ node[n].valid
    /\ node' = [node EXCEPT ![n].valid = FALSE]
    /\ UNCHANGED <<conf, queue, size, watermark, cold, file, c, del, loader,
                   used>>

Inactive(i) ==
    /\ conf.inactive
    /\ i \in DOMAIN queue
    /\ ~node[queue[i]].idle
    /\ \A j \in i + 1 .. Len(queue) : node[queue[j]].idle
    /\ node' = [node EXCEPT ![queue[i]].idle = TRUE]
    /\ UNCHANGED <<conf, queue, size, watermark, cold, file, c, del, loader,
                   used>>

FileExpires(k) ==
    /\ file[k].st = "fresh"
    /\ file' = [file EXCEPT ![k].st = "stale"]
    /\ UNCHANGED <<conf, node, queue, size, watermark, cold, c, del, loader,
                   used>>

Time == \/ \E n \in Nodes : LockAges(n) \/ ErrorExpires(n) \/ Inactive(n)
        \/ \E k \in Keys : FileExpires(k)

Request(r) ==
    \/ ExistsFound(r) \/ ExistsNew(r) \/ NoMem(r) \/ Realloc(r)
    \/ OpenFile(r) \/ Reopen(r) \/ ReadCold(r) \/ ReadStale(r)
    \/ Lock(r) \/ LockWait(r)
    \/ FetchFails(r) \/ Revalidate(r) \/ FetchStore(r)
    \/ BodyFails(r) \/ Rename(r) \/ Update(r) \/ Served(r)

Deletion(d) == Unlink(d) \/ DeleteDone(d)

Loader == \/ \E k \in Keys : LoaderVisit(k)
          \/ LoaderAdd \/ LoaderUnlink \/ LoaderDone

Next == \/ \E r \in Reqs : Begin(r) \/ Request(r)
        \/ \E d \in Deleters : Deletion(d) \/ Crash(d)
        \/ ManagerExpire \/ ManagerCheck \/ ManagerForced
        \/ Loader
        \/ Time

Spec == Init /\ [][Next]_vars

(***************************************************************************)
(* A worker runs its handlers and its timers, the upstream answers or      *)
(* proxy_read_timeout passes, an unlink returns.                           *)
(***************************************************************************)
FairSpec == /\ Spec
            /\ \A r \in Reqs : WF_vars(Request(r))
            /\ \A d \in Deleters : WF_vars(Deletion(d))

-----------------------------------------------------------------------------
Held(n) == {r \in Reqs : c[r].node = n}
SumOf(f) == FoldFunction(+, 0, f)
Deleting(n) == {d \in Deleters : del[d].node = n}

TypeOK ==
    /\ node \in [Nodes -> [key : Keys \cup {NoKey}, count : Nat, uses : 0..2,
                           exists : BOOLEAN, updating : BOOLEAN,
                           lock_time : {"zero", "past", "future"},
                           deleting : BOOLEAN, error : BOOLEAN, valid : BOOLEAN,
                           fs : 0..1, idle : BOOLEAN, leaked : Nat,
                           orphan : BOOLEAN]]
    /\ queue \in Seq(Nodes) /\ size \in Int /\ watermark \in 0..Huge
    /\ cold \in BOOLEAN /\ DOMAIN file = Keys
    /\ DOMAIN c = Reqs /\ DOMAIN del = Deleters

(***************************************************************************)
(* count is exactly the number of requests and deletions that have the     *)
(* node, plus those lost with a dead worker; so a node in use is never     *)
(* freed under its user, and the queue holds the used nodes once each.     *)
(***************************************************************************)
HeldNodes ==
    /\ \A n \in Nodes :
         /\ node[n].count = Cardinality(Held(n)) + Cardinality(Deleting(n))
                            + node[n].leaked
         /\ Held(n) # {} => node[n].key \in Keys
         /\ Cardinality(Deleting(n)) <= 1
    /\ IsInjective(queue)
    /\ ToSet(queue) = Nodes \ Unused

(***************************************************************************)
(* sh->size, which max_size is compared with, is the size of the files the *)
(* nodes stand for, less what the deletions under way have taken already,  *)
(* but for the drift: a node that a request took or updated while its file *)
(* was being deleted, or whose deletion died, was subtracted although it   *)
(* stays, and the file of a node whose cached error ran out is never       *)
(* subtracted.  Nothing else changes the difference, and nothing undoes it *)
(* while the zone lives.                                                   *)
(***************************************************************************)
SizeExact ==
    size = SumOf([n \in Nodes |-> node[n].fs])
           - SumOf([d \in Deleters |-> del[d].took]) + used.drift

(***************************************************************************)
(* A node is marked as being updated only while a request that will clear  *)
(* the mark is at work, or if the one that had set it died with its worker *)
(* (orphan): otherwise the stale response would be sent, or the lock       *)
(* waited for, with nobody fetching.                                       *)
(***************************************************************************)
UpdatingOwned ==
    \A n \in Nodes :
      node[n].updating => \/ \E r \in Held(n) : c[r].updating /\ c[r].same
                          \/ node[n].orphan

(***************************************************************************)
(* The lock of a node is exclusive: a request gets it while another has it *)
(* only if that one's lock is older than lock_age (it may have been taken  *)
(* over before), or a response has been stored for the node since.         *)
(***************************************************************************)
OneFetch ==
    [][\A r \in Reqs : ~c[r].updating /\ c'[r].updating =>
         \A s \in Held(c[r].node) \ {r} :
           c[s].updating /\ c[s].same => Aged(c[r].node) \/ c[s].over]_vars

(***************************************************************************)
(* Every request leaves the cache, also when the request it waits for died *)
(* with its worker: with finitely many requests, there are none again and  *)
(* again.                                                                  *)
(***************************************************************************)
RequestsEnd == []<>(\A r \in Reqs : c[r].pc = "idle")
=============================================================================
