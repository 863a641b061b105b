# TLA+ models of Tengine

Tengine is an event-driven web server, derived from nginx. A *master* process
starts *workers*; each worker runs one event loop; what the workers have to
agree on is in shared memory. The parts that are hard to test are the ones
between those processes, and between the events of one of them. This project
models them, checks them with TLC on small instances, and proves some of the
properties with TLAPS for all instances.

Paths are relative to the repository (`src/core/...` is nginx's core,
`modules/...` are Tengine's additions). `PROJECT.json` maps every definition
to its lines, and lists runs, hazards and findings.

## 1. The system and its models

| part | code | module |
|---|---|---|
| mutex in shared memory | `src/core/ngx_shmtx.c` | `Shmtx`; `SharedLock` is what it promises |
| listening sockets shared by workers, event loop | `src/event/ngx_event.c`, `ngx_event_accept.c` | `AcceptMutex` |
| master loop, process table, signals | `src/os/unix/ngx_process_cycle.c`, `ngx_process.c` | `MasterCycle` |
| connections, epoll dispatch, posted events | `src/core/ngx_connection.c`, `ngx_epoll_module.c` | `Connections` |
| thread pools | `src/core/ngx_thread_pool.c` | `ThreadPool` |
| requests to upstream servers, cached connections | `src/http/ngx_http_upstream.c`, `ngx_http_upstream_keepalive_module.c` | `Upstream` |
| round robin peers in a shared zone | `src/http/ngx_http_upstream_round_robin.c`, `ngx_http_upstream_zone_module.c` | `RoundRobin`, operators that `Upstream` uses |
| file cache | `src/http/ngx_http_file_cache.c` | `FileCache` |
| dynamic upstreams: commands to all workers | `modules/ngx_http_upstream_dyups_module` | `Dyups` |
| dynamic upstreams: the list of one worker | the same | `DyupsSlots` |
| health checks shared by workers | `modules/ngx_http_upstream_check_module` | `UpstreamCheck` |

`MC...` modules and `.cfg` files are the instances for TLC, `...Proofs` modules
hold theorems.

How they interact: the master reaps a dead worker, takes its mutexes away
(`ngx_unlock_mutexes`) and forks a replacement. `Shmtx` has that master as an
actor, with every atomic operation a step; it implements `SharedLock`, in which
lock and unlock are one step each. The other modules use the mutex in that form,
and the ones with crashes say what the master does about it. `AcceptMutex` puts
the accept mutex, the epoll set, the flag `ngx_accept_mutex_held` and the
master's repair together. `MasterCycle` has the life of the children; what a
worker does meanwhile is in the others. `Dyups` and `DyupsSlots` split one module
of the code: the protocol between workers, and the reference counts inside one.
`Upstream` composes the life of a request, the cache of connections of its worker
and the peers all workers share (`RoundRobin`).

### Shmtx
State: the words `lock` and `wait`, the semaphore, a program counter per
process. Each atomic operation and each semaphore call is an action, so that
`Retry`, `WaitDec`, `SemWait` of one process interleave with `Unlock`,
`Wakeup`, `SemPost` of another. Faults: crash at any point, failing `sem_wait`,
failing `sem_post`. `Reap` is the master's `ngx_process_get_status` with
`ngx_shmtx_force_unlock`. Spinning is abstracted to trying again.

### AcceptMutex
A worker goes round `loop` (trylock, `Turn*`), `wait` (`EpollReturns`),
`accept` (`ngx_event_accept` per socket: `AcceptOne`, `AcceptAgain`,
`AcceptAborted`, `NoFiles`, `NoFilesError`), `tail` (timers, posted events,
signals: `TimerExpires`, `CloseConnection`, `Quit`, `TurnEnds`).
`conf`, chosen once, says whether `accept_mutex` is on, `multi_accept` is on and
the workers have other timers; without the mutex, lack of descriptors is
answered with a timer. Errors of `epoll_ctl` change some sockets and not others.

### MasterCycle
All signals are blocked outside `sigsuspend`, so a turn of the loop is `Wake`
(handlers set flags), `ReapChildren`, then one branch after the other in the
code's order, each an action. The process table has the code's flags per slot
(`exited`, `exiting`, `respawn`, `just_spawn`, `detached`). Children run
concurrently: they take commands, finish, crash, or die with status 2. A
configuration is a generation number; a fork may fail; the table may be full.

### Connections
State: the array's `fd`, `instance` and `reusable`, the free stack with its
counter, the queue of idle connections with its counter, the posted events of
both kinds, the batch `epoll_wait` returned and where its loop is: at the read or
the write leg of an entry (`leg`), each with its own test of `fd` and `instance`.
Whether `revents` has a leg's bit and the event is active is the environment's
choice (`PassEvent`). A handler is any sequence of `ngx_get_connection`,
`ngx_close_connection`, `ngx_reusable_connection` and `ngx_post_event`; that is
what the handlers of all modules are to this part. `ngx_get_connection` first
drains (`DrainTurn`, `DrainEnds`): a loop of several turns, whose close handlers
may keep a connection that still lingers, and that goes back to it once when no
connection was freed. History variables: `born` and `pborn` say which opening of
a slot an event is about, `spare` whether a connection was free or idle when one
was asked for.

### ThreadPool
The worker posts tasks, threads take them under the mutex or wait on the
condition (with spurious wakeups), finished tasks go to a list under a
spinlock, a notification makes the worker empty it, and a handler may post its
task again. `ngx_thread_pool_destroy` sends one exit task per thread, from one
stack variable. `main` says where the worker is: in its loop, in the handler
of the notification, or destroying the pool.

### Upstream, RoundRobin
A request goes from the choice of a peer through connect, send, header and body
to its end, or to the next peer, within `max_tries` and by what
`proxy_next_upstream` allows. Its worker's cache of idle connections is part of
it: reuse, saving, eviction, the close handler. The group is in a shared zone:
`RoundRobin` has the choice with and without weights (smooth weighted round
robin), failures and probes after `fail_timeout`, `max_conns`, down and backup
peers, peers that the health checks find down (`Checked`, at any moment: the flag
is read without a lock), and the reference counts that let a re-resolved name
remove peers that are in use. A worker may die; what it leaves of locks and counts stays.

### FileCache
The zone's nodes with their counts, `updating`, lock time and size; requests
that look up, wait for the lock, fetch, revalidate, serve stale or store; the
manager that expires entries (in two steps, the file is deleted outside the
mutex) and that looks at the limits before it takes the mutex again to enforce
them; the loader; the deletion forced by lack of memory; Vary, which moves a
request to a second key; min_uses, bypass, cached errors; crashes, failed renames,
a renamed file whose size cannot be had, and files that cannot be opened or read.

### Dyups, DyupsSlots
`Dyups`: the queue of messages with the pids that have read each one, the
table of pids and times, what each worker has applied. A command reads the
queue, applies itself and is sent, all under the mutex. A restarted worker
waits, takes the oldest entry of the table for the dead one and replaces that
pid in the messages. Times are kept as an order. `late` are workers that did
not read for two intervals. `used` counts the faults of each kind, so that a
property can name the ones it does not survive. `DyupsSlots`: slots, upstream
objects, references of requests and kept connections, the tree requests search,
failing allocations.

### UpstreamCheck
One server's record in shared memory (owner, time of the last result, counters,
mutex) and the timers of the workers. `conf` says whether the record is fresh or
inherited from the old cycle, whether connections are kept and whether clocks
lag. Time is counted in units; each worker has a cached clock that may lag
(`conf.lag`), and the difference of clock and record is taken modulo a word
(`Modulus`). A discard handler frees the record. A worker may die, in or outside
the mutex.

## 2. What the runs check

Passing runs; the properties and the code they are about are described in the
modules. The number is that of distinct states.

| run | instance | shows |
|---|---|---|
| `shmtx` | 3 workers, a master, 2 faults | `ImplementsSharedLock`: one holder at a time, who leaves or dies, and the lock is only taken from the dead; `TokensAccounted`, `NoLostWakeup`: wake-up tokens are accounted for and a free mutex has no sleeper without one under way; `LockProgress`: without faults, someone who asks makes someone get the lock |
| `accept` | 2 workers, 2 sockets, with and without the mutex and other timers, 2 or 3 events (clients, EMFILE, crash, epoll error); 168,977 | `HolderListens`: the mutex is not held while handlers run, and exactly its holder listens; `NoAcceptAfterClose`: nothing is accepted after the sockets were closed; `Served`: every client is accepted in the end |
| `master_safety` | worker and loader, 5 slots, 2 signals, a crash, a failed fork; 601,592 | `NoOrphans`, `NoStaleWorker`, `NoChildDropped`; `WorkersSteady`: not too many workers, no gap on reload; `ReloadReplaces`: SIGHUP tells every old worker to quit |
| `master_live` | 1 worker, 3 slots, any 3 of HUP, QUIT, TERM, USR2, WINCH, 1 crash | `StopsEnd` (a quick stop even if children react to SIGKILL only), `DeadReplaced`, `RollbackRestarts`: workers come back when a new binary goes |
| `dyups` | 3 workers, 2 commands, 1 fault, 1 late worker; 226,283 | `SurvivorsCurrent`: workers that did not crash have what was commanded; `PidsFit`: one pid is in one entry, and pids fit in the messages; `QueueDrains`: the queue becomes empty |
| `dyups_slots` | 2 requests, 1 connection, 4 upstreams, 1 failing allocation; 218,748 | `NoUseAfterFree`: nothing freed is used or found, one upstream per name |
| `check` | 2 workers, 1 crash also inside the mutex, three conditions (`Quiet`, `Rough`, `Late`); 903,540 | `OneChecker`, `Spaced`: one checker at a time, not more often than `check_interval`; `Hysteresis`: a server changes sides only after enough results in a row; `CheckedAgain` |
| `thread_pool` | 3 threads, 3 tasks, queue of 2; 108,904 | `Conserved`: tasks are neither lost nor doubled; `DoneSeen`, `QueueBounded`; `DestroySafe`, `TasksFinish`: destruction is safe and everything ends |
| `connections` | 2 slots, 3 openings each; 1,605,479 | `PoolSound`: free stack, idle queue, counters and posted events agree; `InstanceCatches`: on both legs `instance` catches one reuse; `RefusedOnlyIfBusy`: a connection is refused only if none was free or idle |
| `file_cache` | 2 or 3 requests, manager, loader, seven configurations (lock, bypass and cached errors, cold zone, full zone, loader in a full zone, Vary, min_uses), a crash, a failed rename or an unreadable file; 464,133 | `HeldNodes`: counts are exact; `SizeExact`: the size is off by exactly what two races leave; `UpdatingOwned`, `OneFetch`: the cache lock has one owner, who is at work; `RequestsEnd` |
| `upstream` | 2 requests in 1 or 2 workers, ten configurations (cached connections and POST, limits, one peer, re-resolution with and without a crash, weights, backup peers with a crash, probes, health checks); 341,655 | `PeersHeld`: a peer in use is not freed, its counts are exact; `ConnsOwned`: a connection has one owner, a cached one is clean; `NextIsNew`: no peer twice for one request, no unsafe resend; `RequestsFinish` |

One run ends in a violation. It checks what the manual says of SIGHUP
(`man/tengine.8`), and finds a behaviour of the code that disagrees:

| run | what happens |
|---|---|
| `master_failed_upgrade` | a USR2 that fails leaves `ngx_new_binary` at -1 (`NGX_INVALID_PID`), which the branch for HUP takes for a running new binary: it starts more workers and tells no old one to quit |

`TypeOK` documents the state in each module. It is a part of `PoolSound`
(`Connections`) and of `NoUseAfterFree` (`DyupsSlots`), and proved for `Shmtx`,
`MasterCycle` and `ThreadPool`.

### Bounds
Faults, signals, commands, openings and arrivals are bounded in the guards by
constants named `Max...` or fields `max_...` of a configuration; a run gives each
the smallest value for which the cases of its hazards occur: two workers race, a
third one observes; one crash opens every recovery path; `MaxOpens = 3` reuses a
slot twice, also within one batch of events; five slots fill the process table
during a reload; a pool queue of 2 is full with three tasks; a cache of one
connection is full with two requests. Where the interesting conditions exclude
each other, `conf` is chosen once from a few configurations, each small enough to
be explored whole. `Reserve` stands for `connection_n / 8`, which would be 0 for
the few connections of an instance, and has a value of its own. For the same
reason the 16, 8 and 32 of `ngx_drain_connections` are constants (`FreeShare`,
`ReuseShare`, `ReuseMax`): the instance gives them 2, 1 and 2, so that with two
slots there are calls that drain nothing, in one turn and in two. `UpstreamCheck`
keeps times relative, so that its states are finite without a bound on time; its
result counters are capped where they no longer make a difference. Symmetry is
used in runs without liveness only. `CHECK_DEADLOCK FALSE` is given where all
processes may be gone or all bounds used up.

### Fairness
Weak fairness for each step of a process that the scheduler would run, for what
the kernel delivers (signals, `wait`) and for requests, each of whose waits has a
timer (`Upstream`, `FileCache`). `epoll_wait` is fair only if there is something
to report or it has a timeout. Strong fairness only for what is bound to be taken
up at some point of a loop: timers, and connections that are closed in the end
(`AcceptMutex`). Clients, signals of the administrator, commands, new requests
and crashes are never fair. In `master_live` only the master and the kernel are
fair; the graceful half of `StopsEnd`, `DeadReplaced` and `RollbackRestarts`
assume `WorkerFairness` (children that do what they are told) in their
statement, and the quick stop does not need it.

### Limits seen
Where the code does not do what one might wish, and no document promises it,
the property names the exception. These are:

* *Mutex*: a worker that dies between taking 1 off `wait` and `sem_post` takes
  a wake-up with it (`TokensAccounted` allows one per fault; `LockProgress` is
  about behaviours without faults).
* *Accept*: with the mutex, a worker out of descriptors sets
  `ngx_accept_disabled` to 1 and no timer; if no worker has any timer, all may
  sleep and none listen (`Served`). A worker with `ngx_accept_disabled > 0`
  that last had the mutex keeps its sockets in epoll (`HolderListens`).
* *Master*: after USR2, WINCH, HUP and QUIT, `live` is stale and the old
  master may leave before its new workers (`NoOrphans` is proved without USR2,
  and `master_safety` has two signals). A respawn that fails, and two reloads,
  make one worker too many (`WorkersSteady` is about forks that work). If no
  worker could be forked at startup, QUIT never ends (`master_live` has no
  failing forks). A refused HUP that comes with the SIGCHLD of the new binary
  is handled first, and the workers are not restarted (`RollbackRestarts`).
* *Dyups*: a restarted worker has the upstreams of the file and gets no old
  commands; the entry of a worker that is late, or that dies before all have
  registered, may be given to the wrong process; a reader without memory
  applies commands in another order (`SurvivorsCurrent`).
* *Health checks*: a record without a result looks abandoned, so two workers
  may check; the end of a kept connection frees the record of another worker;
  a clock behind the record makes the difference wrap (`Calm`). A death inside
  the per-server mutex stops all checks (`CheckedAgain`). The margin before a
  server is taken over is 16 check_intervals: a `check_timeout` above it, or a
  `check_interval` so small that a worker's first timer (1 s at least) is above
  it, breaks `OneChecker`; the code refuses neither. `Roomy` in
  `UpstreamCheckProofs` says what is enough.
* *Connections*: `instance` is one bit; two reuses of a slot within one batch
  look like none (`InstanceCatches`).
* *File cache*: a node taken by a request while the manager deletes its file, and
  a file whose cached error ran out, leave `sh->size` off for good (`drift` in
  `SizeExact`); the lock of a request that dies stays on its node until it is old
  (`orphan` in `UpdatingOwned`); after a
  forced expiry the node is allocated without a second lookup; a manager that
  dies during `unlink` leaves an entry that stops later expiries there; the lock
  time is not renewed when a stale response is updated, and is carried to the
  other node by Vary.
* *Upstream*: `conns` and `refs` of a worker that dies are never returned, and a
  peer removed meanwhile stays in memory (`PeersHeld`); a worker that dies in a
  section of the group's lock stops the group (`RequestsFinish`).

## 3. What is proved

For every value of the constants (the assumptions on them are named in the
modules that declare them). Each proof has one step per action, on an inductive
invariant that TLC checked on the instance of the run first.

* **Shmtx** (`ShmtxProofs`): `TypeOK`; the lock word names the holder or a dead
  worker not yet reaped (`LockWordOwned`), from which the refinement
  `ImplementsSharedLock` and mutual exclusion follow. `NoLostWakeup` needs the
  count `TokensAccounted`: `wait + sem + |Posting| - |Waiting|` is 0, off by at
  most one per fault; the cardinalities of the two sets are followed step by step.
* **AcceptMutex** (`AcceptMutexProofs`): `HolderListens`, `NoAcceptAfterClose`.
  Neither is inductive. `AcceptInv` adds where the owner of the mutex is in its
  turn (`Owns`), that events are handled in one part of the turn only and that a
  worker that exits has none (`Handled`), and, as long as the mutex is used and
  epoll had no error (`Smooth`), that `ngx_accept_mutex_held` says whether all
  sockets are in epoll or none (`Flagged`) and that a worker that waits with the
  flag set has the mutex (`WaitsHeld`).
* **MasterCycle** (`MasterCycleProofs`): `TypeOK`; `TableInv` ties the table to
  the processes (a slot marked exited has been waited for, `just_spawn` is never
  left set between two steps, a free slot has no process). `NoStaleWorker` and
  `NoChildDropped` rest on these. The other three are proved for administrators
  that send no USR2. `NoOrphans` through `LiveInv`: there is no new binary,
  nothing is detached, and when `live` is 0 after the start, every slot is marked
  exited. `WorkersSteady` through `SteadyInv`: while `fork()` works, a dead
  child is in the table only between its SIGCHLD and `ngx_reap_children`, the
  entries of workers not told to exit (`Kept`, dead ones included, as they are
  respawned) are `worker_processes` at most, and until something crashes or a stop
  is asked for, some worker runs that has no command in its channel; the lemmas `Positions`, `StartedAll` and
  `StartedWorkers` show that a start fills as many slots as there are roles.
  `ReloadReplaces` is an action property: after the step that handles SIGHUP,
  every entry that was active is told to exit, because `just_spawn` spares the
  new ones only (`TableInv`).
* **ThreadPool** (`ThreadPoolProofs`): types, with what a thread holds at each
  point; `DoneSeen`; `QueueBounded` from `WaitingExact` (`tp->waiting` is the
  length of the queue less the threads that wait). `Conserved` through `TaskInv`:
  queue, threads and the two lists of finished tasks are disjoint, none has a
  task twice, and together they have the active ones. `DestroySafe` through
  `ExitInv`: the one exit task is somewhere exactly while the worker spins on its
  flag, and threads that are gone and exit tasks still to be sent add up.
* **Connections** (`ConnectionsProofs`): `PoolSound`, `InstanceCatches`,
  `RefusedOnlyIfBusy`. `ConnInv` says that the stack holds the closed slots, the
  queue the idle ones, both once each and with exact counters, that posted events
  belong to the open connection, and that `instance` is the parity of the openings
  in slots and events. `RefusedOnlyIfBusy` needs what the turns of
  `ngx_drain_connections` have done so far (`DrainInv`): while none is
  free, an idle connection is left for the next turn, or that of the last turn
  lingers and is the one the drain goes back to. The theorems hold for any number of
  slots and any limits, so also where `ngx_drain_connections` returns at once
  because a sixteenth is free. Lemmas describe
  `ngx_close_connection`, `ngx_reusable_connection`, a turn of the drain and the
  taking of a slot as functions on sound pools.
* **Dyups** (`DyupsProofs`): `PidsFit` and `SurvivorsCurrent`. `PidsInv` says that `sh->status` is filled
  from its first entry on (`Prefix`), with distinct pids, the `k` entries taken having
  times above `N - k` and the others 0, so that an entry to take over is always
  found, and is a free one as long as there are some; that
  no pid of a process still to be forked is known anywhere (`Known`); and that a
  message has at most as many pids as there are workers (`Fits`), because a
  reader adds its pid only where the array is not full, and the purge replaces a
  pid by another.
  `SurvivorsCurrent` needs `DeliveryInv`: types and numbers (`Basic`) and, while
  no entry was taken too early or from a late worker and memory was not short
  (`Fine`), four facts (`Sound`). (1) `Places`: until all entries of `sh->status` are
  taken nobody has crashed; afterwards every worker can be assigned an entry of
  its own, that of a survivor holds its pid, and that of a new process which still
  sleeps is older than those of all who have read since. So the oldest entry, the
  one a new process takes over, is never a survivor's. (2) `Acked`: a pid in a
  message is that of a process which was started. (3) `Owed`: while a
  survivor has not applied a message, the pids in it belong to different workers,
  the survivor's not among them, so the message has room and is not destroyed.
  (4) `Streamed`: the last message about an upstream that a survivor has not
  applied says what all commands add up to; if there is none, the survivor has
  just that, or its change failed. TLC checked `DeliveryInv` with 3 workers, 2
  commands, 3 faults and no late worker before it was proved.
* **DyupsSlots** (`DyupsSlotsProofs`): `NoUseAfterFree`. `SlotsInv` has that the
  list, the upstream objects and the tree fit together (`Listed`), and that a
  reference count covers its requests and connections (`Held`).
* **UpstreamCheck** (`UpstreamCheckProofs`): `Hysteresis` in all conditions:
  `HystInv` says that the latest `rise` results were good and the latest `fall`
  results bad. `OneChecker` and `Spaced` in calm conditions and if `Roomy`: a check
  ends, and a free server is found, before 16 intervals have passed, and some
  worker lives. `CalmInv` follows a check through its life: who
  makes or ends a check owns the server (`Owned`), frees it right after its result
  (`Cleaned`), begins in time and not too soon (`Reread`) and is done long before
  others lose patience (`Timely`); there are fewer crashes than workers, and one
  that never crashed looks at a free server in time (`Steady`); the age of the
  record bounds how long ago the last check began (`Apart`).

Only model-checked: liveness (fairness and ENABLED are out of the prover's
reach) and the properties of `FileCache` and `Upstream`. The state of the latter
two is in records of records that an action updates along nested paths, and in
sums and folds over sequences of peers, for which the provers have no usable
induction. For binary upgrades `NoOrphans` and `WorkersSteady` do not hold as
they are (see above), and `ReloadReplaces` is the finding. No module uses
`RECURSIVE`.

## 4. What is not modelled

`PROJECT.json` lists every part with its files and the reason. In short:

* *core*: slab allocator, event timers, open file cache, resolver, pools,
  buffers, trees, hashes, strings, JSON: state of one process or of one section
  under a mutex, which the models have through what it gives to its users
  (failing allocations, timers that expire, answers that arrive). Configuration,
  cycle, logging, files: system calls.
* *events*: other methods than epoll, UDP listeners, `reuseport`,
  EPOLLEXCLUSIVE reordering; SSL and its async engines (external library).
* *HTTP*: phases, parsing and filters are about bytes; limits are single
  sections under one mutex; HTTP/2 is the framing of one connection.
* *modules*: ingress and strategy (an external configuration server), multi
  upstream, dynamic resolution per request, reqstat; TFS, dubbo encoding,
  XQUIC/XUDP, Lua, filters, debug modules: external protocols, third-party code
  or no state of their own. Stream and mail repeat the HTTP structures on bytes.
* In modelled parts: the mutex for builds without atomic operations; the
  single-process mode and Windows; content and parsing of dyups commands, and a
  second `ngx_array_push` that fails there; the protocols of health checks and
  their dynamic peers (so `PEER_DELETED` is never met) and, as the workers of a
  new configuration use another zone, their generation; the async leg of epoll
  entries, `ngx_cycle->files`, `ngx_close_idle_connections` and socket options;
  background updates, `min_free` and purging of the file cache, and the files its
  loader deletes because their names are no keys; SSL, upgraded connections, early
  hints, failed allocations, SRV answers, sticky sessions and groups without a
  zone in `Upstream`; `keepalive ... local`, which separates locations that share
  a cache (there is one location), and `preserve_output`, with which gRPC and
  HTTP/2 send the body on after the header (the module has the proxy's HTTP/1.1).

## 5. Running

    tlc -config Shmtx.cfg MCShmtx           # one run; the names are in PROJECT.json
    tlapm ThreadPoolProofs.tla              # one module of proofs
