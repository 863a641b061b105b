---------------------------- MODULE MasterCycle -----------------------------
(***************************************************************************)
(* The master process: the table of its children, the signals it is sent,  *)
(* and the loop that starts, replaces and stops workers                    *)
(* (src/os/unix/ngx_process_cycle.c, src/os/unix/ngx_process.c).           *)
(*                                                                         *)
(* All signals are blocked outside sigsuspend(), so one turn of the loop   *)
(* is: Wake (the handlers run), ReapChildren, then the branches of the     *)
(* loop body in their order, each of which tests one flag and clears it.   *)
(* The children run concurrently with every one of these steps.            *)
(***************************************************************************)
EXTENDS Integers, FiniteSets, Sequences

CONSTANTS
    Roles,          \* what one start spawns: worker_processes times "worker",
                    \* and "loader" when a cache has one
    MaxProcesses,   \* NGX_MAX_PROCESSES
    Signals,        \* the signals the administrator sends
    MaxSignals,     \* bound: how many of them
    MaxForkFails,   \* bound: failures of fork() or execve()
    MaxCrashes      \* bound: children that die of themselves

SignalNames == {"HUP", "QUIT", "TERM", "USR1", "USR2", "WINCH"}

ASSUME ConstantsAssumption ==
    /\ Roles \in Seq({"worker", "loader"})
    /\ MaxProcesses \in Nat \ {0}
    /\ Signals \subseteq SignalNames
    /\ MaxSignals \in Nat /\ MaxForkFails \in Nat /\ MaxCrashes \in Nat

VARIABLES
    mpc,         \* where the master is in its loop
    pending,     \* signals pending for the master
    flags,       \* the ngx_* sig_atomic_t flags that are set
    live,        \* "live" of the loop
    delay,       \* "delay" of the loop, in milliseconds
    sigio,       \* "sigio" of the loop
    new_binary,  \* ngx_new_binary: 0, NGX_INVALID_PID or a slot's process
    cycle,       \* generation of the configuration the master runs with
    table,       \* ngx_processes: the slots in use, and what each one says
    proc,        \* the process behind each slot
    inbox,       \* commands on their way to it, by channel or by kill()
    gen,         \* generation of the configuration it was forked with
    used         \* how much of each bound is used up

vars == <<mpc, pending, flags, live, delay, sigio, new_binary, cycle, table,
          proc, inbox, gen, used>>

Slots == 1..MaxProcesses
INVALID_PID == -1
FlagNames == {"reap", "sigalrm", "terminate", "quit", "reconfigure",
              "restart", "reopen", "change_binary", "noaccept", "noaccepting"}
Entry == [role : {"worker", "loader", "binary"}, exited : BOOLEAN,
          exiting : BOOLEAN, respawn : BOOLEAN, just_spawn : BOOLEAN,
          detached : BOOLEAN]
Budgets == {"signal", "fork", "crash"}
Delays == {0, 50, 100, 200, 400, 800, 1600}

Alive == {"run", "quitting"}
WorkerProcesses == Cardinality({i \in DOMAIN Roles : Roles[i] = "worker"})

-----------------------------------------------------------------------------
(* ngx_spawn_process: the first free slot, until the table is full. *)

Free == Slots \ DOMAIN table
Position(s) == Cardinality({r \in Free : r <= s})

(* The position of Roles[i] among the spawns that do not fail. *)
Rank(i, failed) == Cardinality({j \in 1..i : j \notin failed})

(* "again" is what the callers pass for NGX_PROCESS_JUST_RESPAWN and       *)
(* NGX_PROCESS_JUST_SPAWN: the start is part of a reload.                  *)
\* mutant: just_spawn is set for every start
NewEntryJust(role, again) ==
    [role |-> role, exited |-> FALSE, exiting |-> FALSE,
     respawn |-> role = "worker", just_spawn |-> TRUE, detached |-> FALSE]

NewEntry(role, again) ==
    [role |-> role, exited |-> FALSE, exiting |-> FALSE,
     respawn |-> role = "worker", just_spawn |-> again, detached |-> FALSE]

(* ngx_start_worker_processes and ngx_start_cache_manager_processes: the   *)
(* result of ngx_spawn_process is not looked at.                           *)
Started(again, failed) ==
    LET At(s) == {i \in DOMAIN Roles \ failed : Rank(i, failed) = Position(s)}
    IN [s \in {r \in Free : At(r) # {}} |->
            NewEntry(Roles[CHOOSE i \in At(s) : TRUE], again)]

Entered(new) ==
    [s \in DOMAIN new \cup DOMAIN table |->
        IF s \in DOMAIN new THEN new[s] ELSE table[s]]

MayFail(failed) ==
    /\ failed \in SUBSET (DOMAIN Roles)
    /\ failed = {} \/ used["fork"] + Cardinality(failed) <= MaxForkFails

(* A spawn fails for want of a slot, too. *)
NotSpawned(failed) ==
    {i \in DOMAIN Roles : i \in failed \/ Rank(i, failed) > Cardinality(Free)}

Fork(started, g) ==
    /\ proc' = [s \in Slots |-> IF s \in DOMAIN started THEN "run" ELSE proc[s]]
    /\ gen' = [s \in Slots |-> IF s \in DOMAIN started THEN g ELSE gen[s]]

Count(kind, n) == used' = [used EXCEPT ![kind] = @ + n]

-----------------------------------------------------------------------------
(* ngx_signal_worker_processes.  A child that was waited for and could not *)
(* be respawned keeps its slot: its channel is closed and kill() says      *)
(* ESRCH.  A zombie that was not waited for still takes the command.       *)

\* mutant: the children that were just spawned are not passed over
SignalledAll(t, signo) ==
    {s \in DOMAIN t : ~t[s].detached /\ ~(t[s].exiting /\ signo = "QUIT")}

Signalled(t, signo) ==
    {s \in DOMAIN t : /\ ~t[s].detached
                      /\ ~t[s].just_spawn
                      /\ ~(t[s].exiting /\ signo = "QUIT")}

Gone(t, signo) == {s \in Signalled(t, signo) : proc[s] = "reaped"}

AfterSignal(t, signo) ==
    [s \in DOMAIN t |->
        IF t[s].just_spawn /\ ~t[s].detached
          THEN [t[s] EXCEPT !.just_spawn = FALSE]
        ELSE IF s \in Gone(t, signo)
          THEN [t[s] EXCEPT !.exited = TRUE, !.exiting = FALSE]
        ELSE IF s \in Signalled(t, signo) /\ signo # "REOPEN"
          THEN [t[s] EXCEPT !.exiting = TRUE]
        ELSE t[s]]

SignalWorkers(t, signo, left) ==
    /\ table' = AfterSignal(t, signo)
    /\ inbox' = [s \in Slots |->
                    IF s \in Signalled(t, signo) \ Gone(t, signo)
                      /\ signo # "REOPEN"
                    THEN inbox[s] \cup {signo} ELSE inbox[s]]
    /\ flags' = left \cup (IF Gone(t, signo) # {} THEN {"reap"} ELSE {})

-----------------------------------------------------------------------------
(* The loop of ngx_master_process_cycle. *)

Init ==
    /\ mpc = "start" /\ pending = {} /\ flags = {} /\ live = 0
    /\ delay = 0 /\ sigio = 0 /\ new_binary = 0 /\ cycle = 0
    /\ table = [s \in {} |-> NewEntry("worker", FALSE)]
    /\ proc = [s \in Slots |-> "none"]
    /\ inbox = [s \in Slots |-> {}]
    /\ gen = [s \in Slots |-> 0]
    /\ used = [k \in Budgets |-> 0]

Start(failed) ==
    /\ mpc = "start"
    /\ MayFail(failed)
    /\ table' = Entered(Started(FALSE, failed))
    /\ Fork(Started(FALSE, failed), cycle)
    /\ Count("fork", Cardinality(NotSpawned(failed)))
    /\ live' = 1
    /\ mpc' = "top"
    /\ UNCHANGED <<pending, flags, delay, sigio, new_binary, cycle, inbox>>

(* The top of the loop.  The bound on delay is the first value above the   *)
(* 1000 ms from which the children are sent SIGKILL.                       *)
Top ==
    /\ mpc = "top"
    /\ mpc' = "suspend"
    /\ IF delay > 0 /\ "sigalrm" \in flags
         THEN /\ sigio' = 0
              /\ delay' = IF delay > 1000 THEN delay ELSE delay * 2
              /\ flags' = flags \ {"sigalrm"}
         ELSE UNCHANGED <<sigio, delay, flags>>
    /\ UNCHANGED <<pending, live, new_binary, cycle, table, proc, inbox, gen,
                   used>>

(* ngx_signal_handler, in the master. *)
FlagOf(sig) ==
    CASE sig = "HUP"   -> {"reconfigure"}
      [] sig = "QUIT"  -> {"quit"}
      [] sig = "TERM"  -> {"terminate"}
      [] sig = "USR1"  -> {"reopen"}
      [] sig = "USR2"  -> IF new_binary > 0 THEN {} ELSE {"change_binary"}
      [] sig = "WINCH" -> {"noaccept"}
      [] sig = "CHLD"  -> {"reap"}
      [] sig = "ALRM"  -> {"sigalrm"}

(* ngx_process_get_status: every child that has died is waited for. *)
Dead == {s \in Slots : proc[s] \in {"zombie", "fatal"}}
\* mutant: one child is waited for on each SIGCHLD
GetStatusOnce ==
    \E d \in Dead :
        /\ table' = [table EXCEPT ![d].exited = TRUE]
        /\ proc' = [proc EXCEPT ![d] = "reaped"]

GetStatus ==
    /\ table' = [s \in DOMAIN table |->
                    IF s \notin Dead THEN table[s]
                    ELSE IF proc[s] = "fatal"
                      THEN [table[s] EXCEPT !.exited = TRUE, !.respawn = FALSE]
                      ELSE [table[s] EXCEPT !.exited = TRUE]]
    /\ proc' = [s \in Slots |-> IF s \in Dead THEN "reaped" ELSE proc[s]]

Wake ==
    /\ mpc = "suspend"
    /\ pending # {}
    /\ pending' = {}
    /\ flags' = flags \cup UNION {FlagOf(sig) : sig \in pending}
    /\ IF "CHLD" \in pending THEN GetStatus ELSE UNCHANGED <<table, proc>>
    /\ mpc' = "reap"
    /\ UNCHANGED <<live, delay, sigio, new_binary, cycle, inbox, gen, used>>

(* ngx_reap_children: a child that may be replaced is forked again in its  *)
(* slot, unless fork() fails; the slot of any other dead child is freed.   *)
Respawned ==
    {s \in DOMAIN table : /\ table[s].exited /\ table[s].respawn
                          /\ ~table[s].exiting
                          /\ flags \cap {"terminate", "quit"} = {}}

\* mutant: the slot of a child that is still exiting is freed with the others
FreedEarly ==
    {s \in DOMAIN table : table[s].exited \/ table[s].exiting} \ Respawned

Freed == {s \in DOMAIN table : table[s].exited} \ Respawned

\* mutant: the children that are exiting do not count
LiveRunning(t) == \E s \in DOMAIN t : ~t[s].exited /\ ~t[s].exiting /\ ~t[s].detached

\* mutant: the children are counted before the dead ones are taken out
LiveStale(t) == \E s \in DOMAIN table : ~table[s].detached

Live(t) == \E s \in DOMAIN t : ~t[s].exited /\ (t[s].exiting \/ ~t[s].detached)

\* mutant: the workers are not started again
RestartForgotten(fl) == fl \ {"noaccepting"}

(* The new binary has exited: start the workers again if they were stopped. *)
RestartAfter(fl) ==
    IF "noaccepting" \in fl THEN (fl \ {"noaccepting"}) \cup {"restart"} ELSE fl

ReapChildren(failed) ==
    LET again == Respawned \ failed
        left  == [s \in DOMAIN table \ Freed |->
                    IF s \in again THEN [table[s] EXCEPT !.exited = FALSE]
                                   ELSE table[s]]
        binaryExited == new_binary \in Freed
    IN /\ mpc = "reap"
       /\ "reap" \in flags
       /\ failed \in SUBSET Respawned
       /\ failed = {} \/ used["fork"] + Cardinality(failed) <= MaxForkFails
       /\ Count("fork", Cardinality(failed))
       /\ table' = left
       /\ proc' = [s \in Slots |-> IF s \in again THEN "run"
                                   ELSE IF s \in Freed THEN "none" ELSE proc[s]]
       /\ gen' = [s \in Slots |-> IF s \in again THEN cycle ELSE gen[s]]
       /\ inbox' = [s \in Slots |-> IF s \in Freed \cup again THEN {} ELSE inbox[s]]
       /\ live' = IF Live(left) THEN 1 ELSE 0
       /\ new_binary' = IF binaryExited THEN 0 ELSE new_binary
       /\ flags' = IF binaryExited THEN RestartAfter(flags \ {"reap"})
                                   ELSE flags \ {"reap"}
       /\ mpc' = "decide"
       /\ UNCHANGED <<pending, delay, sigio, cycle>>

NothingToReap ==
    /\ mpc = "reap"
    /\ "reap" \notin flags
    /\ mpc' = "decide"
    /\ UNCHANGED <<pending, flags, live, delay, sigio, new_binary, cycle, table,
                   proc, inbox, gen, used>>

Stopping == flags \cap {"terminate", "quit"} # {}

(* A branch of the loop body runs when no branch before it has a flag set. *)
Branch(flag, before) ==
    /\ mpc = "decide"
    /\ flag \in flags
    /\ flags \cap before = {}

MasterExit ==
    /\ mpc = "decide"
    /\ live = 0 /\ Stopping
    /\ mpc' = "exited"
    /\ UNCHANGED <<pending, flags, live, delay, sigio, new_binary, cycle, table,
                   proc, inbox, gen, used>>

Terminate ==
    /\ Branch("terminate", {}) /\ live = 1
    /\ delay' = IF delay = 0 THEN 50 ELSE delay
    /\ IF sigio > 0
         THEN sigio' = sigio - 1 /\ UNCHANGED <<table, inbox, flags>>
         ELSE /\ sigio' = WorkerProcesses + 2
              /\ SignalWorkers(table, IF delay' > 1000 THEN "KILL" ELSE "TERM", flags)
    /\ mpc' = "top"
    /\ UNCHANGED <<pending, live, new_binary, cycle, proc, gen, used>>

Quit ==
    /\ Branch("quit", {"terminate"}) /\ live = 1
    /\ SignalWorkers(table, "QUIT", flags)
    /\ mpc' = "top"
    /\ UNCHANGED <<pending, live, delay, sigio, new_binary, cycle, proc, gen, used>>

(* SIGHUP while ngx_new_binary is set: the workers are started again, from *)
(* the configuration in use, and the loop continues.                       *)
ReconfigureUpgraded(failed) ==
    /\ Branch("reconfigure", {"terminate", "quit"})
    /\ new_binary # 0
    /\ MayFail(failed)
    /\ table' = Entered(Started(FALSE, failed))
    /\ Fork(Started(FALSE, failed), cycle)
    /\ Count("fork", Cardinality(NotSpawned(failed)))
    /\ flags' = flags \ {"reconfigure", "noaccepting"}
    /\ mpc' = "top"
    /\ UNCHANGED <<pending, live, delay, sigio, new_binary, cycle, inbox>>

(* ngx_init_cycle fails: the master goes on with the cycle it has. *)
ReconfigureRefused ==
    /\ Branch("reconfigure", {"terminate", "quit"})
    /\ new_binary = 0
    /\ flags' = flags \ {"reconfigure"}
    /\ mpc' = "top"
    /\ UNCHANGED <<pending, live, delay, sigio, new_binary, cycle, table, proc,
                   inbox, gen, used>>

\* mutant: the old workers are not told to quit
ReconfigureForgets(failed) ==
    /\ Branch("reconfigure", {"terminate", "quit"})
    /\ new_binary = 0
    /\ MayFail(failed)
    /\ cycle' = cycle + 1
    /\ Fork(Started(TRUE, failed), cycle')
    /\ table' = Entered(Started(TRUE, failed))
    /\ flags' = flags \ {"reconfigure"}
    /\ Count("fork", Cardinality(NotSpawned(failed)))
    /\ live' = 1
    /\ UNCHANGED <<mpc, pending, delay, sigio, new_binary, inbox>>

Reconfigure(failed) ==
    /\ Branch("reconfigure", {"terminate", "quit"})
    /\ new_binary = 0
    /\ MayFail(failed)
    /\ cycle' = cycle + 1
    /\ Fork(Started(TRUE, failed), cycle')
    /\ SignalWorkers(Entered(Started(TRUE, failed)), "QUIT",
                     flags \ {"reconfigure"})
    /\ Count("fork", Cardinality(NotSpawned(failed)))
    /\ live' = 1
    /\ UNCHANGED <<mpc, pending, delay, sigio, new_binary>>

Restart(failed) ==
    /\ Branch("restart", {"terminate", "quit", "reconfigure"})
    /\ MayFail(failed)
    /\ table' = Entered(Started(FALSE, failed))
    /\ Fork(Started(FALSE, failed), cycle)
    /\ Count("fork", Cardinality(NotSpawned(failed)))
    /\ flags' = flags \ {"restart"}
    /\ live' = 1
    /\ UNCHANGED <<mpc, pending, delay, sigio, new_binary, cycle, inbox>>

Reopen ==
    /\ Branch("reopen", {"terminate", "quit", "reconfigure", "restart"})
    /\ SignalWorkers(table, "REOPEN", flags \ {"reopen"})
    /\ UNCHANGED <<mpc, pending, live, delay, sigio, new_binary, cycle, proc, gen,
                   used>>

(* ngx_exec_new_binary: rename() or fork() may fail, and what it returns   *)
(* then, NGX_INVALID_PID, is stored like any pid.                          *)
BinaryEntry == [NewEntry("binary", FALSE) EXCEPT !.detached = TRUE]

ChangeBinary(ok) ==
    LET child == [s \in {r \in Free : ok /\ Position(r) = 1} |-> BinaryEntry]
    IN /\ Branch("change_binary", {"terminate", "quit", "reconfigure", "restart",
                                   "reopen"})
       /\ ok \/ used["fork"] < MaxForkFails
       /\ table' = Entered(child)
       /\ Fork(child, cycle)
       /\ new_binary' = IF DOMAIN child = {} THEN INVALID_PID
                         ELSE CHOOSE s \in DOMAIN child : TRUE
       /\ Count("fork", IF ok THEN 0 ELSE 1)
       /\ flags' = flags \ {"change_binary"}
       /\ UNCHANGED <<mpc, pending, live, delay, sigio, cycle, inbox>>

NoAccept ==
    /\ Branch("noaccept", {"terminate", "quit", "reconfigure", "restart", "reopen",
                           "change_binary"})
    /\ SignalWorkers(table, "QUIT", (flags \ {"noaccept"}) \cup {"noaccepting"})
    /\ UNCHANGED <<mpc, pending, live, delay, sigio, new_binary, cycle, proc, gen,
                   used>>

LoopEnd ==
    /\ mpc = "decide"
    /\ flags \subseteq {"reap", "sigalrm", "noaccepting"}
    /\ mpc' = "top"
    /\ UNCHANGED <<pending, flags, live, delay, sigio, new_binary, cycle, table,
                   proc, inbox, gen, used>>

MasterStep ==
    \/ Top \/ Wake \/ NothingToReap \/ MasterExit \/ Terminate \/ Quit
    \/ ReconfigureRefused \/ Reopen \/ NoAccept \/ LoopEnd
    \/ \E ok \in BOOLEAN : ChangeBinary(ok)
    \/ \E failed \in SUBSET Slots : ReapChildren(failed)
    \/ \E failed \in SUBSET (DOMAIN Roles) :
         Start(failed) \/ ReconfigureUpgraded(failed) \/ Reconfigure(failed)
           \/ Restart(failed)

-----------------------------------------------------------------------------
(* The children, the administrator and the interval timer. *)

Die(s, how) ==
    /\ proc' = [proc EXCEPT ![s] = how]
    /\ pending' = IF mpc = "exited" THEN pending ELSE pending \cup {"CHLD"}
    /\ UNCHANGED <<mpc, flags, live, delay, sigio, new_binary, cycle, table, inbox,
                   gen>>

(* ngx_worker_process_cycle: told to quit, a worker closes its listening   *)
(* sockets and goes on until its last connection is done.                  *)
WorkerQuit(s) ==
    /\ proc[s] = "run" /\ "QUIT" \in inbox[s]
    /\ proc' = [proc EXCEPT ![s] = "quitting"]
    /\ inbox' = [inbox EXCEPT ![s] = @ \ {"QUIT"}]
    /\ UNCHANGED <<mpc, pending, flags, live, delay, sigio, new_binary, cycle, table,
                   gen, used>>

WorkerDone(s) == proc[s] = "quitting" /\ Die(s, "zombie") /\ UNCHANGED used

WorkerTerm(s) ==
    proc[s] \in Alive /\ "TERM" \in inbox[s] /\ Die(s, "zombie") /\ UNCHANGED used

WorkerKilled(s) ==
    proc[s] \in Alive /\ "KILL" \in inbox[s] /\ Die(s, "zombie") /\ UNCHANGED used

(* The cache loader exits when it has read the cache. *)
LoaderDone(s) ==
    /\ proc[s] = "run" /\ s \in DOMAIN table /\ table[s].role = "loader"
    /\ Die(s, "zombie") /\ UNCHANGED used

(* A worker dies of a signal, or leaves with the fatal exit code 2. *)
WorkerCrash(s, how) ==
    /\ proc[s] \in Alive /\ s \in DOMAIN table /\ ~table[s].detached
    /\ used["crash"] < MaxCrashes
    /\ Die(s, how) /\ Count("crash", 1)

(* The new binary gives up, or is told to quit. *)
BinaryExit(s) ==
    /\ proc[s] = "run" /\ s \in DOMAIN table /\ table[s].detached
    /\ Die(s, "zombie") /\ UNCHANGED used

SendSignal(sig) ==
    /\ mpc # "exited" /\ sig \notin pending
    /\ used["signal"] < MaxSignals
    /\ pending' = pending \cup {sig}
    /\ Count("signal", 1)
    /\ UNCHANGED <<mpc, flags, live, delay, sigio, new_binary, cycle, table, proc,
                   inbox, gen>>

(* setitimer() was called at the top of the loop. *)
Alarm ==
    /\ mpc = "suspend" /\ delay > 0 /\ "ALRM" \notin pending
    /\ pending' = pending \cup {"ALRM"}
    /\ UNCHANGED <<mpc, flags, live, delay, sigio, new_binary, cycle, table, proc,
                   inbox, gen, used>>

ChildStep(s) ==
    \/ WorkerQuit(s) \/ WorkerDone(s) \/ WorkerTerm(s) \/ WorkerKilled(s)
    \/ LoaderDone(s) \/ BinaryExit(s)
    \/ \E how \in {"zombie", "fatal"} : WorkerCrash(s, how)

Next ==
    \/ MasterStep
    \/ Alarm
    \/ \E sig \in Signals : SendSignal(sig)
    \/ \E s \in Slots : ChildStep(s)

Spec == Init /\ [][Next]_vars

(* The master and the kernel's timer are scheduled, and SIGKILL kills: no  *)
(* child is trusted to react to anything else.                             *)
KernelFairness ==
    /\ WF_vars(MasterStep)
    /\ WF_vars(Alarm)
    /\ \A s \in Slots : WF_vars(WorkerKilled(s))

(* Workers read their channel, and their last connection ends. *)
WorkerFairness ==
    \A s \in Slots : WF_vars(WorkerQuit(s)) /\ WF_vars(WorkerDone(s))

KernelSpec == Spec /\ KernelFairness

-----------------------------------------------------------------------------
(* Properties. *)

(* The types of the master's variables and of its children. *)
TypeOK ==
    /\ mpc \in {"start", "top", "suspend", "reap", "decide", "exited"}
    /\ pending \subseteq Signals \cup {"CHLD", "ALRM"}
    /\ flags \subseteq FlagNames
    /\ live \in {0, 1}
    /\ delay \in Delays
    /\ sigio \in 0..(WorkerProcesses + 2)
    /\ new_binary \in Slots \cup {0, INVALID_PID}
    /\ cycle \in Nat
    /\ DOMAIN table \subseteq Slots
    /\ \A s \in DOMAIN table : table[s] \in Entry
    /\ proc \in [Slots -> {"none", "run", "quitting", "zombie", "fatal", "reaped"}]
    /\ inbox \in [Slots -> SUBSET {"QUIT", "TERM", "KILL"}]
    /\ gen \in [Slots -> Nat]
    /\ used \in [Budgets -> Nat]

(* Told to stop, quickly or gracefully, the master leaves only when none   *)
(* of the workers it started is still running: the "live" of its last      *)
(* reaping of children is never out of date when it is tested.             *)
NoOrphans ==
    mpc = "exited" =>
        \A s \in DOMAIN table : ~table[s].detached => proc[s] \notin Alive

(* No worker of an old configuration is forgotten: a child that the master *)
(* has not told to exit was forked with the configuration it has now, even *)
(* when it is the replacement of a worker that died during a reload.       *)
NoStaleWorker ==
    \A s \in DOMAIN table :
        ~table[s].exited /\ ~table[s].exiting /\ ~table[s].detached
            => gen[s] = cycle

(* The workers not told to exit; no new binary is running or upgrading.    *)
Active == {s \in DOMAIN table : /\ table[s].role = "worker"
                                /\ ~table[s].exited /\ ~table[s].exiting}
NoBinary == \A s \in DOMAIN table : ~table[s].detached

(* As long as fork() works, and outside a binary upgrade, the workers not  *)
(* told to exit never outnumber worker_processes, whatever reloads,        *)
(* crashes and respawns come together; and reloading is seamless: until    *)
(* the master is told to stop accepting, and if nothing crashes, at every  *)
(* moment some worker is running that has not been told to quit.           *)
WorkersSteady ==
    /\ used["fork"] = 0 /\ NoBinary => Cardinality(Active) <= WorkerProcesses
    /\ \/ mpc = "start" \/ WorkerProcesses = 0
       \/ used["crash"] > 0 \/ used["fork"] > 0
       \/ flags \cap {"quit", "terminate", "noaccept", "noaccepting"} # {}
       \/ \E s \in Active : proc[s] = "run" /\ inbox[s] = {}

(* A slot of the table is given to a new process only when the process     *)
(* that had it has been waited for; no step drops a child that still runs. *)
NoChildDropped ==
    [][\A s \in Slots :
          proc[s] \in Alive =>
            /\ proc'[s] \in Alive \cup {"zombie", "fatal"}
            /\ s \in DOMAIN table /\ s \in DOMAIN table']_vars

(* A reload replaces the workers: when SIGHUP is handled and no new binary *)
(* is running, either the configuration was refused and no child changes,  *)
(* or every worker that was active has been told to quit.                  *)
ReloadReplaces ==
    [][(/\ "reconfigure" \in flags /\ "reconfigure" \notin flags'
        /\ NoBinary) => table' = table \/ Active \cap Active' = {}]_vars

(* A quick shutdown ends even when no child reacts to anything but         *)
(* SIGKILL, which the doubling delay leads to.  A graceful one ends when   *)
(* the workers finish their connections, also when a reload is under way   *)
(* or a worker dies meanwhile.                                             *)
StopsEnd ==
    /\ ("terminate" \in flags) ~> (mpc = "exited")
    /\ WorkerFairness => (("quit" \in flags) ~> (mpc = "exited"))

(* No dead child stays in the table while the master runs: it is replaced  *)
(* or its slot is freed, as long as fork() works.                          *)
DeadReplaced ==
    WorkerFairness => \A s \in Slots :
        (proc[s] \in {"zombie", "fatal", "reaped"})
            ~> (proc[s] \in Alive \cup {"none"} \/ mpc = "exited" \/ used["fork"] > 0)

(* When the new binary is gone the old master that had stopped accepting   *)
(* has workers again.  (A SIGHUP whose configuration is refused, delivered *)
(* with the SIGCHLD of the new binary, puts that off till the next signal.)*)
RollbackRestarts ==
    WorkerFairness =>
       ((new_binary > 0 /\ "noaccepting" \in flags)
        ~> \/ \E s \in DOMAIN table : table[s].detached /\ proc[s] = "run"
           \/ Active # {} \/ Stopping \/ "reconfigure" \in flags)
=============================================================================
