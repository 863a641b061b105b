------------------------- MODULE MasterCycleProofs --------------------------
(***************************************************************************)
(* Proofs about the master process, for every number of workers, slots,    *)
(* signals, crashes and failed forks.                                      *)
(***************************************************************************)
EXTENDS MasterCycle, FiniteSetTheorems, TLAPS

(* Roles is finite, so what is counted of it is a number. *)
LEMMA RolesFinite ==
    /\ IsFiniteSet(DOMAIN Roles)
    /\ WorkerProcesses \in Nat
    /\ \A failed : Cardinality(NotSpawned(failed)) \in Nat
<1>1. DOMAIN Roles = 1..Len(Roles) /\ Len(Roles) \in Nat
  BY ConstantsAssumption
<1>2. IsFiniteSet(DOMAIN Roles)
  BY <1>1, FS_Interval
<1>3. ASSUME NEW S \in SUBSET (DOMAIN Roles) PROVE Cardinality(S) \in Nat
  BY <1>2, <1>3, FS_Subset, FS_CardinalityType
<1>4. WorkerProcesses \in Nat
  BY <1>3 DEF WorkerProcesses
<1>5. ASSUME NEW failed PROVE Cardinality(NotSpawned(failed)) \in Nat
  BY <1>3 DEF NotSpawned
<1> QED
  BY <1>2, <1>4, <1>5

(* ngx_processes is an array of NGX_MAX_PROCESSES entries. *)
LEMMA SlotsFinite == IsFiniteSet(Slots)
BY ConstantsAssumption, FS_Interval DEF Slots

(* ngx_spawn_process writes only slots that were free, and leaves every    *)
(* field of a new entry set.                                               *)
LEMMA StartedEntries ==
    ASSUME NEW again \in BOOLEAN, NEW failed
    PROVE  /\ DOMAIN Started(again, failed) \subseteq Free
           /\ \A s \in DOMAIN Started(again, failed) :
                /\ Started(again, failed)[s] \in Entry
                /\ ~Started(again, failed)[s].exited
                /\ ~Started(again, failed)[s].exiting
                /\ ~Started(again, failed)[s].detached
                /\ Started(again, failed)[s].just_spawn = again
<1> DEFINE At(s) == {i \in DOMAIN Roles \ failed : Rank(i, failed) = Position(s)}
<1>1. Started(again, failed) =
        [s \in {r \in Free : At(r) # {}} |->
            NewEntry(Roles[CHOOSE i \in At(s) : TRUE], again)]
  BY DEF Started
<1>2. ASSUME NEW s \in Free, At(s) # {}
      PROVE Roles[CHOOSE i \in At(s) : TRUE] \in {"worker", "loader"}
  <2>1. (CHOOSE i \in At(s) : TRUE) \in At(s)
    BY <1>2
  <2>2. At(s) \subseteq DOMAIN Roles
    OBVIOUS
  <2> HIDE DEF At
  <2> QED
    BY <2>1, <2>2, ConstantsAssumption
<1> HIDE DEF At
<1>3. ASSUME NEW r \in {"worker", "loader"}
      PROVE /\ NewEntry(r, again) \in Entry
            /\ ~NewEntry(r, again).exited /\ ~NewEntry(r, again).exiting
            /\ ~NewEntry(r, again).detached
            /\ NewEntry(r, again).just_spawn = again
  BY DEF NewEntry, Entry
<1>4. DOMAIN Started(again, failed) = {r \in Free : At(r) # {}}
  BY <1>1
<1>5. ASSUME NEW s \in DOMAIN Started(again, failed)
      PROVE Started(again, failed)[s] = NewEntry(Roles[CHOOSE i \in At(s) : TRUE], again)
  BY <1>1, <1>4
<1> QED
  BY <1>2, <1>3, <1>4, <1>5

(* Each flag the master sets in an entry leaves it an entry. *)
LEMMA EntryUpdates ==
    ASSUME NEW e \in Entry
    PROVE  /\ [e EXCEPT !.exited = TRUE] \in Entry
           /\ [e EXCEPT !.exited = FALSE] \in Entry
           /\ [e EXCEPT !.exited = TRUE, !.respawn = FALSE] \in Entry
BY Zenon DEF Entry

(* What a master that starts workers enters in the table. *)
LEMMA EnteredEntries ==
    ASSUME TypeOK, NEW again \in BOOLEAN, NEW failed
    PROVE  /\ DOMAIN Entered(Started(again, failed)) \subseteq Slots
           /\ \A s \in DOMAIN Entered(Started(again, failed)) :
                Entered(Started(again, failed))[s] \in Entry
BY StartedEntries DEF Entered, TypeOK, Free

(* A pass of ngx_signal_worker_processes keeps the slots in use. *)
LEMMA SignalledEntries ==
    ASSUME NEW t, NEW signo, \A s \in DOMAIN t : t[s] \in Entry
    PROVE  /\ DOMAIN AfterSignal(t, signo) = DOMAIN t
           /\ \A s \in DOMAIN t : AfterSignal(t, signo)[s] \in Entry
BY ZenonT(30) DEF AfterSignal, Entry

(* Every variable of the master keeps its type: the countdown never goes   *)
(* below zero and the delay doubles within its range.                      *)
THEOREM TypeCorrect == Spec => []TypeOK
<1>1. Init => TypeOK
  BY RolesFinite, ConstantsAssumption DEF Init, TypeOK, Delays, Budgets
<1>2. TypeOK /\ [Next]_vars => TypeOK'
  <2> SUFFICES ASSUME TypeOK, [Next]_vars PROVE TypeOK'
    OBVIOUS
  <2> USE RolesFinite, ConstantsAssumption DEF TypeOK, Budgets
  <2>1. ASSUME NEW t, NEW signo \in {"QUIT", "TERM", "KILL", "REOPEN"}, NEW left,
               DOMAIN t \subseteq Slots, \A s \in DOMAIN t : t[s] \in Entry,
               left \subseteq FlagNames, SignalWorkers(t, signo, left)
        PROVE /\ DOMAIN table' \subseteq Slots
              /\ \A s \in DOMAIN table' : table'[s] \in Entry
              /\ inbox' \in [Slots -> SUBSET {"QUIT", "TERM", "KILL"}]
              /\ flags' \subseteq FlagNames
    BY <2>1, SignalledEntries DEF SignalWorkers, FlagNames
  <2>2. ASSUME NEW failed, Start(failed) \/ ReconfigureUpgraded(failed) \/ Restart(failed)
        PROVE TypeOK'
    <3>1. /\ table' = Entered(Started(FALSE, failed))
          /\ Fork(Started(FALSE, failed), cycle)
          /\ Count("fork", Cardinality(NotSpawned(failed)))
      BY <2>2, Zenon DEF Start, ReconfigureUpgraded, Restart
    <3>2. /\ DOMAIN table' \subseteq Slots
          /\ \A s \in DOMAIN table' : table'[s] \in Entry
      BY <3>1, EnteredEntries, Zenon
    <3>3. /\ proc' \in [Slots -> {"none", "run", "quitting", "zombie", "fatal", "reaped"}]
          /\ gen' \in [Slots -> Nat]
      BY <3>1, Zenon DEF Fork
    <3>4. used' \in [Budgets -> Nat]
      BY <3>1 DEF Count
    <3> QED
      BY <2>2, <3>2, <3>3, <3>4, Zenon DEF Start, ReconfigureUpgraded, Restart
  <2>3. ASSUME NEW failed, Reconfigure(failed)
        PROVE TypeOK'
    <3> DEFINE t == Entered(Started(TRUE, failed))
    <3>1. /\ cycle' = cycle + 1
          /\ Fork(Started(TRUE, failed), cycle')
          /\ SignalWorkers(t, "QUIT", flags \ {"reconfigure"})
          /\ Count("fork", Cardinality(NotSpawned(failed)))
      BY <2>3, Zenon DEF Reconfigure
    <3>2. /\ DOMAIN t \subseteq Slots
          /\ \A s \in DOMAIN t : t[s] \in Entry
      BY EnteredEntries, Zenon
    <3>3. /\ DOMAIN table' \subseteq Slots
          /\ \A s \in DOMAIN table' : table'[s] \in Entry
          /\ inbox' \in [Slots -> SUBSET {"QUIT", "TERM", "KILL"}]
          /\ flags' \subseteq FlagNames
      <4>1. flags \ {"reconfigure"} \subseteq FlagNames
        OBVIOUS
      <4>2. SignalWorkers(t, "QUIT", flags \ {"reconfigure"})
        BY <3>1, Zenon
      <4> HIDE DEF t
      <4> QED
        BY <2>1, <3>2, <4>1, <4>2, Zenon
    <3>6. cycle' \in Nat
      BY <3>1
    <3>4. /\ proc' \in [Slots -> {"none", "run", "quitting", "zombie", "fatal", "reaped"}]
          /\ gen' \in [Slots -> Nat]
      <4>1. Fork(Started(TRUE, failed), cycle')
        BY <3>1, Zenon
      <4> QED
        BY <3>6, <4>1, Zenon DEF Fork
    <3>5. used' \in [Budgets -> Nat]
      BY <3>1 DEF Count
    <3> QED
      BY ZenonT(30), <2>3, <3>3, <3>6, <3>4, <3>5 DEF Reconfigure
  <2>4. CASE Top
    <3>1. delay' \in Delays
      BY SMTT(30), <2>4 DEF Top, Delays
    <3> QED
      BY <2>4, <3>1 DEF Top
  <2>5. CASE Wake
    <3>1. flags' \subseteq FlagNames
      BY SMTT(30), <2>5 DEF Wake, FlagOf, FlagNames, SignalNames
    <3>2. /\ DOMAIN table' \subseteq Slots
          /\ \A s \in DOMAIN table' : table'[s] \in Entry
      <4>1. ASSUME NEW s \in DOMAIN table
            PROVE /\ [table[s] EXCEPT !.exited = TRUE, !.respawn = FALSE] \in Entry
                  /\ [table[s] EXCEPT !.exited = TRUE] \in Entry
        BY EntryUpdates, Zenon
      <4> HIDE DEF Entry
      <4>2. CASE UNCHANGED table
        BY SMTT(30), <4>2
      <4>3. CASE GetStatus
        BY <4>1, <4>3, ZenonT(30) DEF GetStatus
      <4> QED
        BY <2>5, <4>2, <4>3 DEF Wake
    <3>3. proc' \in [Slots -> {"none", "run", "quitting", "zombie", "fatal", "reaped"}]
      BY <2>5, Zenon DEF Wake, GetStatus
    <3> QED
      BY <2>5, <3>1, <3>2, <3>3 DEF Wake
  <2>6. ASSUME NEW failed, ReapChildren(failed)
        PROVE TypeOK'
    <3>1. flags' \subseteq FlagNames
      BY <2>6 DEF ReapChildren, RestartAfter, FlagNames
    <3>2. /\ DOMAIN table' \subseteq Slots
          /\ \A s \in DOMAIN table' : table'[s] \in Entry
      <4>1. ASSUME NEW s \in DOMAIN table
            PROVE [table[s] EXCEPT !.exited = FALSE] \in Entry
        BY EntryUpdates, Zenon
      <4> QED
        BY ZenonT(30), <2>6, <4>1 DEF ReapChildren
    <3>3. /\ proc' \in [Slots -> {"none", "run", "quitting", "zombie", "fatal", "reaped"}]
          /\ gen' \in [Slots -> Nat]
          /\ inbox' \in [Slots -> SUBSET {"QUIT", "TERM", "KILL"}]
      BY ZenonT(30), <2>6 DEF ReapChildren
    <3>4. Cardinality(failed) \in Nat
      <4>1. failed \subseteq Slots
        BY <2>6 DEF ReapChildren, Respawned
      <4> QED
        BY <4>1, SlotsFinite, FS_Subset, FS_CardinalityType
    <3>5. used' \in [Budgets -> Nat]
      BY SMTT(30), <2>6, <3>4 DEF ReapChildren, Count
    <3> QED
      BY <2>6, <3>1, <3>2, <3>3, <3>5, Zenon DEF ReapChildren
  <2>7. CASE NothingToReap \/ MasterExit \/ ReconfigureRefused \/ LoopEnd
    BY <2>7, ZenonT(30) DEF NothingToReap, MasterExit, ReconfigureRefused, LoopEnd
  <2>8. CASE Terminate
    <3>1. delay' \in Delays
      BY <2>8 DEF Terminate, Delays
    <3>2. CASE sigio > 0
      BY <2>8, <3>1, <3>2 DEF Terminate
    <3>3. CASE ~(sigio > 0)
      <4>1. \E signo \in {"TERM", "KILL"} : SignalWorkers(table, signo, flags)
        BY <2>8, <3>3 DEF Terminate
      <4>2. /\ DOMAIN table' \subseteq Slots
            /\ \A s \in DOMAIN table' : table'[s] \in Entry
            /\ inbox' \in [Slots -> SUBSET {"QUIT", "TERM", "KILL"}]
            /\ flags' \subseteq FlagNames
        <5>1. PICK signo \in {"TERM", "KILL"} : SignalWorkers(table, signo, flags)
          BY <4>1
        <5>2. signo \in {"QUIT", "TERM", "KILL", "REOPEN"} /\ flags \subseteq FlagNames
          OBVIOUS
        <5> QED
          BY <2>1, <5>1, <5>2, Zenon
      <4> QED
        BY <2>8, <3>1, <3>3, <4>2 DEF Terminate
    <3> QED
      BY ZenonT(30), <3>2, <3>3
  <2>9. CASE Quit \/ Reopen \/ NoAccept
    BY ZenonT(30), <2>1, <2>9 DEF Quit, Reopen, NoAccept, FlagNames
  <2>10. ASSUME NEW ok, ChangeBinary(ok)
         PROVE TypeOK'
    <3> DEFINE child == [s \in {r \in Free : ok /\ Position(r) = 1} |-> BinaryEntry]
    <3>1. /\ table' = Entered(child)
          /\ Fork(child, cycle)
          /\ new_binary' = IF DOMAIN child = {} THEN INVALID_PID
                           ELSE CHOOSE s \in DOMAIN child : TRUE
      BY <2>10 DEF ChangeBinary
    <3>2. BinaryEntry \in Entry
      BY Zenon DEF BinaryEntry, NewEntry, Entry
    <3>3. DOMAIN child \subseteq Slots
      BY DEF Free
    <3>4. new_binary' \in Slots \cup {0, INVALID_PID}
      <4>1. DOMAIN child # {} => (CHOOSE s \in DOMAIN child : TRUE) \in DOMAIN child
        OBVIOUS
      <4> HIDE DEF child
      <4> QED
        BY <3>1, <3>3, <4>1
    <3>5. /\ DOMAIN table' \subseteq Slots
          /\ \A s \in DOMAIN table' : table'[s] \in Entry
      BY <3>1, <3>2, <3>3, ZenonT(30) DEF Entered
    <3>6. /\ proc' \in [Slots -> {"none", "run", "quitting", "zombie", "fatal", "reaped"}]
          /\ gen' \in [Slots -> Nat]
      BY <3>1 DEF Fork
    <3>7. used' \in [Budgets -> Nat]
      BY <2>10 DEF ChangeBinary, Count
    <3> QED
      BY <2>10, <3>4, <3>5, <3>6, <3>7, Zenon DEF ChangeBinary
  <2>11. CASE Alarm \/ \E sig \in Signals : SendSignal(sig)
    <3>1. CASE Alarm
      BY <3>1 DEF Alarm
    <3>2. ASSUME NEW sig \in Signals, SendSignal(sig)
          PROVE TypeOK'
      <4>1. used' \in [Budgets -> Nat]
        BY <3>2 DEF SendSignal, Count
      <4> QED
        BY <3>2, <4>1, ZenonT(30) DEF SendSignal
    <3> QED
      BY ZenonT(30), <2>11, <3>1, <3>2
  <2>12. ASSUME NEW s \in Slots, ChildStep(s)
         PROVE TypeOK'
    <3>1. CASE WorkerQuit(s)
      BY <3>1 DEF WorkerQuit
    <3>2. CASE \E how \in {"zombie", "fatal"} : Die(s, how) /\ UNCHANGED used
      BY <3>2 DEF Die
    <3>3. CASE \E how \in {"zombie", "fatal"} : Die(s, how) /\ Count("crash", 1)
      BY <3>3 DEF Die, Count
    <3> QED
      BY ZenonT(30), <2>12, <3>1, <3>2, <3>3 DEF ChildStep, WorkerDone, WorkerTerm, WorkerKilled,
         LoaderDone, BinaryExit, WorkerCrash
  <2>13. CASE UNCHANGED vars
    BY <2>13 DEF vars
  <2> QED
    BY <2>2, <2>3, <2>4, <2>5, <2>6, <2>7, <2>8, <2>9, <2>10, <2>11, <2>12, <2>13, Zenon
       DEF Next, MasterStep
<1> QED
  BY <1>1, <1>2, PTL DEF Spec

-----------------------------------------------------------------------------
(* What a pass of ngx_signal_worker_processes may change in an entry. *)
LEMMA SignalFacts ==
    ASSUME NEW t, NEW signo, \A s \in DOMAIN t : t[s] \in Entry,
           NEW s \in DOMAIN t
    PROVE  LET e == AfterSignal(t, signo)[s]
           IN /\ e.exited => t[s].exited \/ proc[s] = "reaped"
              /\ t[s].exited => e.exited
              /\ e.detached = t[s].detached
              /\ e.just_spawn => t[s].detached /\ t[s].just_spawn
              /\ ~e.exited /\ ~e.exiting => ~t[s].exited /\ ~t[s].exiting
              /\ signo = "QUIT" /\ ~e.exited /\ ~e.exiting /\ ~e.detached
                    => t[s].just_spawn
BY ZenonT(30) DEF AfterSignal, Signalled, Gone, Entry

(* The table and the processes agree: a slot marked exited has been waited *)
(* for, a process always has a slot, and just_spawn is clear between the   *)
(* turns of the loop.                                                      *)
TableInv ==
    /\ \A s \in DOMAIN table : /\ table[s].exited => proc[s] = "reaped"
                               /\ ~table[s].just_spawn
    /\ \A s \in Slots \ DOMAIN table : proc[s] = "none"

(* Every step of the master and of its children preserves TableInv. *)
LEMMA TableInvStep == TypeOK /\ TableInv /\ [Next]_vars => TableInv'
<1> SUFFICES ASSUME TypeOK, TableInv, [Next]_vars PROVE TableInv'
  OBVIOUS
<1>1. DOMAIN table \subseteq Slots /\ \A s \in DOMAIN table : table[s] \in Entry
  BY ZenonT(30) DEF TypeOK
<1>2. ASSUME NEW signo, NEW left, SignalWorkers(table, signo, left), UNCHANGED proc
      PROVE TableInv'
  <2>1. DOMAIN table' = DOMAIN table
    BY <1>1, <1>2, SignalledEntries, ZenonT(30) DEF SignalWorkers
  <2>2. ASSUME NEW s \in DOMAIN table
        PROVE (table'[s].exited => proc'[s] = "reaped") /\ ~table'[s].just_spawn
    BY <1>1, <1>2, SignalFacts DEF SignalWorkers, TableInv
  <2> QED
    BY <1>2, <2>1, <2>2, ZenonT(30) DEF TableInv
<1>3. ASSUME NEW failed, Start(failed) \/ ReconfigureUpgraded(failed) \/ Restart(failed)
      PROVE TableInv'
  <2>1. /\ table' = Entered(Started(FALSE, failed))
        /\ Fork(Started(FALSE, failed), cycle)
    BY <1>3, Zenon DEF Start, ReconfigureUpgraded, Restart
  <2> QED
    BY <1>1, <2>1, StartedEntries, Zenon DEF Entered, Fork, Free, TableInv
<1>4. ASSUME NEW failed, Reconfigure(failed)
      PROVE TableInv'
  <2> DEFINE new == Started(TRUE, failed)
             t == Entered(new)
  <2>1. table' = AfterSignal(t, "QUIT") /\ Fork(new, cycle')
    BY <1>4, Zenon DEF Reconfigure, SignalWorkers
  <2>2. DOMAIN new \subseteq Free
        /\ \A s \in DOMAIN new : ~new[s].exited /\ ~new[s].detached
    BY StartedEntries, Zenon
  <2>3. /\ DOMAIN t = DOMAIN new \cup DOMAIN table
        /\ \A s \in DOMAIN new : t[s] = new[s]
        /\ \A s \in DOMAIN table \ DOMAIN new : t[s] = table[s]
    BY DEF Entered
  <2>4. \A s \in DOMAIN t : t[s] \in Entry
    BY EnteredEntries, Zenon
  <2> HIDE DEF t, new
  <2>5. DOMAIN table' = DOMAIN t
    BY <2>1, <2>4, SignalledEntries, ZenonT(30)
  <2>6. ASSUME NEW s \in DOMAIN t
        PROVE (table'[s].exited => proc'[s] = "reaped") /\ ~table'[s].just_spawn
    <3>1. CASE s \in DOMAIN new
      <4>1. s \in Slots \ DOMAIN table
        BY <2>2, <3>1 DEF Free
      <4>2. proc[s] # "reaped"
        BY <4>1, ZenonT(30) DEF TableInv
      <4> QED
        BY <2>1, <2>2, <2>3, <2>4, <3>1, <4>2, SignalFacts
    <3>2. CASE s \notin DOMAIN new
      <4>1. s \in DOMAIN table /\ t[s] = table[s] /\ s \in Slots
        BY <1>1, <2>3, <3>2
      <4>2. proc'[s] = proc[s]
        BY <2>1, <3>2, <4>1 DEF Fork
      <4> QED
        BY <2>1, <2>4, <4>1, <4>2, SignalFacts DEF TableInv
    <3> QED
      BY <3>1, <3>2, ZenonT(30)
  <2>7. \A s \in Slots \ DOMAIN table' : proc'[s] = "none"
    BY <2>1, <2>3, <2>5 DEF Fork, TableInv
  <2> QED
    BY <2>5, <2>6, <2>7 DEF TableInv
<1>5. CASE Wake
  <2>1. CASE UNCHANGED <<table, proc>>
    BY SMTT(30), <2>1 DEF TableInv
  <2>2. CASE GetStatus
    BY <1>1, <2>2, ZenonT(30) DEF GetStatus, TableInv, Dead, Entry
  <2> QED
    BY <1>5, <2>1, <2>2 DEF Wake
<1>6. ASSUME NEW failed, ReapChildren(failed)
      PROVE TableInv'
  <2> DEFINE again == Respawned \ failed
  <2>1. /\ table' = [s \in DOMAIN table \ Freed |->
                        IF s \in again THEN [table[s] EXCEPT !.exited = FALSE]
                                       ELSE table[s]]
        /\ proc' = [s \in Slots |-> IF s \in again THEN "run"
                                    ELSE IF s \in Freed THEN "none" ELSE proc[s]]
    BY <1>6 DEF ReapChildren
  <2>2. again \subseteq DOMAIN table \ Freed
    BY DEF Respawned, Freed
  <2> HIDE DEF again
  <2>3. ASSUME NEW s \in again
        PROVE ~table'[s].exited /\ ~table'[s].just_spawn
    BY <1>1, <2>1, <2>2, <2>3 DEF TableInv, Entry
  <2>4. ASSUME NEW s \in DOMAIN table \ Freed, s \notin again
        PROVE table'[s] = table[s] /\ proc'[s] = proc[s]
    BY <1>1, <2>1, <2>4
  <2>5. \A s \in Slots \ DOMAIN table' : proc'[s] = "none"
    BY <2>1, <2>2 DEF TableInv
  <2>6. DOMAIN table' = DOMAIN table \ Freed
    BY <2>1
  <2> QED
    BY <2>3, <2>4, <2>5, <2>6 DEF TableInv
<1>7. CASE Terminate \/ Quit \/ Reopen \/ NoAccept
  <2>1. \/ UNCHANGED <<table, proc>>
        \/ \E signo, left : SignalWorkers(table, signo, left) /\ UNCHANGED proc
    BY <1>7 DEF Terminate, Quit, Reopen, NoAccept
  <2>2. CASE UNCHANGED <<table, proc>>
    BY <2>2 DEF TableInv
  <2> QED
    BY <1>2, <2>1, <2>2, ZenonT(30)
<1>8. ASSUME NEW ok, ChangeBinary(ok)
      PROVE TableInv'
  BY <1>1, <1>8, ZenonT(30) DEF ChangeBinary, Entered, Fork, Free, BinaryEntry, NewEntry, TableInv
<1>9. ASSUME NEW s \in Slots, ChildStep(s)
      PROVE TableInv'
  <2>1. CASE WorkerQuit(s)
    BY <1>1, <2>1, ZenonT(30) DEF WorkerQuit, TableInv, TypeOK
  <2>2. CASE \E how : Die(s, how) /\ proc[s] \in Alive
    BY <1>1, <2>2 DEF Die, TableInv, TypeOK, Alive
  <2> QED
    BY <1>9, <2>1, <2>2, ZenonT(30) DEF ChildStep, WorkerDone, WorkerTerm, WorkerKilled,
       LoaderDone, BinaryExit, WorkerCrash, Alive
<1>10. CASE UNCHANGED <<table, proc>>
  BY <1>10 DEF TableInv
<1> QED
  BY <1>3, <1>4, <1>5, <1>6, <1>7, <1>8, <1>9, <1>10, ZenonT(30)
     DEF Next, MasterStep, Top, NothingToReap, MasterExit, ReconfigureRefused, LoopEnd,
         Alarm, SendSignal, vars

(* TableInv holds in every state of the master. *)
LEMMA TableInvCorrect == Spec => [](TypeOK /\ TableInv)
<1>1. Init => TableInv
  BY DEF Init, TableInv
<1> QED
  BY <1>1, TypeCorrect, TableInvStep, PTL DEF Spec

(* No child that still runs loses its slot, and a slot passes to another   *)
(* process only after its process died and was waited for.                 *)
THEOREM NoChildDroppedCorrect == Spec => NoChildDropped
<1>1. TypeOK /\ TableInv /\ TableInv' /\ [Next]_vars =>
        [\A s \in Slots :
            proc[s] \in Alive =>
              /\ proc'[s] \in Alive \cup {"zombie", "fatal"}
              /\ s \in DOMAIN table /\ s \in DOMAIN table']_vars
  <2> SUFFICES ASSUME TypeOK, TableInv, TableInv', Next,
                      NEW s \in Slots, proc[s] \in Alive
               PROVE  /\ proc'[s] \in Alive \cup {"zombie", "fatal"}
                      /\ s \in DOMAIN table /\ s \in DOMAIN table'
    OBVIOUS
  <2>1. s \in DOMAIN table /\ ~table[s].exited
    BY ZenonT(30) DEF TableInv, Alive
  <2>2. proc'[s] \in Alive \cup {"zombie", "fatal"}
    <3>1. ASSUME NEW started, NEW g, DOMAIN started \subseteq Free, Fork(started, g)
          PROVE proc'[s] = proc[s]
      BY SMTT(30), <2>1, <3>1 DEF Fork, Free
    <3>2. ASSUME NEW failed, \/ Start(failed) \/ ReconfigureUpgraded(failed)
                             \/ Restart(failed) \/ Reconfigure(failed)
          PROVE proc'[s] = proc[s]
      BY <3>1, <3>2, StartedEntries, ZenonT(30) DEF Start, ReconfigureUpgraded, Restart, Reconfigure
    <3>3. ASSUME NEW ok, ChangeBinary(ok)
          PROVE proc'[s] = proc[s]
      BY <2>1, <3>3, ZenonT(30) DEF ChangeBinary, Fork, Free
    <3>4. CASE Wake
      BY <3>4, Zenon DEF Wake, GetStatus, Dead, Alive
    <3>5. ASSUME NEW failed, ReapChildren(failed)
          PROVE proc'[s] = proc[s]
      BY ZenonT(30), <2>1, <3>5 DEF ReapChildren, Respawned, Freed
    <3>6. ASSUME NEW r \in Slots, ChildStep(r)
          PROVE proc'[s] \in Alive \cup {"zombie", "fatal"}
      BY <3>6 DEF ChildStep, WorkerQuit, WorkerDone, WorkerTerm, WorkerKilled,
         LoaderDone, BinaryExit, WorkerCrash, Die, Alive, TypeOK
    <3>7. CASE UNCHANGED proc
      BY <3>7
    <3> QED
      BY <3>2, <3>3, <3>4, <3>5, <3>6, <3>7, ZenonT(30)
         DEF Next, MasterStep, Top, NothingToReap, MasterExit, ReconfigureRefused,
             LoopEnd, Alarm, SendSignal, Terminate, Quit, Reopen, NoAccept
  <2>3. s \in DOMAIN table'
    BY <2>2 DEF TableInv, Alive
  <2> QED
    BY <2>1, <2>2, <2>3
<1> QED
  BY <1>1, TableInvCorrect, PTL DEF Spec, NoChildDropped

(* A worker that is not told to exit runs with the master's configuration. *)
THEOREM NoStaleWorkerCorrect == Spec => []NoStaleWorker
<1>1. Init => NoStaleWorker
  BY SMTT(30) DEF Init, NoStaleWorker
<1>2. TypeOK /\ TableInv /\ NoStaleWorker /\ [Next]_vars => NoStaleWorker'
  <2> SUFFICES ASSUME TypeOK, TableInv, NoStaleWorker, [Next]_vars PROVE NoStaleWorker'
    OBVIOUS
  <2>1. DOMAIN table \subseteq Slots /\ \A s \in DOMAIN table : table[s] \in Entry
    BY ZenonT(30) DEF TypeOK
  <2>2. ASSUME NEW signo, NEW left, SignalWorkers(table, signo, left),
               UNCHANGED <<gen, cycle>>
        PROVE NoStaleWorker'
    <3>1. DOMAIN table' = DOMAIN table
      BY <2>1, <2>2, SignalledEntries DEF SignalWorkers
    <3> QED
      BY <2>1, <2>2, <3>1, SignalFacts DEF SignalWorkers, NoStaleWorker
  <2>3. ASSUME NEW failed, Start(failed) \/ ReconfigureUpgraded(failed) \/ Restart(failed)
        PROVE NoStaleWorker'
    <3>1. /\ table' = Entered(Started(FALSE, failed))
          /\ Fork(Started(FALSE, failed), cycle)
          /\ cycle' = cycle
      BY <2>3, Zenon DEF Start, ReconfigureUpgraded, Restart
    <3> QED
      BY <2>1, <3>1, StartedEntries, Zenon DEF Entered, Fork, Free, NoStaleWorker
  <2>4. ASSUME NEW failed, Reconfigure(failed)
        PROVE NoStaleWorker'
    <3> DEFINE new == Started(TRUE, failed)
               t == Entered(new)
    <3>1. table' = AfterSignal(t, "QUIT") /\ Fork(new, cycle')
      BY <2>4, Zenon DEF Reconfigure, SignalWorkers
    <3>2. /\ DOMAIN t = DOMAIN new \cup DOMAIN table
          /\ \A s \in DOMAIN table \ DOMAIN new : t[s] = table[s]
      BY DEF Entered
    <3>3. /\ \A s \in DOMAIN t : t[s] \in Entry
          /\ DOMAIN t \subseteq Slots
      BY EnteredEntries, Zenon
    <3> HIDE DEF t, new
    <3>4. DOMAIN table' = DOMAIN t
      BY <3>1, <3>3, SignalledEntries, ZenonT(30)
    <3>5. ASSUME NEW s \in DOMAIN t, ~table'[s].exited, ~table'[s].exiting,
                 ~table'[s].detached
          PROVE gen'[s] = cycle'
      <4>1. t[s].just_spawn
        BY <3>1, <3>3, <3>5, SignalFacts, ZenonT(30)
      <4>2. s \in DOMAIN new
        BY <3>2, <4>1 DEF TableInv
      <4> QED
        BY <3>1, <3>3, <4>2, ZenonT(30) DEF Fork
    <3> QED
      BY <3>4, <3>5 DEF NoStaleWorker
  <2>5. CASE Wake
    <3>1. gen' = gen /\ cycle' = cycle
      BY <2>5 DEF Wake
    <3>2. CASE UNCHANGED table
      BY SMTT(30), <3>1, <3>2 DEF NoStaleWorker
    <3>3. CASE GetStatus
      BY <2>1, <3>1, <3>3, Zenon DEF GetStatus, NoStaleWorker, Entry
    <3> QED
      BY <2>5, <3>2, <3>3 DEF Wake
  <2>6. ASSUME NEW failed, ReapChildren(failed)
        PROVE NoStaleWorker'
    <3> DEFINE again == Respawned \ failed
    <3>1. /\ table' = [s \in DOMAIN table \ Freed |->
                          IF s \in again THEN [table[s] EXCEPT !.exited = FALSE]
                                         ELSE table[s]]
          /\ gen' = [s \in Slots |-> IF s \in again THEN cycle ELSE gen[s]]
          /\ cycle' = cycle
      BY <2>6 DEF ReapChildren
    <3> HIDE DEF again
    <3> QED
      BY <2>1, <3>1 DEF NoStaleWorker
  <2>7. CASE Terminate \/ Quit \/ Reopen \/ NoAccept
    <3>1. \/ UNCHANGED <<table, gen, cycle>>
          \/ \E signo, left : SignalWorkers(table, signo, left) /\ UNCHANGED <<gen, cycle>>
      BY <2>7 DEF Terminate, Quit, Reopen, NoAccept
    <3>2. CASE UNCHANGED <<table, gen, cycle>>
      BY <3>2 DEF NoStaleWorker
    <3> QED
      BY <2>2, <3>1, <3>2, ZenonT(30)
  <2>8. ASSUME NEW ok, ChangeBinary(ok)
        PROVE NoStaleWorker'
    BY <2>1, <2>8 DEF ChangeBinary, Entered, Fork, Free, BinaryEntry, NewEntry,
       NoStaleWorker
  <2>9. CASE UNCHANGED <<table, gen, cycle>>
    BY <2>9 DEF NoStaleWorker
  <2> QED
    BY <2>3, <2>4, <2>5, <2>6, <2>7, <2>8, <2>9, Zenon
       DEF Next, MasterStep, Top, NothingToReap, MasterExit, ReconfigureRefused, LoopEnd,
           Alarm, SendSignal, ChildStep, WorkerQuit, WorkerDone, WorkerTerm, WorkerKilled,
           LoaderDone, BinaryExit, WorkerCrash, Die, vars
<1> QED
  BY <1>1, <1>2, TableInvCorrect, PTL DEF Spec

-----------------------------------------------------------------------------
(* Without binary upgrades "live" is never out of date: when it is 0 every *)
(* child that has a slot has been waited for.                              *)
LiveInv ==
    /\ new_binary = 0 /\ "change_binary" \notin flags
    /\ \A s \in DOMAIN table : ~table[s].detached
    /\ live = 0 /\ mpc # "start" => \A s \in DOMAIN table : table[s].exited
    /\ mpc = "exited" => live = 0

(* Without a binary upgrade, live of the last reaping is never 0 while a    *)
(* child the master does not know dead is left.                            *)
LEMMA LiveInvCorrect ==
    ASSUME "USR2" \notin Signals
    PROVE  Spec => [](TypeOK /\ TableInv /\ LiveInv)
<1>1. Init => LiveInv
  BY ZenonT(30) DEF Init, LiveInv
<1>2. TypeOK /\ TableInv /\ LiveInv /\ [Next]_vars => LiveInv'
  <2> SUFFICES ASSUME TypeOK, TableInv, LiveInv, [Next]_vars PROVE LiveInv'
    OBVIOUS
  <2>1. DOMAIN table \subseteq Slots /\ \A s \in DOMAIN table : table[s] \in Entry
    BY DEF TypeOK
  <2>2. ASSUME NEW signo, NEW left, SignalWorkers(table, signo, left),
               "change_binary" \notin left,
               live' = live, new_binary' = new_binary,
               mpc # "start", mpc' # "exited"
        PROVE LiveInv'
    <3>1. DOMAIN table' = DOMAIN table
      BY ZenonT(30), <2>1, <2>2, SignalledEntries DEF SignalWorkers
    <3>2. ASSUME NEW s \in DOMAIN table
          PROVE ~table'[s].detached /\ (table[s].exited => table'[s].exited)
      BY <2>1, <2>2, SignalFacts DEF SignalWorkers, LiveInv
    <3>3. "change_binary" \notin flags'
      BY <2>2 DEF SignalWorkers
    <3>4. ASSUME NEW s \in DOMAIN table'
          PROVE ~table'[s].detached /\ (live' = 0 => table'[s].exited)
      BY <2>2, <3>1, <3>2 DEF LiveInv
    <3>6. new_binary' = 0
      BY <2>2 DEF LiveInv
    <3> QED
      BY <2>2, <3>3, <3>4, <3>6, ZenonT(30) DEF LiveInv
  <2>3. ASSUME NEW failed, Start(failed) \/ Restart(failed)
        PROVE LiveInv'
    <3>1. table' = Entered(Started(FALSE, failed))
      BY <2>3, Zenon DEF Start, Restart
    <3>3. /\ live' = 1 /\ mpc' # "exited" /\ new_binary' = 0
          /\ "change_binary" \notin flags'
      BY <2>3, Zenon DEF Start, Restart, Branch, LiveInv
    <3>2. ASSUME NEW s \in DOMAIN table' PROVE ~table'[s].detached
      BY <3>1, StartedEntries, Zenon DEF Entered, LiveInv
    <3> QED
      BY <3>2, <3>3 DEF LiveInv
  <2>4. ASSUME NEW failed, Reconfigure(failed)
        PROVE LiveInv'
    <3> DEFINE new == Started(TRUE, failed)
               t == Entered(new)
    <3>1. /\ table' = AfterSignal(t, "QUIT")
          /\ live' = 1 /\ mpc' # "exited" /\ new_binary' = new_binary
          /\ "change_binary" \notin flags'
      BY <2>4 DEF Reconfigure, SignalWorkers, Branch, LiveInv
    <3>2. \A s \in DOMAIN t : t[s] \in Entry /\ ~t[s].detached
      BY EnteredEntries, StartedEntries, Zenon DEF Entered, LiveInv
    <3> HIDE DEF t, new
    <3>3. DOMAIN table' = DOMAIN t /\ \A s \in DOMAIN t : ~table'[s].detached
      BY <3>1, <3>2, SignalledEntries, SignalFacts
    <3> QED
      BY <3>1, <3>3 DEF LiveInv
  <2>5. CASE Wake
    <3>1. "change_binary" \notin flags'
      <4>1. pending \subseteq (SignalNames \ {"USR2"}) \cup {"CHLD", "ALRM"}
        BY ConstantsAssumption DEF TypeOK
      <4>2. ASSUME NEW sig \in pending PROVE "change_binary" \notin FlagOf(sig)
        BY <4>1, <4>2, ZenonT(30) DEF FlagOf, SignalNames
      <4> QED
        BY <2>5, <4>2 DEF Wake, LiveInv
    <3>2. /\ DOMAIN table' = DOMAIN table
          /\ \A s \in DOMAIN table : /\ ~table'[s].detached
                                     /\ table[s].exited => table'[s].exited
      <4>1. CASE UNCHANGED table
        BY SMTT(30), <4>1 DEF LiveInv
      <4>2. CASE GetStatus
        BY <2>1, <4>2, Zenon DEF GetStatus, LiveInv, Entry
      <4> QED
        BY <2>5, <4>1, <4>2, ZenonT(30) DEF Wake
    <3> QED
      BY <2>5, <3>1, <3>2, ZenonT(30) DEF Wake, LiveInv
  <2>6. ASSUME NEW failed, ReapChildren(failed)
        PROVE LiveInv'
    <3> DEFINE left == [s \in DOMAIN table \ Freed |->
                          IF s \in Respawned \ failed
                            THEN [table[s] EXCEPT !.exited = FALSE]
                            ELSE table[s]]
    <3>1. /\ table' = left /\ live' = (IF Live(left) THEN 1 ELSE 0)
          /\ mpc' = "decide"
      BY <2>6 DEF ReapChildren
    <3>2. new_binary' = 0 /\ "change_binary" \notin flags'
      BY <2>6 DEF ReapChildren, RestartAfter, LiveInv
    <3>3. \A s \in DOMAIN left : ~left[s].detached
      BY <2>1 DEF LiveInv, Entry
    <3> HIDE DEF left
    <3> QED
      BY <3>1, <3>2, <3>3 DEF Live, LiveInv
  <2>7. CASE Terminate \/ Quit \/ Reopen \/ NoAccept
    <3>1. /\ live' = live /\ new_binary' = new_binary
          /\ mpc # "start" /\ mpc' # "exited"
      BY <2>7, ZenonT(30) DEF Terminate, Quit, Reopen, NoAccept, Branch
    <3>2. \/ UNCHANGED <<table, flags>>
          \/ \E signo, left : /\ SignalWorkers(table, signo, left)
                              /\ "change_binary" \notin left
      BY <2>7 DEF Terminate, Quit, Reopen, NoAccept, LiveInv
    <3>3. CASE UNCHANGED <<table, flags>>
      BY <3>1, <3>3 DEF LiveInv
    <3> QED
      BY <2>2, <3>1, <3>2, <3>3, ZenonT(30)
  <2>8. CASE MasterExit
    BY <2>8, ZenonT(30) DEF MasterExit, LiveInv
  <2>9. CASE Top \/ NothingToReap \/ ReconfigureRefused \/ LoopEnd
    BY <2>9 DEF Top, NothingToReap, ReconfigureRefused, LoopEnd, Branch, LiveInv
  <2>10. CASE UNCHANGED <<new_binary, flags, table, live, mpc>>
    BY <2>10 DEF LiveInv
  <2>11. ~(\E ok \in BOOLEAN : ChangeBinary(ok))
         /\ ~(\E failed \in SUBSET (DOMAIN Roles) : ReconfigureUpgraded(failed))
    BY Zenon DEF ChangeBinary, ReconfigureUpgraded, Branch, LiveInv
  <2> QED
    BY <2>3, <2>4, <2>5, <2>6, <2>7, <2>8, <2>9, <2>10, <2>11, ZenonT(30)
       DEF Next, MasterStep, Alarm, SendSignal, ChildStep, WorkerQuit, WorkerDone,
           WorkerTerm, WorkerKilled, LoaderDone, BinaryExit, WorkerCrash, Die, vars
<1> QED
  BY <1>1, <1>2, TableInvCorrect, PTL DEF Spec

(* As long as the administrator does not start a binary upgrade, a master  *)
(* that exits leaves no worker running.                                    *)
THEOREM NoOrphansCorrect ==
    ASSUME "USR2" \notin Signals
    PROVE  Spec => []NoOrphans
<1>1. TableInv /\ LiveInv => NoOrphans
  BY DEF TableInv, LiveInv, NoOrphans, Alive
<1> QED
  BY <1>1, LiveInvCorrect, PTL

-----------------------------------------------------------------------------
(* The workers that are, or will be, active; those that make a reload      *)
(* seamless.                                                               *)
Kept == {s \in DOMAIN table : table[s].role = "worker" /\ ~table[s].exiting}

Serving == {s \in Active : proc[s] = "run" /\ inbox[s] = {}}

(* As long as fork() works, a dead child is in the table only between the  *)
(* SIGCHLD and ngx_reap_children.                                          *)
Settled ==
    /\ mpc = "start" => DOMAIN table = {}
    /\ \A s \in DOMAIN table :
          /\ proc[s] = "reaped" => table[s].exited
          /\ table[s].exited => mpc = "reap" /\ "reap" \in flags
    /\ Cardinality(Kept) <= WorkerProcesses

Stops == {"quit", "terminate", "noaccept", "noaccepting"}

Seamless ==
    \/ mpc = "start" \/ WorkerProcesses = 0 \/ used["crash"] > 0
    \/ \E f \in Stops : f \in flags
    \/ Serving # {}

SteadyInv ==
    /\ "restart" \notin flags
    /\ \A s \in Slots \ DOMAIN table : inbox[s] = {}
    /\ used["fork"] = 0 => Settled /\ Seamless

(* ngx_spawn_process takes the free slots in their order: no two of them   *)
(* have the same position, and there is one at each.                       *)
LEMMA Positions ==
    /\ IsFiniteSet(Free) /\ Cardinality(Free) \in Nat
    /\ \A s \in Free : Position(s) \in 1..Cardinality(Free)
    /\ \A s, u \in Free : Position(s) = Position(u) => s = u
    /\ \A i \in 1..Cardinality(Free) : \E s \in Free : Position(s) = i
<1> DEFINE Low(s) == {r \in Free : r <= s}
           n == Cardinality(Free)
<1>1. Free \in SUBSET Slots /\ \A s \in Free : s \in Int
  BY ConstantsAssumption DEF Free, Slots
<1>2. IsFiniteSet(Free) /\ n \in Nat
  BY <1>1, SlotsFinite, FS_Subset, FS_CardinalityType, ZenonT(30)
<1>3. ASSUME NEW s \in Free
      PROVE  /\ Low(s) \in SUBSET Free /\ s \in Low(s) /\ IsFiniteSet(Low(s))
             /\ Position(s) = Cardinality(Low(s)) /\ Position(s) \in 1..n
  <2>1. Low(s) \in SUBSET Free /\ s \in Low(s) /\ Position(s) = Cardinality(Low(s))
    BY <1>1 DEF Position
  <2> HIDE DEF Low, n
  <2>2. IsFiniteSet(Low(s)) /\ Cardinality(Low(s)) <= n /\ Cardinality(Low(s)) \in Nat
    BY <1>2, <2>1, FS_Subset, FS_CardinalityType DEF n
  <2>3. Cardinality(Low(s)) # 0
    BY <2>1, <2>2, FS_EmptySet, Zenon
  <2> QED
    BY <1>2, <2>1, <2>2, <2>3
<1>4. ASSUME NEW s \in Free, NEW u \in Free, s < u PROVE Position(s) # Position(u)
  <2>1. Low(s) \in SUBSET Low(u) /\ u \notin Low(s)
    BY <1>1, <1>4
  <2> HIDE DEF Low
  <2>2. Cardinality(Low(u)) = Cardinality(Low(s)) => Low(u) = Low(s)
    BY <1>3, <2>1, FS_Subset
  <2> QED
    BY <1>3, <2>1, <2>2
<1>5. \A s, u \in Free : Position(s) = Position(u) => s = u
  BY <1>1, <1>4
<1>6. \A i \in 1..n : \E s \in Free : Position(s) = i
  <2> DEFINE f == [s \in Free |-> Position(s)]
  <2>1. f \in Injection(Free, 1..n)
    BY <1>3, <1>5, Zenon DEF Injection, IsInjective
  <2>2. IsFiniteSet(1..n) /\ Cardinality(1..n) = n
    BY <1>2, FS_Interval
  <2> HIDE DEF f
  <2>3. f \in Surjection(Free, 1..n)
    BY ZenonT(30), <2>1, <2>2, FS_Injection
  <2> QED
    BY <2>3, Zenon DEF Surjection, f
<1> QED
  BY <1>2, <1>3, <1>5, <1>6, Zenon

(* When no fork() fails and the table has room, every role has a slot.     *)
LEMMA StartedAll ==
    ASSUME NEW again \in BOOLEAN, NEW failed \in SUBSET (DOMAIN Roles),
           Cardinality(NotSpawned(failed)) = 0
    PROVE  /\ DOMAIN Started(again, failed) = {s \in Free : Position(s) \in DOMAIN Roles}
           /\ \A s \in DOMAIN Started(again, failed) :
                 Started(again, failed)[s].role = Roles[Position(s)]
           /\ \A i \in DOMAIN Roles : \E s \in Free : Position(s) = i
<1> DEFINE At(s) == {i \in DOMAIN Roles \ failed : Rank(i, failed) = Position(s)}
<1>1. DOMAIN Roles = 1..Len(Roles) /\ Len(Roles) \in Nat
  BY ConstantsAssumption
<1>2. NotSpawned(failed) = {}
  <2>1. NotSpawned(failed) \in SUBSET (DOMAIN Roles)
    BY DEF NotSpawned
  <2>2. IsFiniteSet(NotSpawned(failed))
    BY <2>1, RolesFinite, FS_Subset
  <2> QED
    BY <2>2, FS_EmptySet, Zenon
<1>3. failed = {}
  BY <1>2 DEF NotSpawned
<1>4. ASSUME NEW i \in DOMAIN Roles PROVE Rank(i, failed) = i
  <2>1. {j \in 1..i : j \notin failed} = 1..i
    BY <1>3
  <2>2. Cardinality(1..i) = i
    BY <1>1, FS_Interval
  <2> QED
    BY <2>1, <2>2, Zenon DEF Rank
<1>5. ASSUME NEW i \in DOMAIN Roles PROVE \E s \in Free : Position(s) = i
  <2>1. ~(i > Cardinality(Free))
    BY <1>2, <1>4 DEF NotSpawned
  <2>2. i \in 1..Cardinality(Free)
    BY <1>1, <2>1, Positions
  <2> QED
    BY <2>2, Positions, Zenon
<1>6. ASSUME NEW s PROVE At(s) = {i \in DOMAIN Roles : i = Position(s)}
  BY <1>3, <1>4
<1>7. Started(again, failed) =
        [s \in {r \in Free : At(r) # {}} |->
            NewEntry(Roles[CHOOSE i \in At(s) : TRUE], again)]
  BY DEF Started
<1> HIDE DEF At
<1>8. ASSUME NEW s \in Free
      PROVE  /\ At(s) # {} <=> Position(s) \in DOMAIN Roles
             /\ At(s) # {} => (CHOOSE i \in At(s) : TRUE) = Position(s)
  BY <1>6
<1>9. DOMAIN Started(again, failed) = {s \in Free : Position(s) \in DOMAIN Roles}
  BY ZenonT(30), <1>7, <1>8
<1>10. ASSUME NEW s \in DOMAIN Started(again, failed)
       PROVE  Started(again, failed)[s].role = Roles[Position(s)]
  <2>1. s \in Free /\ At(s) # {}
    BY <1>7
  <2>2. Started(again, failed)[s] = NewEntry(Roles[Position(s)], again)
    BY <1>7, <1>8, <2>1, Zenon
  <2> QED
    BY <2>2 DEF NewEntry
<1> QED
  BY <1>5, <1>9, <1>10

(* Then the new workers are worker_processes at most, and there are some.  *)
LEMMA StartedWorkers ==
    ASSUME NEW again \in BOOLEAN, NEW failed \in SUBSET (DOMAIN Roles),
           Cardinality(NotSpawned(failed)) = 0, NEW W,
           W = {s \in DOMAIN Started(again, failed) : Started(again, failed)[s].role = "worker"}
    PROVE  Cardinality(W) <= WorkerProcesses /\ (WorkerProcesses # 0 => W # {})
<1> DEFINE R == {i \in DOMAIN Roles : Roles[i] = "worker"}
           f == [s \in W |-> Position(s)]
<1>1. \A s \in W : s \in Free /\ Position(s) \in R
  BY ZenonT(30), StartedAll
<1>2. f \in Injection(W, R)
  BY <1>1, Positions, Zenon DEF Injection, IsInjective
<1>3. IsFiniteSet(R) /\ WorkerProcesses = Cardinality(R) /\ R \in SUBSET (DOMAIN Roles)
  <2>1. R \in SUBSET (DOMAIN Roles) /\ WorkerProcesses = Cardinality(R)
    BY DEF WorkerProcesses
  <2> HIDE DEF R
  <2> QED
    BY <2>1, RolesFinite, FS_Subset
<1>4. ASSUME WorkerProcesses # 0 PROVE W # {}
  <2>1. PICK i \in R : TRUE
    BY <1>3, <1>4, FS_EmptySet, Zenon
  <2>2. PICK s \in Free : Position(s) = i
    BY <2>1, StartedAll, Zenon
  <2>3. s \in DOMAIN Started(again, failed)
    BY <2>1, <2>2, StartedAll, Zenon
  <2>4. s \in W
    BY ZenonT(30), <2>1, <2>2, <2>3, StartedAll
  <2> QED
    BY <2>4
<1> HIDE DEF f, R
<1>5. Cardinality(W) <= WorkerProcesses
  BY <1>2, <1>3, FS_Injection
<1> QED
  BY <1>4, <1>5

-----------------------------------------------------------------------------
(* Kept only shrinks in a step that starts no process.                     *)
LEMMA KeptShrinks ==
    ASSUME TypeOK, Kept' \in SUBSET Kept, Cardinality(Kept) <= WorkerProcesses
    PROVE  Cardinality(Kept') <= WorkerProcesses
<1>1. Kept \in SUBSET Slots
  BY DEF TypeOK, Kept
<1>2. IsFiniteSet(Kept)
  BY <1>1, SlotsFinite, FS_Subset, ZenonT(30)
<1>3. IsFiniteSet(Kept') /\ Cardinality(Kept') <= Cardinality(Kept)
  BY <1>2, FS_Subset
<1> QED
  BY <1>2, <1>3, RolesFinite, FS_CardinalityType

(* What a pass of ngx_signal_worker_processes does to an entry that is not *)
(* of a child that is gone.                                                *)
LEMMA SignalKeeps ==
    ASSUME NEW t, NEW signo, NEW s \in DOMAIN t, t[s] \in Entry,
           t[s].just_spawn \/ proc[s] # "reaped"
    PROVE  LET e == AfterSignal(t, signo)[s]
           IN /\ e.role = t[s].role /\ e.exited = t[s].exited
              /\ t[s].exiting => e.exiting
              /\ signo = "REOPEN" \/ t[s].just_spawn => e.exiting = t[s].exiting
              /\ signo = "QUIT" /\ ~t[s].just_spawn /\ ~t[s].detached => e.exiting
BY Zenon DEF AfterSignal, Signalled, Gone, Entry

(* Signals to the workers that are in the table.                           *)
LEMMA SignalSteady ==
    ASSUME TypeOK, TableInv, LiveInv, SteadyInv, NEW signo, NEW left,
           SignalWorkers(table, signo, left), UNCHANGED <<proc, used>>,
           mpc = "decide", mpc' \in {"top", "decide"}, "restart" \notin left,
           \/ \E f \in Stops : f \in left
           \/ signo = "REOPEN" /\ left = flags \ {"reopen"}
    PROVE  SteadyInv'
<1>1. /\ DOMAIN table \subseteq Slots /\ \A s \in DOMAIN table : table[s] \in Entry
      /\ table' = AfterSignal(table, signo) /\ DOMAIN table' = DOMAIN table
  BY ZenonT(30), SignalledEntries DEF TypeOK, SignalWorkers
<1>2. "restart" \notin flags' /\ left \subseteq flags'
  BY DEF SignalWorkers
<1>3. \A s \in Slots \ DOMAIN table' : inbox'[s] = {}
  BY <1>1 DEF SignalWorkers, Signalled, SteadyInv
<1>4. ASSUME used'["fork"] = 0 PROVE Settled' /\ Seamless'
  <2>1. Settled /\ Seamless
    BY <1>4 DEF SteadyInv
  <2>2. \A s \in DOMAIN table : ~table[s].exited /\ proc[s] # "reaped" /\ ~table[s].just_spawn
    BY ZenonT(30), <2>1 DEF Settled, TableInv
  <2>3. \A s \in DOMAIN table :
           /\ table'[s].role = table[s].role /\ ~table'[s].exited
           /\ table[s].exiting => table'[s].exiting
           /\ signo = "REOPEN" => table'[s].exiting = table[s].exiting
    BY SMTT(30), <1>1, <2>2, SignalKeeps
  <2>4. Kept' \in SUBSET Kept
    BY ZenonT(30), <1>1, <2>3 DEF Kept
  <2>5. Settled'
    BY <1>1, <2>1, <2>2, <2>3, <2>4, KeptShrinks, ZenonT(30) DEF Settled
  <2>6. CASE signo = "REOPEN" /\ left = flags \ {"reopen"}
    <3>1. inbox' = inbox
      BY ZenonT(30), <2>6 DEF SignalWorkers, TypeOK
    <3>2. Serving \subseteq Serving'
      BY <1>1, <2>3, <2>6, <3>1 DEF Serving, Active
    <3>3. \A f \in Stops : f \in flags => f \in flags'
      BY <1>2, <2>6 DEF Stops
    <3>4. mpc # "start" /\ used' = used
      OBVIOUS
    <3>5. CASE Serving # {}
      BY <2>5, <3>2, <3>5 DEF Seamless
    <3> QED
      BY ZenonT(30), <2>1, <2>5, <3>3, <3>4, <3>5 DEF Seamless
  <2>7. CASE \E f \in Stops : f \in left
    BY <1>2, <2>5, <2>7 DEF Seamless
  <2> QED
    BY <2>5, <2>6, <2>7
<1> QED
  BY ZenonT(30), <1>2, <1>3, <1>4 DEF SteadyInv

(* The first start.                                                        *)
LEMMA StartSteady ==
    ASSUME TypeOK, TableInv, LiveInv, SteadyInv, NEW failed \in SUBSET (DOMAIN Roles),
           Start(failed)
    PROVE  SteadyInv'
<1> DEFINE new == Started(FALSE, failed)
           W == {s \in DOMAIN new : new[s].role = "worker"}
<1>1. /\ mpc = "start" /\ mpc' = "top" /\ table' = Entered(new) /\ Fork(new, cycle)
      /\ used' = [used EXCEPT !["fork"] = used["fork"] + Cardinality(NotSpawned(failed))]
      /\ UNCHANGED <<flags, inbox>>
  BY Zenon DEF Start, Count
<1>2. /\ DOMAIN new \subseteq Free
      /\ \A s \in DOMAIN new : ~new[s].exited /\ ~new[s].exiting
  BY StartedEntries, Zenon
<1>3. W = {s \in DOMAIN new : new[s].role = "worker"}
  OBVIOUS
<1> HIDE DEF new
<1>4. \A s \in Slots \ DOMAIN table' : inbox'[s] = {}
  BY <1>1 DEF Entered, SteadyInv
<1>5. ASSUME used'["fork"] = 0 PROVE Settled' /\ Seamless'
  <2>1. used["fork"] = 0 /\ Cardinality(NotSpawned(failed)) = 0
    BY SMTT(30), <1>1, <1>5, RolesFinite DEF TypeOK, Budgets
  <2>2. DOMAIN table = {}
    BY ZenonT(30), <1>1, <2>1 DEF SteadyInv, Settled
  <2>3. /\ DOMAIN table' = DOMAIN new /\ \A s \in DOMAIN new : table'[s] = new[s]
        /\ \A s \in DOMAIN new : s \in Slots /\ proc'[s] = "run" /\ inbox'[s] = {}
    BY ZenonT(30), <1>1, <1>2, <2>2 DEF Entered, Fork, Free, SteadyInv
  <2>4. Kept' = W /\ Serving' = W
    BY <1>2, <1>3, <2>3 DEF Kept, Serving, Active
  <2>5. Cardinality(W) <= WorkerProcesses /\ (WorkerProcesses # 0 => W # {})
    <3> HIDE DEF W
    <3> QED
      BY ZenonT(30), <1>3, <2>1, StartedWorkers DEF new
  <2> HIDE DEF W
  <2>6. Settled'
    BY <1>1, <1>2, <2>3, <2>4, <2>5 DEF Settled
  <2>7. Seamless'
    BY <2>4, <2>5 DEF Seamless
  <2> QED
    BY <2>6, <2>7
<1>6. "restart" \notin flags'
  BY <1>1 DEF SteadyInv
<1> QED
  BY <1>4, <1>5, <1>6 DEF SteadyInv

(* A reload: the workers of before are told to quit, the new ones are not. *)
LEMMA ReloadSteady ==
    ASSUME TypeOK, TableInv, LiveInv, SteadyInv, NEW failed \in SUBSET (DOMAIN Roles),
           Reconfigure(failed)
    PROVE  SteadyInv'
<1> DEFINE new == Started(TRUE, failed)
           t == Entered(new)
           W == {s \in DOMAIN new : new[s].role = "worker"}
<1>1. /\ mpc = "decide" /\ mpc' = mpc /\ SignalWorkers(t, "QUIT", flags \ {"reconfigure"})
      /\ Fork(new, cycle')
      /\ used' = [used EXCEPT !["fork"] = used["fork"] + Cardinality(NotSpawned(failed))]
  BY Zenon DEF Reconfigure, Count, Branch
<1>2. /\ DOMAIN new \subseteq Free /\ DOMAIN t = DOMAIN new \cup DOMAIN table
      /\ \A s \in DOMAIN new : /\ ~new[s].exited /\ ~new[s].exiting /\ new[s].just_spawn
                               /\ t[s] = new[s]
      /\ \A s \in DOMAIN table \ DOMAIN new : t[s] = table[s]
  BY StartedEntries, Zenon DEF Entered
<1>3. /\ DOMAIN t \subseteq Slots /\ \A s \in DOMAIN t : t[s] \in Entry
      /\ W = {s \in DOMAIN new : new[s].role = "worker"}
  BY ZenonT(30), EnteredEntries
<1> HIDE DEF new, t
<1>4. /\ table' = AfterSignal(t, "QUIT") /\ DOMAIN table' = DOMAIN t
      /\ \A s \in Slots : s \notin Signalled(t, "QUIT") => inbox'[s] = inbox[s]
      /\ "restart" \notin flags'
  BY ZenonT(30), <1>1, <1>3, SignalledEntries DEF SignalWorkers, SteadyInv
<1>5. \A s \in Slots \ DOMAIN table' : inbox'[s] = {}
  BY <1>2, <1>4, ZenonT(30) DEF Signalled, SteadyInv
<1>6. ASSUME used'["fork"] = 0 PROVE Settled' /\ Seamless'
  <2>1. used["fork"] = 0 /\ Cardinality(NotSpawned(failed)) = 0
    BY SMTT(30), <1>1, <1>6, RolesFinite DEF TypeOK, Budgets
  <2>2. \A s \in DOMAIN table :
           /\ ~table[s].exited /\ proc[s] # "reaped" /\ ~table[s].just_spawn
           /\ ~table[s].detached /\ s \notin DOMAIN new
    BY <1>1, <1>2, <2>1, ZenonT(30) DEF SteadyInv, Settled, TableInv, LiveInv, Free
  <2>3. ASSUME NEW s \in DOMAIN table
        PROVE  /\ ~table'[s].exited /\ table'[s].exiting /\ proc'[s] # "reaped"
               /\ s \notin DOMAIN new
    <3>1. t[s] = table[s] /\ s \in DOMAIN t /\ t[s] \in Entry
      BY ZenonT(30), <1>2, <1>3, <2>2
    <3>2. proc'[s] = proc[s]
      BY ZenonT(30), <1>1, <1>3, <2>2, <3>1 DEF Fork
    <3> QED
      BY SMTT(30), <1>4, <2>2, <3>1, <3>2, SignalKeeps
  <2>4. ASSUME NEW s \in DOMAIN new
        PROVE  /\ ~table'[s].exited /\ ~table'[s].exiting /\ proc'[s] = "run"
               /\ inbox'[s] = {} /\ table'[s].role = new[s].role
    <3>1. t[s] = new[s] /\ s \in DOMAIN t /\ t[s] \in Entry /\ s \in Slots \ DOMAIN table
      BY <1>2, <1>3 DEF Free
    <3>2. proc'[s] = "run"
      BY ZenonT(30), <1>1, <3>1 DEF Fork
    <3>3. inbox'[s] = {}
      BY ZenonT(30), <1>2, <1>4, <3>1 DEF Signalled, SteadyInv
    <3> QED
      BY SMTT(30), <1>2, <1>4, <3>1, <3>2, <3>3, SignalKeeps
  <2>5. Kept' = W /\ W \subseteq Serving'
    BY <1>2, <1>3, <1>4, <2>3, <2>4 DEF Kept, Serving, Active
  <2>6. Cardinality(W) <= WorkerProcesses /\ (WorkerProcesses # 0 => W # {})
    <3> HIDE DEF W
    <3> QED
      BY ZenonT(30), <1>3, <2>1, StartedWorkers DEF new
  <2> HIDE DEF W
  <2>7. Settled'
    BY ZenonT(30), <1>1, <1>2, <1>4, <2>3, <2>4, <2>5, <2>6 DEF Settled
  <2>8. Seamless'
    BY SMTT(30), <2>5, <2>6 DEF Seamless
  <2> QED
    BY <2>7, <2>8
<1> QED
  BY <1>4, <1>5, <1>6 DEF SteadyInv

(* The handlers of the signals run, ngx_process_get_status among them.     *)
LEMMA WakeSteady ==
    ASSUME TypeOK, TableInv, LiveInv, SteadyInv, Wake
    PROVE  SteadyInv'
<1>1. /\ mpc = "suspend" /\ mpc' = "reap" /\ UNCHANGED <<inbox, used>>
      /\ flags' = flags \cup UNION {FlagOf(sig) : sig \in pending}
  BY ZenonT(30) DEF Wake
<1>2. "restart" \notin flags'
  <2>1. pending \subseteq SignalNames \cup {"CHLD", "ALRM"}
    BY ConstantsAssumption DEF TypeOK
  <2>2. ASSUME NEW sig \in pending PROVE "restart" \notin FlagOf(sig)
    BY <2>1, <2>2 DEF FlagOf, SignalNames
  <2> QED
    BY <1>1, <2>2 DEF SteadyInv
<1>3. /\ DOMAIN table' = DOMAIN table
      /\ \A s \in DOMAIN table :
            /\ table'[s].role = table[s].role /\ table'[s].exiting = table[s].exiting
            /\ table[s].exited => table'[s].exited
            /\ table'[s].exited => table[s].exited \/ "CHLD" \in pending
            /\ proc'[s] = "reaped" => proc[s] = "reaped" \/ table'[s].exited
            /\ proc[s] = "run" => proc'[s] = "run" /\ table'[s] = table[s]
  <2>1. CASE UNCHANGED <<table, proc>>
    BY <2>1
  <2>2. CASE GetStatus /\ "CHLD" \in pending
    <3>1. \A s \in DOMAIN table : s \in Slots /\ table[s] \in Entry
      BY DEF TypeOK
    <3> QED
      BY <2>2, <3>1, Zenon DEF GetStatus, Dead, Entry
  <2> QED
    BY ZenonT(30), <2>1, <2>2 DEF Wake
<1>4. "CHLD" \in pending => "reap" \in flags'
  BY <1>1 DEF FlagOf
<1>5. ASSUME used'["fork"] = 0 PROVE Settled' /\ Seamless'
  <2>1. Settled /\ Seamless
    BY ZenonT(30), <1>1, <1>5 DEF SteadyInv
  <2>2. Kept' \in SUBSET Kept /\ Serving \subseteq Serving'
    BY ZenonT(30), <1>1, <1>3 DEF Kept, Serving, Active
  <2>3. Settled'
    BY <1>1, <1>3, <1>4, <2>1, <2>2, KeptShrinks DEF Settled
  <2>4. Seamless'
    BY ZenonT(30), <1>1, <2>1, <2>2 DEF Seamless
  <2> QED
    BY <2>3, <2>4, ZenonT(30)
<1>6. \A s \in Slots \ DOMAIN table' : inbox'[s] = {}
  BY <1>1, <1>3, ZenonT(30) DEF SteadyInv
<1> QED
  BY <1>2, <1>5, <1>6 DEF SteadyInv

(* ngx_reap_children leaves no dead child in the table, if fork() works.   *)
LEMMA ReapSteady ==
    ASSUME TypeOK, TableInv, LiveInv, SteadyInv, NEW failed, ReapChildren(failed)
    PROVE  SteadyInv'
<1> DEFINE again == Respawned \ failed
<1>1. /\ mpc = "reap" /\ mpc' = "decide" /\ failed \in SUBSET Respawned
      /\ table' = [s \in DOMAIN table \ Freed |->
                      IF s \in again THEN [table[s] EXCEPT !.exited = FALSE] ELSE table[s]]
      /\ proc' = [s \in Slots |-> IF s \in again THEN "run"
                                  ELSE IF s \in Freed THEN "none" ELSE proc[s]]
      /\ inbox' = [s \in Slots |-> IF s \in Freed \cup again THEN {} ELSE inbox[s]]
      /\ used' = [used EXCEPT !["fork"] = used["fork"] + Cardinality(failed)]
  BY Zenon DEF ReapChildren, Count
<1>2. flags' = flags \ {"reap"}
  <2>1. new_binary \notin Freed
    BY DEF Freed, LiveInv, TypeOK, Slots
  <2> QED
    BY <2>1, Zenon DEF ReapChildren
<1>3. /\ DOMAIN table' = DOMAIN table \ Freed /\ DOMAIN table \subseteq Slots
      /\ \A s \in DOMAIN table : table[s] \in Entry
      /\ \A s \in Freed \cup again : s \in DOMAIN table /\ table[s].exited
      /\ \A s \in DOMAIN table : table[s].exited => s \in Freed \/ s \in Respawned
  BY <1>1 DEF Freed, Respawned, TypeOK
<1> HIDE DEF again
<1>4. \A s \in Slots \ DOMAIN table' : inbox'[s] = {}
  BY <1>1, <1>3 DEF SteadyInv
<1>5. ASSUME NEW s \in DOMAIN table'
      PROVE  /\ table'[s].role = table[s].role /\ table'[s].exiting = table[s].exiting
             /\ s \in again => ~table'[s].exited /\ proc'[s] = "run"
             /\ s \notin again => table'[s] = table[s] /\ proc'[s] = proc[s]
  BY <1>1, <1>3 DEF Entry
<1>6. ASSUME used'["fork"] = 0 PROVE Settled' /\ Seamless'
  <2>1. used["fork"] = 0 /\ failed = {}
    <3>1. IsFiniteSet(failed)
      <4>1. failed \in SUBSET Slots
        BY <1>1, <1>3 DEF Respawned
      <4> QED
        BY <4>1, SlotsFinite, FS_Subset
    <3>2. Cardinality(failed) \in Nat /\ (Cardinality(failed) = 0 => failed = {})
      BY <3>1, FS_CardinalityType, FS_EmptySet, Zenon
    <3> QED
      BY <1>1, <1>6, <3>2 DEF TypeOK, Budgets
  <2>2. Settled /\ Seamless
    BY ZenonT(30), <2>1 DEF SteadyInv
  <2>3. \A s \in DOMAIN table' : ~table'[s].exited /\ proc'[s] # "reaped"
    BY SMTT(30), <1>3, <1>5, <2>1, <2>2 DEF Settled, again
  <2>4. Kept' \in SUBSET Kept
    BY <1>3, <1>5 DEF Kept
  <2>5. Settled'
    BY ZenonT(30), <1>1, <2>2, <2>3, <2>4, KeptShrinks DEF Settled
  <2>6. Serving \subseteq Serving'
    BY <1>1, <1>3, <1>5 DEF Serving, Active
  <2>7. (\A f \in Stops : f \in flags => f \in flags') /\ used'["crash"] = used["crash"]
    BY <1>1, <1>2 DEF Stops, TypeOK, Budgets
  <2>8. Seamless'
    BY SMTT(30), <1>1, <2>2, <2>6, <2>7 DEF Seamless
  <2> QED
    BY <2>5, <2>8
<1>7. "restart" \notin flags'
  BY <1>2 DEF SteadyInv
<1> QED
  BY <1>4, <1>6, <1>7 DEF SteadyInv

(* The children, each by itself.                                           *)
LEMMA ChildSteady ==
    ASSUME TypeOK, TableInv, LiveInv, SteadyInv, NEW c \in Slots, ChildStep(c)
    PROVE  SteadyInv'
<1>1. UNCHANGED <<mpc, flags, table>> /\ used'["fork"] = used["fork"]
  BY ZenonT(30) DEF ChildStep, WorkerQuit, WorkerDone, WorkerTerm, WorkerKilled, LoaderDone, BinaryExit,
         WorkerCrash, Die, Count, TypeOK, Budgets
<1>2. /\ \A s \in Slots : proc'[s] = "reaped" => proc[s] = "reaped"
      /\ \A s \in Slots \ {c} : proc'[s] = proc[s] /\ inbox'[s] = inbox[s]
      /\ inbox[c] = {} => inbox'[c] = {}
  BY ZenonT(30) DEF ChildStep, WorkerQuit, WorkerDone, WorkerTerm, WorkerKilled, LoaderDone, BinaryExit,
         WorkerCrash, Die, TypeOK
<1>3. c \in Serving => used'["crash"] > 0
  BY SMTT(30) DEF ChildStep, WorkerQuit, WorkerDone, WorkerTerm, WorkerKilled, LoaderDone, BinaryExit,
         WorkerCrash, Die, Count, TypeOK, Budgets, Serving, Active, LiveInv
<1>4. used["crash"] > 0 => used'["crash"] > 0
  BY SMTT(30) DEF ChildStep, WorkerQuit, WorkerDone, WorkerTerm, WorkerKilled, LoaderDone, BinaryExit,
         WorkerCrash, Die, Count, TypeOK, Budgets
<1>5. \A s \in Slots \ DOMAIN table' : inbox'[s] = {}
  BY <1>1, <1>2, ZenonT(30) DEF SteadyInv
<1>6. ASSUME used'["fork"] = 0 PROVE Settled' /\ Seamless'
  <2>1. Settled /\ Seamless
    BY ZenonT(30), <1>1, <1>6 DEF SteadyInv
  <2>2. Settled'
    BY SMTT(30), <1>1, <1>2, <2>1 DEF Settled, Kept, TypeOK
  <2>3. Serving \ {c} \subseteq Serving'
    BY <1>1, <1>2, Zenon DEF Serving, Active, TypeOK
  <2>4. Seamless'
    BY ZenonT(30), <1>1, <1>3, <1>4, <2>1, <2>3 DEF Seamless
  <2> QED
    BY <2>2, <2>4
<1> QED
  BY ZenonT(30), <1>1, <1>5, <1>6 DEF SteadyInv

(* The rest of the loop: nothing happens to the children.                  *)
LEMMA QuietSteady ==
    ASSUME TypeOK, SteadyInv, UNCHANGED <<table, proc, inbox>>,
           used'["fork"] = used["fork"], used'["crash"] = used["crash"],
           "restart" \notin flags', \A f \in Stops : f \in flags => f \in flags',
           mpc' = "start" => mpc = "start", mpc = "start" => mpc' = "start",
           mpc = "reap" /\ "reap" \in flags => mpc' = "reap" /\ "reap" \in flags'
    PROVE  SteadyInv'
<1>1. Serving' = Serving /\ Kept' = Kept
  BY ZenonT(30) DEF Serving, Active, Kept
<1>2. Settled => Settled'
  BY <1>1 DEF Settled
<1>3. Seamless => Seamless'
  BY <1>1 DEF Seamless
<1> QED
  BY ZenonT(30), <1>2, <1>3 DEF SteadyInv

(* As long as fork() works and there is no binary upgrade, the workers not *)
(* told to exit never outnumber worker_processes, and reloads are          *)
(* seamless: for every number of workers, slots, signals and crashes.      *)
THEOREM WorkersSteadyCorrect ==
    ASSUME "USR2" \notin Signals
    PROVE  Spec => []WorkersSteady
<1>1. Init => SteadyInv
  <2> SUFFICES ASSUME Init PROVE SteadyInv
    OBVIOUS
  <2>1. DOMAIN table = {} /\ flags = {} /\ mpc = "start" /\ \A s \in Slots : inbox[s] = {}
    BY DEF Init
  <2>2. Kept = {}
    BY <2>1 DEF Kept
  <2>3. Settled
    BY <2>1, <2>2, FS_EmptySet, RolesFinite DEF Settled
  <2>4. Seamless
    BY <2>1 DEF Seamless
  <2> QED
    BY <2>1, <2>3, <2>4 DEF SteadyInv
<1>2. TypeOK /\ TableInv /\ LiveInv /\ SteadyInv /\ [Next]_vars => SteadyInv'
  <2> SUFFICES ASSUME TypeOK, TableInv, LiveInv, SteadyInv, [Next]_vars PROVE SteadyInv'
    OBVIOUS
  <2>1. CASE Terminate
    <3>1. /\ UNCHANGED <<proc, used>>
          /\ \/ UNCHANGED <<table, inbox, flags>>
             \/ SignalWorkers(table, "KILL", flags)
             \/ SignalWorkers(table, "TERM", flags)
      BY <2>1 DEF Terminate
    <3>2. mpc = "decide" /\ mpc' = "top" /\ "terminate" \in flags /\ "restart" \notin flags
      BY <2>1, Zenon DEF Terminate, Branch, SteadyInv
    <3>3. "terminate" \in Stops
      BY DEF Stops
    <3>4. CASE UNCHANGED <<table, proc, inbox, flags, used>>
      BY <3>2, <3>4, QuietSteady
    <3>5. ASSUME NEW signo, SignalWorkers(table, signo, flags), UNCHANGED <<proc, used>>
          PROVE  SteadyInv'
      <4>1. mpc' \in {"top", "decide"}
        BY <3>2
      <4> QED
        BY <3>2, <3>3, <3>5, <4>1, SignalSteady, Zenon
    <3> QED
      BY <3>1, <3>4, <3>5
  <2>2. CASE Quit
    <3>1. /\ SignalWorkers(table, "QUIT", flags) /\ UNCHANGED <<proc, used>>
          /\ mpc = "decide" /\ mpc' = "top" /\ "quit" \in flags /\ "restart" \notin flags
      BY <2>2, Zenon DEF Quit, Branch, SteadyInv
    <3>2. "quit" \in Stops /\ mpc' \in {"top", "decide"}
      BY <3>1 DEF Stops
    <3> QED
      BY <3>1, <3>2, SignalSteady, Zenon
  <2>3. CASE NoAccept
    <3>1. PICK left : left = (flags \ {"noaccept"}) \cup {"noaccepting"}
      BY Zenon
    <3>2. /\ SignalWorkers(table, "QUIT", left) /\ UNCHANGED <<proc, used>>
          /\ mpc = "decide" /\ mpc' = mpc
      BY <2>3, <3>1, Zenon DEF NoAccept, Branch
    <3>3. /\ "noaccepting" \in Stops /\ "noaccepting" \in left /\ "restart" \notin left
          /\ mpc' \in {"top", "decide"}
      BY <3>1, <3>2 DEF Stops, SteadyInv
    <3> QED
      BY <3>2, <3>3, SignalSteady, Zenon
  <2>4. CASE Reopen
    <3>1. PICK left : left = flags \ {"reopen"}
      BY Zenon
    <3>2. /\ SignalWorkers(table, "REOPEN", left) /\ UNCHANGED <<proc, used>>
          /\ mpc = "decide" /\ mpc' = mpc
      BY <2>4, <3>1, Zenon DEF Reopen, Branch
    <3>3. "restart" \notin left /\ mpc' \in {"top", "decide"}
      BY <3>1, <3>2 DEF SteadyInv
    <3> QED
      BY <3>1, <3>2, <3>3, SignalSteady, Zenon
  <2>5. CASE Top \/ MasterExit \/ ReconfigureRefused \/ LoopEnd
    <3>1. /\ UNCHANGED <<table, proc, inbox, used>> /\ mpc \in {"top", "decide"}
          /\ mpc' # "start"
      BY ZenonT(30), <2>5 DEF Top, MasterExit, ReconfigureRefused, LoopEnd, Branch
    <3>2. "restart" \notin flags' /\ \A f \in Stops : f \in flags => f \in flags'
      BY <2>5 DEF Top, MasterExit, ReconfigureRefused, LoopEnd, Stops, SteadyInv
    <3> QED
      BY ZenonT(30), <3>1, <3>2, QuietSteady
  <2>6. CASE NothingToReap
    <3>1. /\ UNCHANGED <<table, proc, inbox, flags, used>> /\ mpc = "reap" /\ mpc' = "decide"
          /\ "reap" \notin flags /\ "restart" \notin flags'
      BY <2>6 DEF NothingToReap, SteadyInv
    <3> QED
      BY <3>1, QuietSteady, ZenonT(30)
  <2>7. CASE Alarm \/ \E sig \in Signals : SendSignal(sig)
    <3>1. /\ UNCHANGED <<table, proc, inbox, flags, mpc>>
          /\ used'["fork"] = used["fork"] /\ used'["crash"] = used["crash"]
          /\ "restart" \notin flags'
      BY <2>7 DEF Alarm, SendSignal, Count, TypeOK, Budgets, SteadyInv
    <3> QED
      BY ZenonT(30), <3>1, QuietSteady
  <2>8. CASE UNCHANGED vars
    <3>1. UNCHANGED <<table, proc, inbox, flags, mpc, used>> /\ "restart" \notin flags'
      BY <2>8, Zenon DEF vars, SteadyInv
    <3> QED
      BY <3>1, QuietSteady
  <2>9. /\ ~(\E ok \in BOOLEAN : ChangeBinary(ok))
        /\ ~(\E failed \in SUBSET (DOMAIN Roles) : ReconfigureUpgraded(failed) \/ Restart(failed))
    BY Zenon DEF ChangeBinary, ReconfigureUpgraded, Restart, Branch, LiveInv, SteadyInv
  <2> QED
    BY ZenonT(30), <2>1, <2>2, <2>3, <2>4, <2>5, <2>6, <2>7, <2>8, <2>9, StartSteady, ReloadSteady,
       WakeSteady, ReapSteady, ChildSteady, Zenon DEF Next, MasterStep
<1>3. TypeOK /\ SteadyInv => WorkersSteady
  <2> SUFFICES ASSUME TypeOK, SteadyInv PROVE WorkersSteady
    OBVIOUS
  <2>1. CASE used["fork"] # 0
    BY <2>1 DEF WorkersSteady, TypeOK, Budgets
  <2>2. CASE used["fork"] = 0
    <3>1. Active \in SUBSET Kept /\ Kept \in SUBSET Slots
      BY DEF Active, Kept, TypeOK
    <3>2. IsFiniteSet(Kept) /\ IsFiniteSet(Active) /\ Cardinality(Active) <= Cardinality(Kept)
      BY <3>1, SlotsFinite, FS_Subset
    <3>3. Cardinality(Active) \in Nat /\ Cardinality(Kept) \in Nat
      BY <3>2, FS_CardinalityType, ZenonT(30)
    <3>4. Cardinality(Active) <= WorkerProcesses
      BY <2>2, <3>2, <3>3, RolesFinite, SMTT(30) DEF SteadyInv, Settled
    <3>5. Serving # {} => \E s \in Active : proc[s] = "run" /\ inbox[s] = {}
      BY DEF Serving
    <3>6. (\E f \in Stops : f \in flags)
             => flags \cap {"quit", "terminate", "noaccept", "noaccepting"} # {}
      BY DEF Stops
    <3> QED
      BY ZenonT(30), <2>2, <3>4, <3>5, <3>6 DEF SteadyInv, Seamless, WorkersSteady
  <2> QED
    BY <2>1, <2>2
<1> QED
  BY <1>1, <1>2, <1>3, LiveInvCorrect, PTL DEF Spec

-----------------------------------------------------------------------------
(* As long as there is no binary upgrade, a SIGHUP that is handled changes *)
(* no child, or leaves none of the workers of before active.               *)
THEOREM ReloadReplacesCorrect ==
    ASSUME "USR2" \notin Signals
    PROVE  Spec => ReloadReplaces
<1>1. TypeOK /\ TableInv /\ LiveInv /\ [Next]_vars =>
        ((/\ "reconfigure" \in flags /\ "reconfigure" \notin flags'
          /\ NoBinary) => table' = table \/ Active \cap Active' = {})
  <2> SUFFICES ASSUME TypeOK, TableInv, LiveInv, [Next]_vars, "reconfigure" \in flags,
                      "reconfigure" \notin flags'
               PROVE  table' = table \/ Active \cap Active' = {}
    OBVIOUS
  <2>1. ASSUME NEW failed, Reconfigure(failed) PROVE Active \cap Active' = {}
    <3> DEFINE new == Started(TRUE, failed)
               t == Entered(new)
    <3>1. table' = AfterSignal(t, "QUIT")
      BY <2>1, Zenon DEF Reconfigure, SignalWorkers
    <3>2. /\ \A s \in DOMAIN t : t[s] \in Entry
          /\ \A s \in DOMAIN table : s \in DOMAIN t /\ (s \notin DOMAIN new => t[s] = table[s])
          /\ DOMAIN new \subseteq Free
      BY ZenonT(30), EnteredEntries, StartedEntries DEF Entered
    <3> HIDE DEF t, new
    <3>3. ASSUME NEW s \in Active, s \in Active' PROVE FALSE
      <4>1. s \in DOMAIN table /\ ~table[s].just_spawn /\ ~table[s].detached
        BY DEF Active, TableInv, LiveInv
      <4>2. s \in DOMAIN t /\ t[s] = table[s] /\ t[s] \in Entry
        BY <3>2, <4>1, ZenonT(30) DEF Free
      <4>3. ~table'[s].exited /\ ~table'[s].exiting
        BY <3>3 DEF Active
      <4> QED
        BY SMTT(30), <3>1, <3>2, <4>1, <4>2, <4>3, SignalFacts
    <3> QED
      BY <3>3
  <2>2. CASE Wake
    BY <2>2 DEF Wake
  <2>3. ASSUME NEW failed, ReapChildren(failed) PROVE FALSE
    BY ZenonT(30), <2>3 DEF ReapChildren, RestartAfter
  <2>4. CASE Terminate \/ Quit \/ Reopen \/ NoAccept
    BY <2>4 DEF Terminate, Quit, Reopen, NoAccept, SignalWorkers
  <2>5. ~(\E failed \in SUBSET (DOMAIN Roles) : ReconfigureUpgraded(failed))
    BY Zenon DEF ReconfigureUpgraded, LiveInv
  <2>6. ~(\E ok \in BOOLEAN : ChangeBinary(ok))
    BY Zenon DEF ChangeBinary, Branch, LiveInv
  <2>7. ASSUME NEW failed, Start(failed) \/ Restart(failed) PROVE FALSE
    BY <2>7, Zenon DEF Start, Restart
  <2>8. CASE ReconfigureRefused
    BY <2>8, Zenon DEF ReconfigureRefused
  <2>9. CASE Top
    BY <2>9 DEF Top
  <2>10. CASE UNCHANGED flags
    BY <2>10
  <2> QED
    BY ZenonT(30), <2>1, <2>2, <2>3, <2>4, <2>5, <2>6, <2>7, <2>8, <2>9, <2>10
       DEF Next, MasterStep, NothingToReap, MasterExit, LoopEnd, Alarm, SendSignal,
           ChildStep, WorkerQuit, WorkerDone, WorkerTerm, WorkerKilled, LoaderDone,
           BinaryExit, WorkerCrash, Die, vars
<1> QED
  BY <1>1, LiveInvCorrect, PTL DEF Spec, ReloadReplaces

=============================================================================
