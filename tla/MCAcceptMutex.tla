--------------------------- MODULE MCAcceptMutex ----------------------------
(***************************************************************************)
(* Instances of AcceptMutex for TLC: with and without the mutex, and with  *)
(* what makes a difference to who wakes.                                   *)
(***************************************************************************)
EXTENDS AcceptMutex

WithMutex == [mutex |-> TRUE, multi |-> FALSE, timers |-> FALSE, max_events |-> 2]
WithTimers == [mutex |-> TRUE, multi |-> TRUE, timers |-> TRUE, max_events |-> 3]
WithoutMutex == [mutex |-> FALSE, multi |-> TRUE, timers |-> FALSE, max_events |-> 3]

ThreeConfs == {WithMutex, WithTimers, WithoutMutex}

=============================================================================
