----------------------------- MODULE SharedLock -----------------------------
(***************************************************************************)
(* What the users of a shared-memory mutex (the slab allocator, the accept *)
(* mutex, the zones of the HTTP modules) rely on: one owner at a time, the *)
(* lock passes only from nobody to a worker that asked for it or tried it, *)
(* only the owner gives it back, and the lock of a dead owner becomes free *)
(* when, and only when, that death is noticed.                             *)
(***************************************************************************)
CONSTANTS Workers, None

VARIABLES owner,   \* the worker that has the lock, or None
          state    \* out, asking, in or dead, for every worker

lockVars == <<owner, state>>

Init ==
    /\ owner = None
    /\ state = [w \in Workers |-> "out"]

Become(w, s) == state' = [state EXCEPT ![w] = s]

Ask(w) ==
    /\ state[w] = "out"
    /\ Become(w, "asking")
    /\ UNCHANGED owner

(* After Ask in a blocking call, straight from outside in a trylock. *)
Enter(w) ==
    /\ state[w] \in {"out", "asking"}
    /\ owner = None
    /\ owner' = w
    /\ Become(w, "in")

Leave(w) ==
    /\ state[w] = "in"
    /\ owner = w
    /\ owner' = None
    /\ Become(w, "out")

Die(w) ==
    /\ state[w] # "dead"
    /\ Become(w, "dead")
    /\ UNCHANGED owner

(* The death is noticed; a new worker may take the place of the dead one. *)
Recover(w) ==
    /\ state[w] = "dead"
    /\ owner' = IF owner = w THEN None ELSE owner
    /\ Become(w, "out")

Next ==
    \E w \in Workers : Ask(w) \/ Enter(w) \/ Leave(w) \/ Die(w) \/ Recover(w)

Spec == Init /\ [][Next]_lockVars
=============================================================================
