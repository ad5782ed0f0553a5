---------------------------- MODULE LockMonitor ----------------------------
(***************************************************************************)
(* What lock and unlock promise to MOVE programs: every object carries a   *)
(* recursive lock; it has one holder at a time, only the holder releases   *)
(* it, it is released as often as it was taken, and a thread gives up what *)
(* it still holds when, and only when, it ends.                            *)
(***************************************************************************)
EXTENDS Integers

CONSTANTS Threads, Objects, NoThread, MaxDepth

VARIABLES alive,    \* the threads that have been started and have not ended
          holder,   \* the thread that holds the lock of an object
          depth,    \* how often it locked it
          waiters   \* the threads that wait for the lock of an object

vars == <<alive, holder, depth, waiters>>

Free(o) == depth[o] = 0

Init ==
    /\ alive \in SUBSET Threads
    /\ holder = [o \in Objects |-> NoThread]
    /\ depth = [o \in Objects |-> 0]
    /\ waiters = [o \in Objects |-> {}]

Begin(t) ==
    /\ t \notin alive
    /\ alive' = alive \cup {t}
    /\ UNCHANGED <<holder, depth, waiters>>

\* Thread t gets the lock of o, at once or after having waited for it.
Acquire(t, o) ==
    /\ Free(o) \/ holder[o] = t
    /\ depth[o] < MaxDepth
    /\ holder' = [holder EXCEPT ![o] = t]
    /\ depth' = [depth EXCEPT ![o] = @ + 1]
    /\ waiters' = [waiters EXCEPT ![o] = @ \ {t}]
    /\ UNCHANGED alive

\* Thread t has to wait, because another thread holds the lock; it holds no
\* lock itself and waits for no other.
Wait(t, o) ==
    /\ ~Free(o) /\ holder[o] # t
    /\ \A p \in Objects : t \notin waiters[p] /\ holder[p] # t
    /\ waiters' = [waiters EXCEPT ![o] = @ \cup {t}]
    /\ UNCHANGED <<alive, holder, depth>>

\* The holder undoes one Acquire.
Release(t, o) ==
    /\ ~Free(o) /\ holder[o] = t
    /\ depth' = [depth EXCEPT ![o] = @ - 1]
    /\ holder' = [holder EXCEPT ![o] = IF depth[o] = 1 THEN NoThread ELSE t]
    /\ UNCHANGED <<alive, waiters>>

\* Thread t ends; nobody else's lock is touched.
End(t) ==
    /\ \A o \in Objects : t \notin waiters[o]
    /\ alive' = alive \ {t}
    /\ depth' = [o \in Objects |-> IF holder[o] = t THEN 0 ELSE depth[o]]
    /\ holder' = [o \in Objects |-> IF holder[o] = t THEN NoThread ELSE holder[o]]
    /\ UNCHANGED waiters

Next ==
    \/ \E t \in Threads : Begin(t)
    \/ \E t \in alive : End(t)
    \/ \E t \in alive, o \in Objects : Acquire(t, o) \/ Wait(t, o) \/ Release(t, o)

Spec == Init /\ [][Next]_vars
=============================================================================
