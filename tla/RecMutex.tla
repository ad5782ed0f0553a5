------------------------------ MODULE RecMutex ------------------------------
(***************************************************************************)
(* The recursive mutex every MOVE object carries (recmutex.c): a counter   *)
(* and the number of the thread that owns it.  The functions of recmutex.c *)
(* are pure state transformers, so they are operators on the record here;  *)
(* the modules that keep mutexes in a variable apply them.                 *)
(***************************************************************************)
EXTENDS Integers

\* The "thread number" used when no thread is current (current_thread NULL).
NoThread == 0

Unheld == [counter |-> 0, owner |-> NoThread]

\* Mutant: the owner is not let in again.
Lockable_notRecursive(m, self) == m.counter = 0

\* recmutex_lock succeeds: nobody holds the mutex, or the caller does.
Lockable(m, self) == m.counter = 0 \/ m.owner = self

Locked(m, self) == [counter |-> m.counter + 1, owner |-> self]

\* Mutant: the counter is not stopped at zero, and the owner stays.
Unlocked_unclamped(m) == [m EXCEPT !.counter = @ - 1]

\* recmutex_unlock never looks at who calls it.
Unlocked(m) ==
    IF m.counter - 1 <= 0 THEN Unheld ELSE [m EXCEPT !.counter = @ - 1]

\* n calls of recmutex_unlock in a row.
UnlockedTimes(m, n) ==
    IF n = 0 THEN m
    ELSE IF m.counter <= n THEN Unheld
    ELSE [m EXCEPT !.counter = @ - n]
=============================================================================
