---------------------------- MODULE MoveThreads ----------------------------
(***************************************************************************)
(* The green threads of the 3-MOVE server: the scheduler of thread.c, its  *)
(* main loop in main.c, and the primitives by which one thread acts on     *)
(* itself, on other threads, on object locks and on connections.           *)
(*                                                                         *)
(* The server is one operating-system process.  It repeats: resume the     *)
(* sleepers whose alarm went off, retry every blocked thread, give every   *)
(* runnable thread a time slice; after IdleLimit rounds in which nothing   *)
(* ran it waits in select().  Each pass walks a queue with a saved `next'  *)
(* pointer while the steps it takes move threads between the queues.       *)
(*                                                                         *)
(* What a thread computes is abstracted: in its slice it may issue any     *)
(* primitive, or raise, or return.  A primitive refused for its arguments  *)
(* or for lack of permission is Compute or Raise.                          *)
(***************************************************************************)
EXTENDS ThreadQueueOps, RecMutex, FiniteSets

CONSTANTS
    MaxThreads,         \* bound: threads ever started (numbers are not reused)
    Objects,            \* objects that are locked
    Conns, Listeners,   \* connections; those that are server sockets
    Slice,              \* bound: instructions per time slice (2000 in vm.h's build)
    IdleLimit,          \* rounds without a runnable thread before select (5)
    MaxDepth,           \* bound: how deep a thread nests its lock
    Quotas,             \* vm_state values threads are started with
    UndisturbedWaiters, \* TRUE: programs let no thread die while it waits for a lock
    Null

QuotaKinds == {"quota", "daemon", "noquota"}

ASSUME ThreadsAssumption ==
    /\ MaxThreads \in Nat \ {0} /\ Slice \in Nat \ {0}
    /\ IdleLimit \in Nat \ {0} /\ MaxDepth \in Nat \ {0}
    /\ Listeners \subseteq Conns /\ Objects \cap Conns = {}
    /\ Null \notin Objects \cup Conns
    /\ Quotas \subseteq QuotaKinds /\ Quotas # {}
    /\ UndisturbedWaiters \in BOOLEAN

Threads == 1..MaxThreads

VARIABLES
    threadtab, numActive, nextNumber,   \* the thread table, num_active, next_number
    q, queue,                           \* the three queues; t->queue
    ctx,                                \* contextkind and context of a thread
    due,                                \* sleepers whose time of awakening has come
    acc,                                \* vm_acc: "yield" iff it is yield_thread
    vmState, trap,                      \* vm_state; is there a vm_trap_closure
    locked, lockedCount, mutex,         \* vm_locked, vm_locked_count; o->lock
    conn,                               \* what a read or accept would find
    phase, cur, next,                   \* the pass, its current and saved next thread
    ticks, expiring,                    \* rest of the slice; quota ran out this tick
    idle                                \* idle_loops

registry == <<threadtab, numActive, nextNumber>>
queues   == <<q, queue, ctx, due>>
vm       == <<acc, vmState, trap>>
locks    == <<locked, lockedCount, mutex>>
sweep    == <<phase, cur, next>>
vars     == <<registry, queues, vm, locks, conn, sweep, ticks, expiring, idle>>

NoContext == [kind |-> "none", on |-> Null]
IoKinds   == {"readline", "accept"}
Stopped   == phase \in {"exit", "crash"}

WaitsForLock(t) == queue[t] = "block" /\ ctx[t].kind = "locking"
WaitsForIo(t)   == queue[t] = "block" /\ ctx[t].kind \in IoKinds

-----------------------------------------------------------------------------
(* Moving threads between queues (thread.c).                               *)

\* Mutant: the thread is linked into its new queue but never unlinked.
MoveTo_noDeq(t, k) == [q EXCEPT ![k] = PushFront(@, t)]

\* deq(t->queue, t) and then enq(k, t).
MoveTo(t, k) ==
    [n \in Queues |->
        LET rest == IF n = queue[t] THEN Without(q[n], t) ELSE q[n]
        IN  IF n = k THEN PushFront(rest, t) ELSE rest]

Enqueued(t, k) == q' = MoveTo(t, k) /\ queue' = [queue EXCEPT ![t] = k]

BlockThread(t, kind, x) ==
    /\ Enqueued(t, "block")
    /\ ctx' = [ctx EXCEPT ![t] = [kind |-> kind, on |-> x]]
    /\ acc' = [acc EXCEPT ![t] = "yield"]
    /\ UNCHANGED due

SleepThread(t) ==
    /\ Enqueued(t, "sleep")
    /\ ctx' = [ctx EXCEPT ![t] = [kind |-> "alarm", on |-> Null]]
    /\ acc' = [acc EXCEPT ![t] = "yield"]
    /\ UNCHANGED due

UnblockThread(t) ==
    /\ Enqueued(t, "run")
    /\ ctx' = [ctx EXCEPT ![t] = NoContext]
    /\ due' = due \ {t}
    /\ acc' = [acc EXCEPT ![t] = "value"]

\* vm_raise on thread t: its handler takes over, or the thread is to die.
Raised(t) == IF trap[t] THEN vmState ELSE [vmState EXCEPT ![t] = "dying"]

-----------------------------------------------------------------------------
(* Passes over a queue: `thr = next; next = thr->next_q'.                  *)

Enter(k, p) ==
    /\ phase' = p
    /\ cur' = First(q[k])
    /\ next' = IF q[k] = << >> THEN 0 ELSE Follower(q[k], First(q[k]))

\* Mutant: the pass starts over at the head of the queue after every thread.
Advance_restart(k) ==
    UNCHANGED phase /\ cur' = First(q'[k]) /\ next' = Follower(q'[k], First(q'[k]))

\* Mutant: next_q is read after the thread has run, when it may be linked elsewhere.
Advance_unsaved(k) ==
    LET n == IF queue'[cur] # "none" THEN Follower(q'[queue'[cur]], cur) ELSE next
        l == IF n = 0 THEN k ELSE queue'[n]
    IN  UNCHANGED phase /\ cur' = n /\ next' = IF n = 0 THEN 0 ELSE Follower(q'[l], n)

Advance(k) ==
    /\ UNCHANGED phase
    /\ cur' = next
    /\ next' = IF next = 0 THEN 0 ELSE Follower(q'[k], next)

-----------------------------------------------------------------------------
Init ==
    \* compile_main has started the threads 1..n, each at the head of run_q
    \E n \in Threads :
        /\ threadtab = 1..n /\ numActive = n /\ nextNumber = n + 1
        /\ q = [k \in Queues |-> IF k = "run" THEN [i \in 1..n |-> n + 1 - i] ELSE << >>]
        /\ queue = [t \in Threads |-> IF t <= n THEN "run" ELSE "none"]
        /\ \E s \in Quotas : vmState = [t \in Threads |-> IF t <= n THEN s ELSE "dying"]
        /\ \E b \in BOOLEAN : trap = [t \in Threads |-> IF t <= n THEN b ELSE FALSE]
        /\ ctx = [t \in Threads |-> NoContext]
        /\ acc = [t \in Threads |-> "value"]
        /\ locked = [t \in Threads |-> Null]
        /\ lockedCount = [t \in Threads |-> 0]
        /\ mutex = [o \in Objects |-> Unheld]
        /\ conn = [c \in Conns |-> "idle"]
        /\ due = {} /\ phase = "loop" /\ cur = 0 /\ next = 0
        /\ ticks = 0 /\ expiring = FALSE /\ idle = 0

-----------------------------------------------------------------------------
(* run_main_loop and run_blocked_queue.                                    *)

\* Mutant: sleepers are only looked at when nothing else is runnable.
StartRound_starvesSleepers ==
    /\ phase = "loop"
    /\ IF numActive = 0 THEN phase' = "exit" /\ UNCHANGED <<cur, next>>
       ELSE IF q["run"] = << >> THEN Enter("sleep", "sleepers")
       ELSE Enter("block", "blocked")
    /\ UNCHANGED <<registry, queues, vm, locks, conn, ticks, expiring, idle>>

\* One turn of `while (count_active_threads() > 0)'.
StartRound ==
    /\ phase = "loop"
    /\ IF numActive > 0 THEN Enter("sleep", "sleepers")
       ELSE phase' = "exit" /\ UNCHANGED <<cur, next>>
    /\ UNCHANGED <<registry, queues, vm, locks, conn, ticks, expiring, idle>>

ResumeSleeper ==
    /\ phase = "sleepers" /\ cur # 0
    /\ IF cur \in due THEN UnblockThread(cur) ELSE UNCHANGED <<queues, acc>>
    /\ Advance("sleep")
    /\ UNCHANGED <<registry, vmState, trap, locks, conn, ticks, expiring, idle>>

SleepersDone ==
    /\ phase = "sleepers" /\ cur = 0
    /\ Enter("block", "blocked")
    /\ UNCHANGED <<registry, queues, vm, locks, conn, ticks, expiring, idle>>

\* Mutant: a closed connection looks like one on which nothing has arrived.
WouldBlock_closed(c) ==
    \/ conn[c] \in {"idle", "closed"} /\ UNCHANGED conn
    \/ conn[c] = "ready" /\ c \notin Listeners /\ conn' = [conn EXCEPT ![c] = "idle"]

\* Reading or accepting finds nothing (EAGAIN); a read may first consume
\* the part of a line that has arrived.
WouldBlock(c) ==
    \/ conn[c] = "idle" /\ UNCHANGED conn
    \/ conn[c] = "ready" /\ c \notin Listeners /\ conn' = [conn EXCEPT ![c] = "idle"]

\* A whole line, a new connection, end of file (which closes the
\* connection), or an error.
Serves(c) ==
    \/ conn[c] = "closed" /\ UNCHANGED conn
    \/ /\ conn[c] = "ready"
       /\ \E s \in {"ready", "idle"} \cup (IF c \in Listeners THEN {} ELSE {"closed"}) :
            conn' = [conn EXCEPT ![c] = s]

\* conn_resume_readline and conn_resume_accept, called by the primitive and
\* again on every pass over block_q.
TryIo(t, kind, c) ==
    \/ WouldBlock(c) /\ BlockThread(t, kind, c)
    \/ Serves(c) /\ UnblockThread(t)

RetryIo ==
    /\ phase = "blocked" /\ cur # 0 /\ ctx[cur].kind \in IoKinds
    /\ TryIo(cur, ctx[cur].kind, ctx[cur].on)
    /\ Advance("block")
    /\ UNCHANGED <<registry, vmState, trap, locks, ticks, expiring, idle>>

\* The BLOCK_CTXT_LOCKING case: the thread goes to run_q by deq and enq, not
\* by unblock_thread; its accumulator and context stay as they are.
RetryLock ==
    /\ phase = "blocked" /\ cur # 0 /\ ctx[cur].kind = "locking"
    /\ LET o == ctx[cur].on IN
        IF Lockable(mutex[o], cur)
        THEN /\ mutex' = [mutex EXCEPT ![o] = Locked(@, cur)]
             /\ Enqueued(cur, "run")
        ELSE UNCHANGED <<mutex, q, queue>>
    /\ Advance("block")
    /\ UNCHANGED <<registry, ctx, due, vm, locked, lockedCount, conn, ticks, expiring, idle>>

\* run_run_queue returned 1.
RunDone ==
    /\ phase = "run" /\ cur = 0
    /\ idle' = 0 /\ phase' = "loop"
    /\ UNCHANGED <<registry, queues, vm, locks, conn, cur, next, ticks, expiring>>

\* Into run_run_queue; with an empty run_q it returns 0 at once, and after
\* IdleLimit such rounds the server waits for an event.
BlockedDone ==
    /\ phase = "blocked" /\ cur = 0
    /\ IF q["run"] # << >>
       THEN Enter("run", "run") /\ ticks' = Slice /\ UNCHANGED idle
       ELSE /\ idle' = IF idle + 1 >= IdleLimit THEN 0 ELSE idle + 1
            /\ phase' = IF idle + 1 >= IdleLimit THEN "select" ELSE "loop"
            /\ UNCHANGED <<cur, next, ticks>>
    /\ UNCHANGED <<registry, queues, vm, locks, conn, expiring>>

\* block_until_event returns: an alarm, or input on a connection that some
\* blocked thread waits for.  Lock waiters contribute nothing to wait for,
\* nor do connections closed meanwhile.
WakeFromSelect ==
    /\ phase = "select"
    /\ \/ due # {}
       \/ \E t \in threadtab : WaitsForIo(t) /\ conn[ctx[t].on] = "ready"
    /\ phase' = "loop"
    /\ UNCHANGED <<registry, queues, vm, locks, conn, cur, next, ticks, expiring, idle>>

-----------------------------------------------------------------------------
(* run_vm: the instructions of the current thread.                         *)

Running ==
    /\ phase = "run" /\ cur # 0 /\ acc[cur] # "yield" /\ ticks > 0
    /\ vmState[cur] # "dying" \/ expiring

\* What every instruction does to the interpreter loop.
Instr == Running /\ ticks' = ticks - 1 /\ expiring' = FALSE /\ UNCHANGED <<sweep, idle>>

Compute == Instr /\ UNCHANGED <<registry, queues, vm, locks, conn>>

\* Quota expiry, at the top of the loop: a handler gets a fresh quota and is
\* uninstalled; without one the thread is dying, yet the instruction at hand
\* is still executed.
QuotaExpires ==
    /\ Running /\ ~expiring /\ vmState[cur] = "quota"
    /\ vmState' = Raised(cur)
    /\ trap' = [trap EXCEPT ![cur] = FALSE]
    /\ expiring' = TRUE
    /\ UNCHANGED <<registry, queues, acc, locks, conn, sweep, ticks, idle>>

Raise ==
    /\ Instr
    /\ vmState' = Raised(cur)
    /\ UNCHANGED <<registry, queues, acc, trap, locks, conn>>

\* OP_RET out of the outermost frame (and stack overflow, in push).
Return ==
    /\ Instr
    /\ vmState' = [vmState EXCEPT ![cur] = "dying"]
    /\ UNCHANGED <<registry, queues, acc, trap, locks, conn>>

SetHandler(b) ==
    /\ Instr
    /\ trap' = [trap EXCEPT ![cur] = b]
    /\ UNCHANGED <<registry, queues, acc, vmState, locks, conn>>

\* Mutant: a thread may lock a second object while it holds a first one.
HoldsAnother_never(o) == FALSE

HoldsAnother(o) == lockedCount[cur] > 0 /\ locked[cur] # o

\* lockObjFun refuses a second object.
LockRefused(o) ==
    /\ Instr /\ HoldsAnother(o)
    /\ vmState' = Raised(cur)
    /\ UNCHANGED <<registry, queues, acc, trap, locks, conn>>

\* lockObjFun: vm_locked and its count are set before the lock is tried.
LockObj(o) ==
    /\ Instr /\ ~HoldsAnother(o)
    /\ lockedCount[cur] < MaxDepth
    /\ locked' = [locked EXCEPT ![cur] = o]
    /\ lockedCount' = [lockedCount EXCEPT ![cur] = @ + 1]
    /\ IF Lockable(mutex[o], cur)
       THEN mutex' = [mutex EXCEPT ![o] = Locked(@, cur)] /\ UNCHANGED <<queues, acc>>
       ELSE /\ UndisturbedWaiters => vmState[cur] # "dying"
            /\ BlockThread(cur, "locking", o)
            /\ UNCHANGED mutex
    /\ UNCHANGED <<registry, vmState, trap, conn>>

\* Mutant: any thread may unlock any object.
UnlockObj_unchecked(o) ==
    /\ Instr
    /\ lockedCount' = [lockedCount EXCEPT ![cur] = IF @ > 1 THEN @ - 1 ELSE 0]
    /\ locked' = [locked EXCEPT ![cur] = IF lockedCount[cur] > 1 THEN @ ELSE Null]
    /\ mutex' = [mutex EXCEPT ![o] = Unlocked(@)]
    /\ UNCHANGED <<registry, queues, vm, conn>>

\* unlockObjFun of the object in vm_locked (of another it returns false).
UnlockObj(o) ==
    /\ Instr /\ locked[cur] = o
    /\ lockedCount' = [lockedCount EXCEPT ![cur] = IF @ > 1 THEN @ - 1 ELSE 0]
    /\ locked' = [locked EXCEPT ![cur] = IF lockedCount[cur] > 1 THEN @ ELSE Null]
    /\ mutex' = [mutex EXCEPT ![o] = Unlocked(@)]
    /\ UNCHANGED <<registry, queues, vm, conn>>

\* fork and fork/quota: the new thread inherits the handler.  A quota of 0,
\* or a closure that cannot be applied, leaves it dying at birth.
Fork(s) ==
    /\ Instr /\ nextNumber \in Threads
    /\ LET t == nextNumber IN
        /\ threadtab' = threadtab \cup {t}
        /\ q' = [q EXCEPT !["run"] = PushFront(@, t)]
        /\ queue' = [queue EXCEPT ![t] = "run"]
        /\ vmState' = [vmState EXCEPT ![t] = s]
        /\ trap' = [trap EXCEPT ![t] = trap[cur]]
    /\ numActive' = numActive + 1 /\ nextNumber' = nextNumber + 1
    /\ UNCHANGED <<ctx, due, acc, locks, conn>>

MayDisturb(t) == UndisturbedWaiters => ~WaitsForLock(t)

\* The part kill and force-kill share.
WakeVictim(t) == IF queue[t] # "run" THEN UnblockThread(t) ELSE UNCHANGED <<queues, acc>>

Kill(t) ==
    /\ Instr /\ MayDisturb(t)
    /\ WakeVictim(t)
    /\ vmState' = Raised(t)
    /\ UNCHANGED <<registry, trap, locks, conn>>

ForceKill(t) ==
    /\ Instr /\ MayDisturb(t)
    /\ WakeVictim(t)
    /\ vmState' = [vmState EXCEPT ![t] = "dying"]
    /\ UNCHANGED <<registry, trap, locks, conn>>

\* set-thread-quota: any thread, in any state, even one that is dying.
SetThreadQuota(t, s) ==
    /\ Instr
    /\ vmState' = [vmState EXCEPT ![t] = s]
    /\ UNCHANGED <<registry, queues, acc, trap, locks, conn>>

\* ... but find_thread_by_number's NULL for a thread that is gone is used.
SetQuotaOfGoneThread ==
    /\ Running /\ phase' = "crash"
    /\ UNCHANGED <<registry, queues, vm, locks, conn, cur, next, ticks, expiring, idle>>

Sleep ==
    /\ Instr /\ SleepThread(cur)
    /\ UNCHANGED <<registry, vmState, trap, locks, conn>>

ReadFrom(c) ==
    /\ Instr /\ TryIo(cur, "readline", c)
    /\ UNCHANGED <<registry, vmState, trap, locks>>

AcceptConnection(c) ==
    /\ Instr /\ conn[c] # "closed" /\ TryIo(cur, "accept", c)
    /\ UNCHANGED <<registry, vmState, trap, locks>>

CloseConnection(c) ==
    /\ Instr /\ conn' = [conn EXCEPT ![c] = "closed"]
    /\ UNCHANGED <<registry, queues, vm, locks>>

Shutdown ==
    /\ Running /\ phase' = "exit"
    /\ UNCHANGED <<registry, queues, vm, locks, conn, cur, next, ticks, expiring, idle>>

\* Mutant: a thread that has yielded is not seen to be dying.
Ended_unlessYielded(t) == vmState[t] = "dying" /\ acc[t] # "yield"

\* What run_vm returns.
Ended(t) == vmState[t] = "dying"

\* run_vm returns 0: slice used up, or the accumulator is yield_thread.
SliceOver ==
    /\ phase = "run" /\ cur # 0 /\ ~expiring /\ ~Ended(cur)
    /\ ticks = 0 \/ acc[cur] = "yield"
    /\ UNCHANGED queues
    /\ Advance("run") /\ ticks' = Slice
    /\ UNCHANGED <<registry, vm, locks, conn, expiring, idle>>

\* Mutant: the locks of a thread that ends are not given up.
LocksGivenUp_none(t) == mutex

\* The loop of run_run_queue that unlocks on behalf of an ended thread.
LocksGivenUp(t) ==
    IF locked[t] = Null THEN mutex
    ELSE [mutex EXCEPT ![locked[t]] = UnlockedTimes(@, lockedCount[t])]

\* run_vm returns 1: unlock, deregister_thread, free.
Reap ==
    /\ phase = "run" /\ cur # 0 /\ ~expiring /\ Ended(cur)
    /\ mutex' = LocksGivenUp(cur)
    /\ locked' = [locked EXCEPT ![cur] = Null]
    /\ lockedCount' = [lockedCount EXCEPT ![cur] = 0]
    /\ threadtab' = threadtab \ {cur} /\ numActive' = numActive - 1
    /\ q' = [q EXCEPT ![queue[cur]] = Without(@, cur)]
    /\ queue' = [queue EXCEPT ![cur] = "none"]
    /\ ctx' = [ctx EXCEPT ![cur] = NoContext]
    /\ due' = due \ {cur}
    /\ acc' = [acc EXCEPT ![cur] = "value"]
    /\ trap' = [trap EXCEPT ![cur] = FALSE]
    /\ Advance("run") /\ ticks' = Slice
    /\ UNCHANGED <<nextNumber, vmState, conn, expiring, idle>>

-----------------------------------------------------------------------------
(* The environment: clocks and peers.                                      *)

\* time(NULL) is read once, before the pass over sleep_q.
Alarm(t) ==
    /\ phase # "sleepers" /\ ~Stopped /\ queue[t] = "sleep" /\ t \notin due
    /\ due' = due \cup {t}
    /\ UNCHANGED <<registry, q, queue, ctx, vm, locks, conn, sweep, ticks, expiring, idle>>

InputArrives(c) ==
    /\ conn[c] = "idle" /\ ~Stopped
    /\ conn' = [conn EXCEPT ![c] = "ready"]
    /\ UNCHANGED <<registry, queues, vm, locks, sweep, ticks, expiring, idle>>

Done == Stopped /\ UNCHANGED vars

Loop == StartRound \/ ResumeSleeper \/ SleepersDone \/ RetryIo \/ RetryLock
        \/ BlockedDone \/ RunDone \/ WakeFromSelect \/ SliceOver \/ Reap

Instruction ==
    \/ Compute \/ QuotaExpires \/ Raise \/ Return \/ Sleep \/ Shutdown
    \/ SetQuotaOfGoneThread
    \/ \E b \in BOOLEAN : SetHandler(b)
    \/ \E o \in Objects : LockRefused(o) \/ LockObj(o) \/ UnlockObj(o)
    \/ \E s \in Quotas \cup {"dying"} : Fork(s)
    \/ \E t \in threadtab : Kill(t) \/ ForceKill(t)
    \/ \E t \in threadtab, s \in Quotas \cup {"dying"} : SetThreadQuota(t, s)
    \/ \E c \in Conns \ Listeners : ReadFrom(c)
    \/ \E c \in Listeners : AcceptConnection(c)
    \/ \E c \in Conns : CloseConnection(c)

Process == Loop \/ Instruction

Environment == (\E t \in Threads : Alarm(t)) \/ (\E c \in Conns : InputArrives(c))

Next == Process \/ Environment \/ Done

Spec == Init /\ [][Next]_vars

\* The process is not suspended for ever, and time passes (strong fairness,
\* because the clock is only looked at between passes over sleep_q); peers
\* may stay silent.
FairSpec == Spec /\ WF_vars(Process) /\ \A t \in Threads : SF_vars(Alarm(t))

-----------------------------------------------------------------------------
(* Properties.                                                             *)

ContextKinds == {"none", "readline", "accept", "locking", "alarm"}

Contexts == [kind : ContextKinds, on : Objects \cup Conns \cup {Null}]

\* The type of every variable.
TypeOK ==
    /\ threadtab \subseteq Threads /\ numActive \in Int
    /\ nextNumber \in 1..(MaxThreads + 1)
    /\ q \in [Queues -> Seq(Threads)]
    /\ queue \in [Threads -> Queues \cup {"none"}]
    /\ ctx \in [Threads -> Contexts] /\ due \subseteq Threads
    /\ acc \in [Threads -> {"value", "yield"}]
    /\ vmState \in [Threads -> QuotaKinds \cup {"dying"}]
    /\ trap \in [Threads -> BOOLEAN]
    /\ locked \in [Threads -> Objects \cup {Null}]
    /\ lockedCount \in [Threads -> 0..MaxDepth]
    /\ mutex \in [Objects -> [counter : Nat, owner : Threads \cup {NoThread}]]
    /\ conn \in [Conns -> {"idle", "ready", "closed"}]
    /\ phase \in {"loop", "sleepers", "blocked", "run", "select", "exit", "crash"}
    /\ cur \in Threads \cup {0} /\ next \in Threads \cup {0}
    /\ ticks \in 0..Slice /\ expiring \in BOOLEAN
    /\ idle \in 0..(IdleLimit - 1)

\* The queues partition the thread table: a registered thread is linked into
\* the one queue its queue field names, once, and num_active, on which the
\* server's life depends, counts exactly those threads.
QueuesPartition ==
    /\ numActive = Cardinality(threadtab)
    /\ \A k \in Queues :
        /\ NoRepeats(q[k])
        /\ InQueue(q[k]) = {t \in threadtab : queue[t] = k}
    /\ \A t \in Threads : queue[t] = "none" <=> t \notin threadtab

SweptQueue == CASE phase = "sleepers" -> "sleep"
                [] phase = "blocked"  -> "block"
                [] phase = "run"      -> "run"
                [] OTHER              -> "none"

\* The `next' pointer a pass saved before it ran a thread still points to a
\* live thread of the same queue when it is followed, whatever that thread
\* did to itself and to others in between; and the current thread is live.
SavedNextLive ==
    SweptQueue # "none" =>
        /\ cur # 0 => cur \in threadtab
        /\ cur # 0 /\ phase # "run" => queue[cur] = SweptQueue
        /\ next # 0 => cur # 0 /\ next # cur /\ next \in threadtab /\ queue[next] = SweptQueue

\* A held object lock has a live owner that knows of it: the unlock loop of
\* run_run_queue will release it, so no lock outlives its thread.
NoOrphanLock ==
    \A o \in Objects : mutex[o].counter > 0 =>
        LET t == mutex[o].owner IN
            t \in threadtab /\ locked[t] = o /\ mutex[o].counter <= lockedCount[t]

\* vm.h: vm_locked is the `object this thread holds the lock for' (but for a
\* thread that is still waiting for it), vm_locked_count its lock count.
LockedMeansHeld ==
    \A t \in threadtab : lockedCount[t] > 0 /\ ~WaitsForLock(t) =>
        mutex[locked[t]] = [counter |-> lockedCount[t], owner |-> t]

\* A thread waiting for a lock holds no lock, not even that one.
WaitersHoldNothing ==
    \A t \in threadtab : WaitsForLock(t) => \A o \in Objects : mutex[o].owner # t

\* The server goes to sleep in select() only if something can wake it: a
\* sleeper's alarm or a connection.  Threads waiting for locks alone, which
\* select knows nothing of, can never be all that is left.
SelectCanWake ==
    phase = "select" => \E t \in threadtab :
        queue[t] = "sleep" \/ (WaitsForIo(t) /\ conn[ctx[t].on] # "closed")

\* And it does not go to sleep on work it could do: no waiter's lock is free
\* and no blocked reader's connection has been closed.
SelectMissesNothing ==
    phase = "select" => \A t \in threadtab :
        /\ WaitsForLock(t) => ~Lockable(mutex[ctx[t].on], t)
        /\ WaitsForIo(t) => conn[ctx[t].on] # "closed"

\* thread.c: run_q holds the runnable threads; run_vm executes nothing for a
\* thread whose accumulator is still yield_thread.
RunnableCanRun ==
    \A t \in threadtab : queue[t] = "run" /\ vmState[t] # "dying" => acc[t] # "yield"

\* No runnable thread is starved by the others, however they fork, kill,
\* wake and requeue each other while the pass is under way.
RunnableServed ==
    \A t \in Threads : queue[t] = "run" ~> ((phase = "run" /\ cur = t) \/ Stopped)

\* A sleeper's alarm is heeded even if other threads keep the server busy or
\* the server sleeps in select.
SleeperWakes == \A t \in Threads : queue[t] = "sleep" ~> (queue[t] # "sleep" \/ Stopped)

\* Closing a connection releases the thread that waits for it.
ClosedConnReleases ==
    \A t \in Threads : (WaitsForIo(t) /\ conn[ctx[t].on] = "closed") ~> (queue[t] # "block" \/ Stopped)

\* A dying thread that is runnable is reaped, unless set-thread-quota brings
\* it back to life first.
DyingReaped ==
    \A t \in Threads : (queue[t] = "run" /\ vmState[t] = "dying") ~>
                        (t \notin threadtab \/ vmState[t] # "dying" \/ Stopped)

-----------------------------------------------------------------------------
(* The inductive invariant behind the safety properties.                   *)

\* Blocked and sleeping threads have yielded, so none of them is executing;
\* numbers not given out yet are not in the thread table.
QueueInv ==
    /\ QueuesPartition /\ SavedNextLive
    /\ threadtab \subseteq 1..(nextNumber - 1)
    /\ \A t \in Threads : queue[t] \in {"block", "sleep"} => acc[t] = "yield"

\* Whatever threads a restart brings back, a lock that names an owner has a
\* living one that knows of it.
NamedOwnersLive ==
    \A o \in Objects : mutex[o].owner # NoThread =>
        LET t == mutex[o].owner IN
            t \in threadtab /\ locked[t] = o /\ mutex[o].counter \in 1..lockedCount[t]

\* A held lock has an owner, as long as none has been restored from a checkpoint.
HeldLocksOwned == \A o \in Objects : mutex[o].counter > 0 => mutex[o].owner # NoThread

\* A waiter waits for the object in its vm_locked, which it has counted.
LockInv ==
    /\ NamedOwnersLive /\ WaitersHoldNothing
    /\ \A t \in Threads : WaitsForLock(t) =>
        ctx[t].on \in Objects /\ locked[t] = ctx[t].on /\ lockedCount[t] > 0

\* What a retry of a blocked thread finds when it is of no use.
Stuck(t) ==
    /\ WaitsForLock(t) => ~Lockable(mutex[ctx[t].on], t)
    /\ WaitsForIo(t) => conn[ctx[t].on] # "closed"

\* The pass over block_q has dealt with the threads in front of the current
\* one; a thread that blocks again goes to the head, so it is one of them.
Passed(t) == cur = 0 \/ IndexIn(q["block"], t) < IndexIn(q["block"], cur)

\* As long as the pass over block_q has woken nobody, the threads it has dealt
\* with have nothing to do.
PassInv ==
    /\ \A t \in Threads : queue[t] = "block" => WaitsForLock(t) \/ (WaitsForIo(t) /\ ctx[t].on \in Conns)
    /\ phase \in {"sleepers", "blocked", "select"} => threadtab # {}
    /\ phase = "blocked" /\ cur # 0 => next = Follower(q["block"], cur)
    /\ phase = "blocked" /\ q["run"] = << >> =>
        \A t \in threadtab : queue[t] = "block" /\ Passed(t) => Stuck(t)
    /\ phase = "select" => q["run"] = << >> /\ \A t \in threadtab : Stuck(t)

\* The counts of threads and mutexes agree; a thread that has asked for a lock
\* has asked for its first, and does not end before it has been given it.  All
\* this only as long as UndisturbedWaiters: a wakened waiter counts a lock that
\* it does not hold.
MonitorInv ==
    /\ \A t \in Threads : /\ lockedCount[t] > 0 <=> locked[t] # Null
                          /\ t \notin threadtab => lockedCount[t] = 0
                          /\ WaitsForLock(t) => lockedCount[t] = 1
    /\ LockedMeansHeld
    /\ phase = "run" /\ cur # 0 /\ WaitsForLock(cur) => vmState[cur] # "dying"

\* The inductive strengthening of QueuesPartition, SavedNextLive, NoOrphanLock
\* and WaitersHoldNothing: queue bookkeeping and lock bookkeeping together.
IndInv == TypeOK /\ QueueInv /\ LockInv /\ HeldLocksOwned

-----------------------------------------------------------------------------
(* Refinement.  While programs let no thread die that waits for a lock,    *)
(* the mutex records together with block_q implement the lock monitor.     *)

Holders   == [o \in Objects |-> mutex[o].owner]
Depths    == [o \in Objects |-> mutex[o].counter]
WaitersOf == [o \in Objects |-> {t \in Threads : WaitsForLock(t) /\ ctx[t].on = o}]

Monitor == INSTANCE LockMonitor WITH
    alive <- threadtab, holder <- Holders, depth <- Depths, waiters <- WaitersOf

\* lock and unlock keep the promise of LockMonitor: one holder, released by
\* the holder only, in spite of the lock being set up before it is granted.
ImplementsMonitor == Monitor!Spec
=============================================================================
