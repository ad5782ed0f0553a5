---------------------------- MODULE Checkpoint -----------------------------
(***************************************************************************)
(* MoveThreads with checkpoints and restarts: the primitive `checkpoint',  *)
(* the safepoint of run_vm that writes the file, what it holds of every    *)
(* thread (save_restartable_threads), and what the server makes of it when *)
(* it is started on that file (load_restartable_threads).                  *)
(*                                                                         *)
(* The file is written and read whole here; half-written files are the     *)
(* business of CheckpointFiles, the heap's encoding that of Persist.       *)
(***************************************************************************)
EXTENDS MoveThreads

CONSTANT MaxRestarts        \* bound: how often the server is started again

ASSUME RestartsAssumption == MaxRestarts \in Nat

VARIABLES
    pending,        \* SYNCH_CHECKPOINT is set in synch_bitmap
    image,          \* the threads in the newest checkpoint file
    restarts,
    booting,        \* between main's start and run_main_loop
    toLoad          \* threads of the file not loaded yet

ckvars == <<vars, pending, image, restarts, booting, toLoad>>

\* Threads a checkpoint leaves out: the dying, and those with quota VM_STATE_NOQUOTA.
Restartable(t) == vmState[t] \notin {"dying", "noquota"}

\* save_restartable_threads: neither queue nor context of a thread is saved.
Snapshot ==
    LET S == {t \in threadtab : Restartable(t)} IN
    [t \in S |-> [state |-> vmState[t], acc |-> acc[t], trap |-> trap[t],
                  locked |-> locked[t], count |-> lockedCount[t]]]

NoThreads == [t \in {} |-> "none"]

CheckpointInit ==
    /\ Init /\ pending = FALSE /\ image = NoThreads /\ restarts = 0
    /\ booting = FALSE /\ toLoad = {}

\* The primitive only asks for a checkpoint.
CheckpointFun ==
    /\ Instr /\ ~pending /\ pending' = TRUE
    /\ UNCHANGED <<registry, queues, vm, locks, conn, image, restarts>>

\* gc_reach_safepoint, before the next instruction of whichever thread runs.
TakeCheckpoint ==
    /\ Running /\ pending
    /\ image' = Snapshot /\ pending' = FALSE
    /\ UNCHANGED <<vars, restarts>>

-----------------------------------------------------------------------------
(* Starting the server again.                                              *)

\* Mutant: the lock of an object is part of what is loaded.
FreshMutexes_loaded == mutex

\* load: recmutex_init for every object.
FreshMutexes == [o \in Objects |-> Unheld]

\* The process has ended, or is killed, at any point.  It is started on the
\* newest checkpoint, with its threads or without (-t): init_thread, a heap
\* in which no lock is held and every connection is closed.
Start ==
    /\ restarts < MaxRestarts /\ restarts' = restarts + 1
    /\ booting' = TRUE /\ toLoad' \in {DOMAIN image, {}}
    /\ threadtab' = {} /\ numActive' = 0 /\ nextNumber' = 1
    /\ q' = [k \in Queues |-> << >>]
    /\ queue' = [t \in Threads |-> "none"]
    /\ ctx' = [t \in Threads |-> NoContext] /\ due' = {}
    /\ acc' = [t \in Threads |-> "value"]
    /\ vmState' = [t \in Threads |-> "dying"]
    /\ trap' = [t \in Threads |-> FALSE]
    /\ locked' = [t \in Threads |-> Null]
    /\ lockedCount' = [t \in Threads |-> 0]
    /\ mutex' = FreshMutexes
    /\ conn' = [c \in Conns |-> "closed"]
    /\ phase' = "loop" /\ cur' = 0 /\ next' = 0
    /\ ticks' = 0 /\ expiring' = FALSE /\ idle' = 0
    /\ pending' = FALSE
    /\ UNCHANGED image

\* Mutant: next_number is not moved past the number of the loaded thread.
NumberAfter_kept(t) == nextNumber

NumberAfter(t) == IF t >= nextNumber THEN t + 1 ELSE nextNumber

\* Mutant: the accumulator is loaded as it was saved.
LoadedAcc_kept(r) == r.acc

\* A thread saved while it was blocked or asleep does not block again.
LoadedAcc(r) == IF r.acc = "yield" THEN "value" ELSE r.acc

\* n calls of recmutex_lock while current_thread is NULL.
LockedAgain(m, n) ==
    IF n > 0 /\ Lockable(m, NoThread) THEN [counter |-> m.counter + n, owner |-> NoThread] ELSE m

\* One turn of load_restartable_threads and the call of real_begin_thread.
\* The file holds the threads in the order of the buckets of threadtab.
LoadThread(t) ==
    /\ booting /\ t \in toLoad /\ toLoad' = toLoad \ {t}
    /\ nextNumber' = NumberAfter(t)
    /\ threadtab' = threadtab \cup {t} /\ numActive' = numActive + 1
    /\ q' = [q EXCEPT !["run"] = PushFront(@, t)]
    /\ queue' = [queue EXCEPT ![t] = "run"]
    /\ vmState' = [vmState EXCEPT ![t] = image[t].state]
    /\ trap' = [trap EXCEPT ![t] = image[t].trap]
    /\ acc' = [acc EXCEPT ![t] = LoadedAcc(image[t])]
    /\ locked' = [locked EXCEPT ![t] = image[t].locked]
    /\ lockedCount' = [lockedCount EXCEPT ![t] = image[t].count]
    /\ mutex' = IF image[t].locked = Null THEN mutex
                ELSE [mutex EXCEPT ![image[t].locked] = LockedAgain(@, image[t].count)]
    /\ UNCHANGED <<ctx, due, conn, sweep, ticks, expiring, idle, pending, image, restarts, booting>>

\* Boot scripts start threads; each takes the next number.
ScriptForks(s, b) ==
    /\ booting /\ toLoad = {} /\ nextNumber \in Threads
    /\ LET t == nextNumber IN
        /\ threadtab' = threadtab \cup {t}
        /\ q' = [q EXCEPT !["run"] = PushFront(@, t)]
        /\ queue' = [queue EXCEPT ![t] = "run"]
        /\ vmState' = [vmState EXCEPT ![t] = s]
        /\ trap' = [trap EXCEPT ![t] = b]
    /\ numActive' = numActive + 1 /\ nextNumber' = nextNumber + 1
    /\ UNCHANGED <<ctx, due, acc, locks, conn, sweep, ticks, expiring, idle>>
    /\ UNCHANGED <<pending, image, restarts, booting, toLoad>>

\* main goes on to run_main_loop.
Booted ==
    /\ booting /\ toLoad = {} /\ booting' = FALSE
    /\ UNCHANGED <<vars, pending, image, restarts, toLoad>>

Boot == Start \/ Booted \/ (\E t \in Threads : LoadThread(t))
        \/ \E s \in Quotas, b \in BOOLEAN : ScriptForks(s, b)

-----------------------------------------------------------------------------
\* No instruction is executed while a checkpoint is pending; passes and the
\* expiry of a quota, which comes before the safepoint, are not held up.
Work == Loop \/ QuotaExpires \/ (~pending /\ Instruction)

Server ==
    \/ ~booting /\ (Work \/ Done) /\ UNCHANGED <<pending, image, restarts, booting, toLoad>>
    \/ ~booting /\ (CheckpointFun \/ TakeCheckpoint) /\ UNCHANGED <<booting, toLoad>>

World == ~booting /\ Environment /\ UNCHANGED <<pending, image, restarts, booting, toLoad>>

CheckpointNext == Server \/ World \/ Boot

CheckpointSpec == CheckpointInit /\ [][CheckpointNext]_ckvars

-----------------------------------------------------------------------------
\* Types; a checkpoint holds only threads that may be resumed, never the dying
\* or those with quota VM_STATE_NOQUOTA.
ImageOK ==
    /\ DOMAIN image \subseteq Threads
    /\ \A t \in DOMAIN image : image[t] \in
        [state : {"quota", "daemon"}, acc : {"value", "yield"}, trap : BOOLEAN,
         locked : Objects \cup {Null}, count : 0..MaxDepth]
    /\ pending \in BOOLEAN /\ restarts \in 0..MaxRestarts
    /\ booting \in BOOLEAN /\ toLoad \subseteq DOMAIN image

\* The locks of o that living threads have counted, one by one.
Claims(o) ==
    {c \in threadtab \X (1..MaxDepth) : locked[c[1]] = o /\ c[2] <= lockedCount[c[1]]}

\* A lock that is held is accounted for: the living threads that have counted
\* it, restored ones and waiters included, have counted it at least as often
\* as the mutex, so it becomes free when they unlock it or end.  This replaces
\* NoOrphanLock, which does not survive a restart: restored locks have no owner.
LocksAccounted == \A o \in Objects : mutex[o].counter <= Cardinality(Claims(o))

\* Only one thing leaves a thread in run_q that will not run (its accumulator
\* says yield): being granted a lock it had waited for.  Restored threads run,
\* whether they were blocked, asleep or stuck in that way when they were saved.
OnlyGrantedStall ==
    \A t \in threadtab : queue[t] = "run" /\ vmState[t] # "dying" /\ acc[t] = "yield" =>
        ctx[t].kind = "locking" /\ locked[t] = ctx[t].on

\* What the loading of threads keeps, besides QueueInv: a thread is loaded
\* once, and nothing runs before the last one has been.
BootInv ==
    /\ toLoad \cap threadtab = {}
    /\ booting => phase = "loop"
    /\ ~booting => toLoad = {}

CheckpointInv == TypeOK /\ ImageOK /\ QueueInv /\ BootInv

\* A thread that has yielded and yet is in run_q has been granted its lock;
\* numbers that are not in use will be given to threads that can run.
GrantInv ==
    /\ \A t \in Threads : t \notin threadtab => acc[t] = "value"
    /\ \A t \in threadtab : queue[t] = "run" /\ acc[t] = "yield" =>
        ctx[t].kind = "locking" /\ locked[t] = ctx[t].on

\* The inductive strengthening of NamedOwnersLive, OnlyGrantedStall and
\* LocksAccounted: all that a restart leaves true of the locks.
RestartInv == CheckpointInv /\ LockInv /\ GrantInv /\ LocksAccounted

=============================================================================
