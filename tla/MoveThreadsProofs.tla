------------------------- MODULE MoveThreadsProofs -------------------------
(***************************************************************************)
(* Proofs about MoveThreads: its type invariant, the bookkeeping of the    *)
(* queues and that of the object locks, for any number of threads,         *)
(* objects and connections, any slice length and any nesting of locks.     *)
(*                                                                         *)
(* Then about the threads that wait: as long as no thread dies while it    *)
(* waits for a lock, the scheduler and the lock primitives implement       *)
(* LockMonitor; and a server that goes to sleep in select() has no work it *)
(* could do and something that can wake it.                                *)
(***************************************************************************)
EXTENDS MoveThreads, CommonLemmas, FiniteSetTheorems

-----------------------------------------------------------------------------
(* The type invariant.                                                     *)

\* The part of TypeOK the queue operations can disturb.
QueuesTyped ==
    /\ q \in [Queues -> Seq(Threads)]
    /\ queue \in [Threads -> Queues \cup {"none"}]
    /\ ctx \in [Threads -> Contexts] /\ due \subseteq Threads
    /\ acc \in [Threads -> {"value", "yield"}]

SweepTyped == cur \in Threads \cup {0} /\ next \in Threads \cup {0}

\* Unlinking keeps a sequence of threads one, even if it had repetitions.
LEMMA WithoutType ==
    ASSUME NEW S, NEW s \in Seq(S), NEW t
    PROVE  Without(s, t) \in Seq(S)
<1>1. CASE t \in InQueue(s)
  BY <1>1, WithoutElements
<1>2. CASE t \notin InQueue(s)
  BY <1>2 DEF Without
<1> QED BY <1>1, <1>2

\* The follower of a member of a queue (next_thread) is a thread or null.
LEMMA FollowerType ==
    ASSUME NEW S, NEW s \in Seq(S), NEW t
    PROVE  Follower(s, t) \in S \cup {0}
<1>1. CASE t \in InQueue(s) /\ IndexIn(s, t) < Len(s)
  <2>1. IndexIn(s, t) + 1 \in 1..Len(s)
    BY <1>1, IndexInFinds
  <2> QED BY <1>1, <2>1 DEF Follower
<1>2. CASE ~(t \in InQueue(s) /\ IndexIn(s, t) < Len(s))
  BY <1>2 DEF Follower
<1> QED BY <1>1, <1>2

\* The head of a queue is a thread, and of an empty one null.
LEMMA FirstType ==
    ASSUME NEW S, NEW s \in Seq(S)
    PROVE  First(s) \in S \cup {0}
BY DEF First

\* enq after deq: each queue stays a sequence of threads, q gains one.
LEMMA EnqueuedType ==
    ASSUME QueuesTyped, NEW t \in Threads, NEW k \in Queues, Enqueued(t, k)
    PROVE  /\ q' \in [Queues -> Seq(Threads)]
           /\ queue' \in [Threads -> Queues \cup {"none"}]
<1>1. ASSUME NEW n \in Queues PROVE q'[n] \in Seq(Threads)
  <2> DEFINE rest == IF n = queue[t] THEN Without(q[n], t) ELSE q[n]
  <2>1. rest \in Seq(Threads)
    BY WithoutType DEF QueuesTyped
  <2>2. PushFront(rest, t) \in Seq(Threads)
    BY <2>1, PushFrontLemma
  <2> QED BY <2>1, <2>2 DEF Enqueued, MoveTo
<1>2. q' = [n \in Queues |-> q'[n]]
  BY DEF Enqueued, MoveTo
<1> QED BY <1>1, <1>2 DEF Enqueued, QueuesTyped

\* block_thread keeps the types of the queues and of the thread fields.
LEMMA BlockType ==
    ASSUME QueuesTyped, NEW t \in Threads, NEW kind \in ContextKinds,
           NEW x \in Objects \cup Conns \cup {Null}, BlockThread(t, kind, x)
    PROVE  QueuesTyped'
<1>1. Enqueued(t, "block") /\ "block" \in Queues
  BY DEF BlockThread, Queues
<1>2. [kind |-> kind, on |-> x] \in Contexts
  BY DEF Contexts
<1> QED BY <1>1, <1>2, EnqueuedType DEF BlockThread, QueuesTyped

\* sleep_thread, with any delay, keeps those types too.
LEMMA SleepType ==
    ASSUME QueuesTyped, NEW t \in Threads, SleepThread(t)
    PROVE  QueuesTyped'
<1>1. Enqueued(t, "sleep") /\ "sleep" \in Queues
  BY DEF SleepThread, Queues
<1>2. [kind |-> "alarm", on |-> Null] \in Contexts
  BY DEF Contexts, ContextKinds
<1> QED BY <1>1, <1>2, EnqueuedType DEF SleepThread, QueuesTyped

\* unblock_thread keeps those types too.
LEMMA UnblockType ==
    ASSUME QueuesTyped, NEW t \in Threads, UnblockThread(t)
    PROVE  QueuesTyped'
<1>1. Enqueued(t, "run") /\ "run" \in Queues
  BY DEF UnblockThread, Queues
<1>2. NoContext \in Contexts
  BY DEF Contexts, ContextKinds, NoContext
<1> QED BY <1>1, <1>2, EnqueuedType DEF UnblockThread, QueuesTyped

\* The step to the saved next thread keeps t and next_t threads or null.
LEMMA AdvanceType ==
    ASSUME SweepTyped, QueuesTyped', NEW k \in Queues, Advance(k)
    PROVE  SweepTyped'
<1>1. q'[k] \in Seq(Threads)
  BY DEF QueuesTyped
<1>2. Follower(q'[k], next) \in Threads \cup {0}
  BY <1>1, FollowerType
<1> QED BY <1>2 DEF Advance, SweepTyped

\* The start of a pass over a queue reads its head and the head's follower.
LEMMA EnterType ==
    ASSUME QueuesTyped, NEW k \in Queues, NEW p, Enter(k, p)
    PROVE  SweepTyped'
<1>1. q[k] \in Seq(Threads)
  BY DEF QueuesTyped
<1>2. /\ First(q[k]) \in Threads \cup {0}
      /\ Follower(q[k], First(q[k])) \in Threads \cup {0}
  BY <1>1, FirstType, FollowerType
<1> QED BY <1>2 DEF Enter, SweepTyped

\* Whatever recmutex.c does to a mutex leaves one.
Mutexes == [counter : Nat, owner : Threads \cup {NoThread}]

\* Taking and giving up a lock, once or n times, gives a mutex.
LEMMA MutexTypes ==
    ASSUME NEW m \in Mutexes
    PROVE  /\ Unheld \in Mutexes /\ Unlocked(m) \in Mutexes
           /\ \A t \in Threads : Locked(m, t) \in Mutexes
           /\ \A n \in Nat : UnlockedTimes(m, n) \in Mutexes
BY DEF Mutexes, Unheld, Unlocked, Locked, UnlockedTimes


\* Giving up the lock of an ended thread leaves every mutex well-formed.
LEMMA LocksGivenUpType ==
    ASSUME TypeOK, NEW t \in Threads
    PROVE  LocksGivenUp(t) \in [Objects -> Mutexes]
<1>1. mutex \in [Objects -> Mutexes] /\ lockedCount[t] \in Nat
  BY DEF TypeOK, Mutexes
<1>2. \A o \in Objects : UnlockedTimes(mutex[o], lockedCount[t]) \in Mutexes
  BY <1>1, MutexTypes
<1> QED BY <1>1, <1>2 DEF LocksGivenUp

\* What is left of TypeOK; most actions leave most of it alone.
RegistryTyped ==
    /\ threadtab \subseteq Threads /\ numActive \in Int
    /\ nextNumber \in 1..(MaxThreads + 1)
VmTyped ==
    /\ vmState \in [Threads -> QuotaKinds \cup {"dying"}]
    /\ trap \in [Threads -> BOOLEAN]
LocksTyped ==
    /\ locked \in [Threads -> Objects \cup {Null}]
    /\ lockedCount \in [Threads -> 0..MaxDepth]
    /\ mutex \in [Objects -> Mutexes]
ConnTyped == conn \in [Conns -> {"idle", "ready", "closed"}]
Phases == {"loop", "sleepers", "blocked", "run", "select", "exit", "crash"}
LoopTyped ==
    /\ phase \in Phases /\ ticks \in 0..Slice /\ expiring \in BOOLEAN
    /\ idle \in 0..(IdleLimit - 1)

TypedParts ==
    /\ RegistryTyped /\ QueuesTyped /\ VmTyped /\ LocksTyped
    /\ ConnTyped /\ SweepTyped /\ LoopTyped

\* The type invariant and its conjuncts, as one formula before and after a step.
LEMMA TypeParts == (TypeOK <=> TypedParts) /\ (TypeOK' <=> TypedParts')
BY DEF TypeOK, TypedParts, RegistryTyped, QueuesTyped, VmTyped, LocksTyped, Mutexes,
       ConnTyped, SweepTyped, LoopTyped, Phases

\* A raised exception, handled or not, is a known outcome of the instruction.
LEMMA RaisedType ==
    ASSUME VmTyped, NEW t \in Threads
    PROVE  Raised(t) \in [Threads -> QuotaKinds \cup {"dying"}]
BY DEF VmTyped, Raised

\* A thread that is executing is the current one.
LEMMA RunningThread ==
    ASSUME TypeOK, Running
    PROVE  /\ cur \in Threads /\ phase = "run" /\ acc[cur] = "value"
           /\ ticks \in Nat /\ ticks > 0 /\ ticks <= Slice
BY ThreadsAssumption DEF TypeOK, Running

\* An instruction of t runs inside the pass over run_q, with t current.
LEMMA InstrLoop ==
    ASSUME TypeOK, Instr
    PROVE  SweepTyped' /\ LoopTyped'
<1>1. SweepTyped /\ LoopTyped
  BY TypeParts DEF TypedParts
<1>2. phase' = phase /\ cur' = cur /\ next' = next /\ idle' = idle
  BY DEF Instr, sweep
<1>3. ticks' \in 0..Slice /\ expiring' = FALSE
  BY RunningThread, ThreadsAssumption DEF Instr
<1> QED BY <1>1, <1>2, <1>3 DEF SweepTyped, LoopTyped

\* The state init_thread leaves is well-typed.
LEMMA TypeInit == Init => TypeOK
<1> SUFFICES ASSUME Init PROVE TypeOK
  OBVIOUS
<1>1. PICK n \in Threads :
        /\ threadtab = 1..n /\ numActive = n /\ nextNumber = n + 1
        /\ q = [k \in Queues |-> IF k = "run" THEN [i \in 1..n |-> n + 1 - i] ELSE << >>]
        /\ queue = [t \in Threads |-> IF t <= n THEN "run" ELSE "none"]
        /\ \E s \in Quotas : vmState = [t \in Threads |-> IF t <= n THEN s ELSE "dying"]
        /\ \E b \in BOOLEAN : trap = [t \in Threads |-> IF t <= n THEN b ELSE FALSE]
  BY DEF Init
<1>2. n \in Nat /\ n >= 1 /\ n <= MaxThreads /\ MaxThreads \in Nat
  BY ThreadsAssumption DEF Threads
<1>3. RegistryTyped
  BY <1>1, <1>2 DEF RegistryTyped, Threads
<1>4. q \in [Queues -> Seq(Threads)]
  <2>1. [i \in 1..n |-> n + 1 - i] \in Seq(Threads)
    <3>1. \A i \in 1..n : n + 1 - i \in Threads
      BY <1>2 DEF Threads
    <3> QED BY <3>1, <1>2
  <2>2. << >> \in Seq(Threads)
    OBVIOUS
  <2> QED BY <1>1, <2>1, <2>2
<1>5. QueuesTyped
  BY <1>1, <1>4 DEF Init, QueuesTyped, Queues, Contexts, ContextKinds, NoContext
<1>6. VmTyped
  BY <1>1, ThreadsAssumption DEF VmTyped
<1>7. LocksTyped
  BY ThreadsAssumption, MutexTypes DEF Init, LocksTyped, Mutexes, Unheld
<1>8. ConnTyped /\ SweepTyped /\ LoopTyped
  <2>1. /\ conn = [c \in Conns |-> "idle"] /\ cur = 0 /\ next = 0
        /\ phase = "loop" /\ ticks = 0 /\ expiring = FALSE /\ idle = 0
    BY DEF Init
  <2>2. 0 \in 0..Slice /\ 0 \in 0..(IdleLimit - 1)
    BY ThreadsAssumption
  <2>3. ConnTyped
    BY <2>1 DEF ConnTyped
  <2>4. SweepTyped /\ LoopTyped
    BY <2>1, <2>2 DEF SweepTyped, LoopTyped, Phases
  <2> QED BY <2>3, <2>4
<1> QED BY <1>3, <1>5, <1>6, <1>7, <1>8, TypeParts DEF TypedParts

\* What an action leaves alone keeps its type.
LEMMA TypeFrame ==
    ASSUME TypeOK
    PROVE  /\ UNCHANGED registry => RegistryTyped'
           /\ UNCHANGED queues /\ UNCHANGED acc => QueuesTyped'
           /\ UNCHANGED vmState /\ UNCHANGED trap => VmTyped'
           /\ UNCHANGED locks => LocksTyped'
           /\ UNCHANGED conn => ConnTyped'
           /\ UNCHANGED sweep => SweepTyped'
           /\ phase' \in Phases /\ UNCHANGED <<ticks, expiring, idle>> => LoopTyped'
BY TypeParts DEF TypedParts, registry, queues, locks, sweep, RegistryTyped, QueuesTyped, VmTyped,
       LocksTyped, ConnTyped, SweepTyped, LoopTyped

\* A retried I/O wait, served or not, keeps every type.
LEMMA TryIoType ==
    ASSUME TypeOK, NEW t \in Threads, NEW kind \in ContextKinds,
           NEW c \in Objects \cup Conns \cup {Null}, TryIo(t, kind, c)
    PROVE  QueuesTyped' /\ ConnTyped'
<1>1. QueuesTyped /\ ConnTyped
  BY TypeParts DEF TypedParts
<1>2. CASE WouldBlock(c) /\ BlockThread(t, kind, c)
  BY <1>1, <1>2, BlockType DEF WouldBlock, ConnTyped
<1>3. CASE Serves(c) /\ UnblockThread(t)
  BY <1>1, <1>3, UnblockType DEF Serves, ConnTyped
<1> QED BY <1>2, <1>3 DEF TryIo

\* Every step of the loop outside an instruction keeps every type.
LEMMA LoopTypes ==
    ASSUME TypeOK, Loop
    PROVE  TypeOK'
<1> USE TypeParts, TypeFrame DEF TypedParts
<1>0. /\ RegistryTyped /\ QueuesTyped /\ VmTyped /\ LocksTyped
      /\ ConnTyped /\ SweepTyped /\ LoopTyped
  OBVIOUS
<1>1. CASE StartRound
  <2>1. SweepTyped'
    BY <1>1, <1>0, EnterType DEF StartRound, Queues, SweepTyped
  <2>2. phase' \in Phases
    BY <1>1 DEF StartRound, Enter, Phases
  <2> QED BY <1>1, <2>1, <2>2 DEF StartRound, vm
<1>2. CASE ResumeSleeper
  <2>1. cur \in Threads /\ phase' = phase
    BY <1>0, <1>2 DEF ResumeSleeper, SweepTyped, Advance
  <2>2. QueuesTyped'
    BY <1>0, <1>2, <2>1, UnblockType DEF ResumeSleeper
  <2>3. SweepTyped'
    BY <1>0, <1>2, <2>2, AdvanceType DEF ResumeSleeper, Queues
  <2> QED BY <1>0, <1>2, <2>1, <2>2, <2>3 DEF ResumeSleeper, LoopTyped
<1>3. CASE SleepersDone
  <2>1. SweepTyped' /\ phase' \in Phases
    BY <1>0, <1>3, EnterType DEF SleepersDone, Queues, Enter, Phases
  <2> QED BY <1>3, <2>1 DEF SleepersDone, vm
<1>4. CASE RetryIo
  <2>1. cur \in Threads /\ phase' = phase
    BY <1>0, <1>4 DEF RetryIo, SweepTyped, Advance
  <2>2. ctx[cur].kind \in ContextKinds /\ ctx[cur].on \in Objects \cup Conns \cup {Null}
    BY <1>0, <2>1 DEF QueuesTyped, Contexts
  <2>3. QueuesTyped' /\ ConnTyped'
    BY <1>4, <2>1, <2>2, TryIoType DEF RetryIo
  <2>4. SweepTyped'
    BY <1>0, <1>4, <2>3, AdvanceType DEF RetryIo, Queues
  <2> QED BY <1>0, <1>4, <2>1, <2>3, <2>4 DEF RetryIo, LoopTyped
<1>5. CASE RetryLock
  <2>1. cur \in Threads /\ phase' = phase
    BY <1>0, <1>5 DEF RetryLock, SweepTyped, Advance
  <2>2. QueuesTyped'
    <3>1. CASE Enqueued(cur, "run")
      <4>1. /\ q' \in [Queues -> Seq(Threads)]
            /\ queue' \in [Threads -> Queues \cup {"none"}]
        BY <1>0, <2>1, <3>1, EnqueuedType DEF Queues
      <4> QED BY <1>0, <1>5, <4>1 DEF RetryLock, vm, QueuesTyped
    <3>2. CASE UNCHANGED <<q, queue>>
      BY <1>0, <1>5, <3>2 DEF RetryLock, vm, QueuesTyped
    <3> QED BY <1>5, <3>1, <3>2 DEF RetryLock
  <2>3. LocksTyped'
    <3>1. \A o \in Objects : Locked(mutex[o], cur) \in Mutexes
      BY <1>0, <2>1, MutexTypes DEF LocksTyped
    <3> QED BY <1>0, <1>5, <3>1 DEF RetryLock, LocksTyped
  <2>4. SweepTyped'
    BY <1>0, <1>5, <2>2, AdvanceType DEF RetryLock, Queues
  <2> QED BY <1>0, <1>5, <2>1, <2>2, <2>3, <2>4 DEF RetryLock, vm, LoopTyped
<1>6. CASE BlockedDone
  <2>1. CASE q["run"] # << >>
    <3>1. SweepTyped' /\ phase' = "run"
      BY <1>0, <1>6, <2>1, EnterType DEF BlockedDone, Queues, Enter
    <3>2. LoopTyped'
      BY <1>0, <1>6, <2>1, <3>1, ThreadsAssumption DEF BlockedDone, LoopTyped, Phases
    <3> QED BY <1>6, <3>1, <3>2 DEF BlockedDone, vm
  <2>2. CASE q["run"] = << >>
    <3>1. SweepTyped' /\ phase' \in Phases /\ ticks' = ticks /\ expiring' = expiring
      BY <1>0, <1>6, <2>2 DEF BlockedDone, SweepTyped, Phases
    <3>2. idle' \in 0..(IdleLimit - 1)
      BY <1>0, <1>6, <2>2, ThreadsAssumption DEF BlockedDone, LoopTyped
    <3> QED BY <1>0, <1>6, <3>1, <3>2 DEF BlockedDone, vm, LoopTyped
  <2> QED BY <2>1, <2>2
<1>7. CASE RunDone
  <2>1. 0 \in 0..(IdleLimit - 1)
    BY ThreadsAssumption
  <2> QED BY <1>0, <1>7, <2>1 DEF RunDone, vm, SweepTyped, LoopTyped, Phases
<1>8. CASE WakeFromSelect
  BY <1>0, <1>8 DEF WakeFromSelect, vm, SweepTyped, Phases
<1>9. CASE SliceOver
  <2>1. phase' = phase /\ QueuesTyped'
    BY <1>0, <1>9 DEF SliceOver, Advance, QueuesTyped, vm
  <2>2. SweepTyped'
    BY <1>0, <1>9, <2>1, AdvanceType DEF SliceOver, Queues
  <2>3. LoopTyped'
    BY <1>0, <1>9, <2>1, ThreadsAssumption DEF SliceOver, LoopTyped
  <2> QED BY <1>9, <2>1, <2>2, <2>3 DEF SliceOver, vm
<1>10. CASE Reap
  <2>1. cur \in Threads /\ phase' = phase
    BY <1>0, <1>10 DEF Reap, SweepTyped, Advance
  <2>2. q[queue[cur]] \in Seq(Threads) => Without(q[queue[cur]], cur) \in Seq(Threads)
    BY WithoutType
  <2>3. QueuesTyped'
    BY <1>0, <1>10, <2>1, <2>2 DEF Reap, QueuesTyped, Contexts, ContextKinds, NoContext
  <2>4. SweepTyped'
    BY <1>0, <1>10, <2>3, AdvanceType DEF Reap, Queues
  <2>5. LocksTyped'
    BY <1>0, <1>10, <2>1, LocksGivenUpType, ThreadsAssumption DEF Reap, LocksTyped
  <2>6. LoopTyped'
    BY <1>0, <1>10, <2>1, ThreadsAssumption DEF Reap, LoopTyped
  <2>7. RegistryTyped' /\ VmTyped' /\ ConnTyped'
    BY <1>0, <1>10, <2>1 DEF Reap, RegistryTyped, VmTyped, ConnTyped
  <2> QED BY <2>3, <2>4, <2>5, <2>6, <2>7
<1> QED BY <1>1, <1>2, <1>3, <1>4, <1>5, <1>6, <1>7, <1>8, <1>9, <1>10 DEF Loop

\* The lock primitive keeps every type, whichever of its branches it takes.
LEMMA LockObjTypes ==
    ASSUME TypeOK, NEW o \in Objects, LockObj(o)
    PROVE  QueuesTyped' /\ LocksTyped'
<1>0. QueuesTyped /\ LocksTyped /\ cur \in Threads
  BY TypeParts, RunningThread DEF TypedParts, LockObj, Instr
<1>1. \A p \in Objects : Locked(mutex[p], cur) \in Mutexes
  BY <1>0, MutexTypes DEF LocksTyped
<1>2. lockedCount[cur] + 1 \in 0..MaxDepth
  BY <1>0, ThreadsAssumption DEF LockObj, LocksTyped
<1>3. CASE Lockable(mutex[o], cur)
  BY <1>0, <1>1, <1>2, <1>3 DEF LockObj, LocksTyped, QueuesTyped, queues
<1>4. CASE ~Lockable(mutex[o], cur)
  <2>1. BlockThread(cur, "locking", o)
    BY <1>4 DEF LockObj
  <2>2. QueuesTyped'
    BY <1>0, <2>1, BlockType DEF ContextKinds
  <2> QED BY <1>0, <1>2, <1>4, <2>2 DEF LockObj, LocksTyped
<1> QED BY <1>3, <1>4

\* The unlock primitive keeps every type, the refused unlock included.
LEMMA UnlockObjTypes ==
    ASSUME TypeOK, NEW o \in Objects, UnlockObj(o)
    PROVE  LocksTyped'
<1>0. LocksTyped /\ cur \in Threads
  BY TypeParts, RunningThread DEF TypedParts, UnlockObj, Instr
<1>1. \A p \in Objects : Unlocked(mutex[p]) \in Mutexes
  BY <1>0, MutexTypes DEF LocksTyped
<1>2. (IF lockedCount[cur] > 1 THEN lockedCount[cur] - 1 ELSE 0) \in 0..MaxDepth
  BY <1>0, ThreadsAssumption DEF LocksTyped
<1> QED BY <1>0, <1>1, <1>2 DEF UnlockObj, LocksTyped

\* fork links a new thread to run_q and keeps every type.
LEMMA ForkTypes ==
    ASSUME TypeOK, NEW s \in Quotas \cup {"dying"}, Fork(s)
    PROVE  RegistryTyped' /\ QueuesTyped' /\ VmTyped'
<1>0. RegistryTyped /\ QueuesTyped /\ VmTyped /\ cur \in Threads
  BY TypeParts, RunningThread DEF TypedParts, Fork, Instr
<1>1. nextNumber \in Threads /\ nextNumber + 1 \in 1..(MaxThreads + 1)
  BY <1>0, ThreadsAssumption DEF Fork, RegistryTyped, Threads
<1>2. PushFront(q["run"], nextNumber) \in Seq(Threads)
  BY <1>0, <1>1, PushFrontLemma DEF QueuesTyped, Queues
<1>3. RegistryTyped'
  BY <1>0, <1>1 DEF Fork, RegistryTyped
<1>4. QueuesTyped'
  BY <1>0, <1>1, <1>2 DEF Fork, QueuesTyped, Queues
<1>5. VmTyped'
  BY <1>0, <1>1, ThreadsAssumption DEF Fork, VmTyped
<1> QED BY <1>3, <1>4, <1>5

\* The wake-up of another thread by kill or toggle-quota keeps every type.
LEMMA WakeVictimTypes ==
    ASSUME TypeOK, NEW t \in Threads, WakeVictim(t)
    PROVE  QueuesTyped'
<1>0. QueuesTyped
  BY TypeParts DEF TypedParts
<1>1. CASE queue[t] # "run"
  BY <1>0, <1>1, UnblockType DEF WakeVictim
<1>2. CASE queue[t] = "run"
  BY <1>0, <1>2 DEF WakeVictim, queues, QueuesTyped
<1> QED BY <1>1, <1>2

\* Every instruction of the running thread keeps every type.
LEMMA InstructionTypes ==
    ASSUME TypeOK, Instruction
    PROVE  TypeOK'
<1> USE TypeParts, TypeFrame DEF TypedParts
<1>0. /\ RegistryTyped /\ QueuesTyped /\ VmTyped /\ LocksTyped
      /\ ConnTyped /\ SweepTyped /\ LoopTyped
  OBVIOUS
<1>1. cur \in Threads
  BY RunningThread DEF Instruction, Instr, Compute, QuotaExpires, Raise, Return, SetHandler,
     LockRefused, LockObj, UnlockObj, Fork, Kill, ForceKill, SetThreadQuota,
     SetQuotaOfGoneThread, Sleep, ReadFrom, AcceptConnection, CloseConnection, Shutdown
<1>2. Raised(cur) \in [Threads -> QuotaKinds \cup {"dying"}]
  BY <1>0, <1>1, RaisedType
<1>3. CASE Compute
  BY <1>3, InstrLoop DEF Compute, vm
<1>4. CASE QuotaExpires
  BY <1>0, <1>1, <1>2, <1>4 DEF QuotaExpires, VmTyped, SweepTyped, LoopTyped, sweep
<1>5. CASE Raise
  BY <1>0, <1>2, <1>5, InstrLoop DEF Raise, VmTyped
<1>6. CASE Return
  BY <1>0, <1>1, <1>6, InstrLoop DEF Return, VmTyped
<1>7. ASSUME NEW b \in BOOLEAN, SetHandler(b) PROVE TypeOK'
  BY <1>0, <1>1, <1>7, InstrLoop DEF SetHandler, VmTyped
<1>8. ASSUME NEW o \in Objects, LockRefused(o) PROVE TypeOK'
  BY <1>0, <1>2, <1>8, InstrLoop DEF LockRefused, VmTyped
<1>9. ASSUME NEW o \in Objects, LockObj(o) PROVE TypeOK'
  BY <1>9, LockObjTypes, InstrLoop DEF LockObj
<1>10. ASSUME NEW o \in Objects, UnlockObj(o) PROVE TypeOK'
  BY <1>10, UnlockObjTypes, InstrLoop DEF UnlockObj, vm
<1>11. ASSUME NEW s \in Quotas \cup {"dying"}, Fork(s) PROVE TypeOK'
  BY <1>11, ForkTypes, InstrLoop DEF Fork
<1>12. ASSUME NEW t \in threadtab, Kill(t) PROVE TypeOK'
  <2>1. t \in Threads
    BY <1>0, <1>12 DEF RegistryTyped
  <2>2. VmTyped'
    BY <1>0, <1>12, <2>1, RaisedType DEF Kill, VmTyped
  <2> QED BY <1>12, <2>1, <2>2, WakeVictimTypes, InstrLoop DEF Kill
<1>13. ASSUME NEW t \in threadtab, ForceKill(t) PROVE TypeOK'
  <2>1. t \in Threads
    BY <1>0, <1>13 DEF RegistryTyped
  <2>2. VmTyped'
    BY <1>0, <1>13, <2>1 DEF ForceKill, VmTyped
  <2> QED BY <1>13, <2>1, <2>2, WakeVictimTypes, InstrLoop DEF ForceKill
<1>14. ASSUME NEW t \in threadtab, NEW s \in Quotas \cup {"dying"}, SetThreadQuota(t, s)
       PROVE  TypeOK'
  <2>1. VmTyped'
    BY <1>0, <1>14, ThreadsAssumption DEF SetThreadQuota, RegistryTyped, VmTyped
  <2> QED BY <1>14, <2>1, InstrLoop DEF SetThreadQuota
<1>15. CASE SetQuotaOfGoneThread
  BY <1>0, <1>15 DEF SetQuotaOfGoneThread, vm, Phases, SweepTyped
<1>16. CASE Sleep
  BY <1>0, <1>1, <1>16, SleepType, InstrLoop DEF Sleep
<1>17. ASSUME NEW c \in Conns \ Listeners, ReadFrom(c) PROVE TypeOK'
  BY <1>1, <1>17, TryIoType, InstrLoop DEF ReadFrom, ContextKinds
<1>18. ASSUME NEW c \in Listeners, AcceptConnection(c) PROVE TypeOK'
  BY <1>1, <1>18, TryIoType, InstrLoop, ThreadsAssumption DEF AcceptConnection, ContextKinds
<1>19. ASSUME NEW c \in Conns, CloseConnection(c) PROVE TypeOK'
  BY <1>0, <1>19, InstrLoop DEF CloseConnection, vm, ConnTyped
<1>20. CASE Shutdown
  BY <1>0, <1>20 DEF Shutdown, vm, Phases, SweepTyped
<1> QED
  BY <1>3, <1>4, <1>5, <1>6, <1>7, <1>8, <1>9, <1>10, <1>11, <1>12, <1>13, <1>14, <1>15,
     <1>16, <1>17, <1>18, <1>19, <1>20 DEF Instruction

\* The type invariant is inductive.
LEMMA TypeStep ==
    ASSUME TypeOK, [Next]_vars
    PROVE  TypeOK'
<1>1. CASE Process
  BY <1>1, LoopTypes, InstructionTypes DEF Process
<1>2. ASSUME NEW t \in Threads, Alarm(t) PROVE TypeOK'
  BY <1>2, TypeParts, TypeFrame DEF Alarm, vm, TypedParts, QueuesTyped, sweep, LoopTyped
<1>3. ASSUME NEW c \in Conns, InputArrives(c) PROVE TypeOK'
  BY <1>3, TypeParts, TypeFrame DEF InputArrives, vm, TypedParts, ConnTyped, sweep, LoopTyped
<1>4. CASE UNCHANGED vars
  BY <1>4, TypeParts, TypeFrame DEF vars, vm, TypedParts, sweep, LoopTyped
<1> QED BY <1>1, <1>2, <1>3, <1>4 DEF Next, Environment, Done

\* Every variable of the scheduler keeps its type: among others a lock is only
\* ever counted up to MaxDepth and owned by a thread number, and the pointers
\* a pass follows are null or thread numbers.
THEOREM TypeCorrect == Spec => []TypeOK
<1>1. Init => TypeOK
  BY TypeInit
<1>2. TypeOK /\ [Next]_vars => TypeOK'
  BY TypeStep
<1> QED BY <1>1, <1>2, PTL DEF Spec

-----------------------------------------------------------------------------
(* The queues: QueueInv.                                                   *)

\* QueueInv without the part about the pass under way.
QueuesRight ==
    /\ QueuesPartition
    /\ threadtab \subseteq 1..(nextNumber - 1)
    /\ \A t \in Threads : queue[t] \in {"block", "sleep"} => acc[t] = "yield"

\* The invariant of the queues, by the conjuncts the steps disturb.
LEMMA QueueInvParts == (QueueInv <=> QueuesRight /\ SavedNextLive)
                       /\ (QueueInv' <=> QueuesRight' /\ SavedNextLive')
BY DEF QueueInv, QueuesRight

\* Thread numbers are finitely many and null is not one of them.
LEMMA ThreadNumbers == 0 \notin Threads /\ IsFiniteSet(Threads)
BY FS_Interval, ThreadsAssumption DEF Threads

\* deq and enq together keep the queues a partition of the thread table.
LEMMA EnqueuedPartition ==
    ASSUME TypeOK, QueuesPartition, NEW t \in threadtab, NEW k \in Queues,
           Enqueued(t, k), UNCHANGED <<threadtab, numActive>>
    PROVE  QueuesPartition' /\ queue' = [queue EXCEPT ![t] = k]
<1>1. /\ t \in Threads /\ threadtab \subseteq Threads
      /\ q \in [Queues -> Seq(Threads)] /\ queue \in [Threads -> Queues \cup {"none"}]
  BY DEF TypeOK
<1>2. queue' = [queue EXCEPT ![t] = k] /\ queue[t] \in Queues /\ "none" \notin Queues
  BY <1>1 DEF Enqueued, QueuesPartition, Queues
<1>3. ASSUME NEW n \in Queues
      PROVE  NoRepeats(q'[n]) /\ InQueue(q'[n]) = {u \in threadtab' : queue'[u] = n}
  <2> DEFINE rest == IF n = queue[t] THEN Without(q[n], t) ELSE q[n]
  <2>1. q[n] \in Seq(Threads) /\ NoRepeats(q[n])
        /\ InQueue(q[n]) = {u \in threadtab : queue[u] = n}
    BY <1>1 DEF QueuesPartition
  <2>2. rest \in Seq(Threads) /\ NoRepeats(rest) /\ InQueue(rest) = InQueue(q[n]) \ {t}
    <3>1. CASE n = queue[t]
      BY <2>1, <3>1, WithoutLemma
    <3>2. CASE n # queue[t]
      BY <2>1, <3>2
    <3> QED BY <3>1, <3>2
  <2>3. q'[n] = IF n = k THEN PushFront(rest, t) ELSE rest
    BY DEF Enqueued, MoveTo
  <2> HIDE DEF rest
  <2>4. CASE n = k
    <3>1. NoRepeats(q'[n]) /\ InQueue(q'[n]) = InQueue(rest) \cup {t}
      BY <1>1, <2>2, <2>3, <2>4, PushFrontLemma
    <3>2. InQueue(q'[n]) = {u \in threadtab : u = t \/ queue[u] = n}
      BY <2>1, <2>2, <3>1
    <3> QED BY <1>1, <1>2, <2>4, <3>1, <3>2
  <2>5. CASE n # k
    <3>1. InQueue(q'[n]) = {u \in threadtab : u # t /\ queue[u] = n}
      BY <2>1, <2>2, <2>3, <2>5
    <3> QED BY <1>1, <1>2, <2>2, <2>3, <2>5, <3>1
  <2> QED BY <2>4, <2>5
<1>4. \A u \in Threads : queue'[u] = "none" <=> u \notin threadtab'
  BY <1>1, <1>2 DEF QueuesPartition
<1> QED BY <1>2, <1>3, <1>4 DEF QueuesPartition

\* The same for the rest of the bookkeeping: a thread that leaves run_q yields.
LEMMA EnqueuedRight ==
    ASSUME TypeOK, QueuesRight, NEW t \in threadtab, NEW k \in Queues, Enqueued(t, k),
           UNCHANGED registry, NEW a, acc' = [acc EXCEPT ![t] = a], k # "run" => a = "yield"
    PROVE  QueuesRight' /\ queue' = [queue EXCEPT ![t] = k]
<1>1. QueuesPartition' /\ queue' = [queue EXCEPT ![t] = k]
  BY EnqueuedPartition DEF QueuesRight, registry
<1>2. t \in Threads /\ queue \in [Threads -> Queues \cup {"none"}] /\ acc \in [Threads -> {"value", "yield"}]
  BY DEF TypeOK
<1>3. \A u \in Threads : queue'[u] \in {"block", "sleep"} => acc'[u] = "yield"
  BY <1>1, <1>2 DEF QueuesRight, Queues
<1> QED BY <1>1, <1>3 DEF QueuesRight, registry

\* block_thread leaves every registered thread in just one queue.
LEMMA BlockRight ==
    ASSUME TypeOK, QueuesRight, NEW t \in threadtab, NEW kind, NEW x,
           BlockThread(t, kind, x), UNCHANGED registry
    PROVE  QueuesRight' /\ queue' = [queue EXCEPT ![t] = "block"]
BY EnqueuedRight DEF BlockThread, Queues

\* sleep_thread leaves every registered thread in just one queue.
LEMMA SleepRight ==
    ASSUME TypeOK, QueuesRight, NEW t \in threadtab, SleepThread(t), UNCHANGED registry
    PROVE  QueuesRight' /\ queue' = [queue EXCEPT ![t] = "sleep"]
BY EnqueuedRight DEF SleepThread, Queues

\* unblock_thread leaves every registered thread in just one queue.
LEMMA UnblockRight ==
    ASSUME TypeOK, QueuesRight, NEW t \in threadtab, UnblockThread(t), UNCHANGED registry
    PROVE  QueuesRight' /\ queue' = [queue EXCEPT ![t] = "run"]
BY EnqueuedRight DEF UnblockThread, Queues

\* A retried I/O wait leaves every registered thread in just one queue.
LEMMA TryIoRight ==
    ASSUME TypeOK, QueuesRight, NEW t \in threadtab, NEW kind, NEW c, TryIo(t, kind, c),
           UNCHANGED registry
    PROVE  QueuesRight' /\ \E k \in Queues : queue' = [queue EXCEPT ![t] = k]
BY BlockRight, UnblockRight DEF TryIo, Queues

\* A pass that steps to a thread of the swept queue finds its follower there.
LEMMA AdvanceLive ==
    ASSUME TypeOK', QueuesPartition', NEW k \in Queues, Advance(k), SweptQueue = k,
           next # 0 => next \in threadtab' /\ queue'[next] = k
    PROVE  SavedNextLive'
<1>1. /\ q'[k] \in Seq(Threads) /\ NoRepeats(q'[k])
      /\ InQueue(q'[k]) = {t \in threadtab' : queue'[t] = k}
  BY DEF TypeOK, QueuesPartition
<1>2. SweptQueue' = k /\ k # "none"
  BY DEF Advance, SweptQueue, Queues
<1>3. CASE next = 0
  BY <1>3, <1>2 DEF Advance, SavedNextLive
<1>4. CASE next # 0
  <2>1. cur' = next /\ next' = Follower(q'[k], next)
    BY <1>4 DEF Advance
  <2>2. next' # 0 => next' \in InQueue(q'[k]) /\ next' # next
    BY <1>1, <2>1, FollowerLemma
  <2> QED BY <1>1, <1>2, <1>4, <2>1, <2>2 DEF SavedNextLive
<1> QED BY <1>3, <1>4

\* A pass starts at the head of its queue.
LEMMA EnterLive ==
    ASSUME TypeOK, QueuesPartition, NEW k \in Queues, NEW p, Enter(k, p),
           UNCHANGED <<threadtab, queue>>, SweptQueue' = k
    PROVE  SavedNextLive'
<1>1. /\ q[k] \in Seq(Threads) /\ NoRepeats(q[k])
      /\ InQueue(q[k]) = {t \in threadtab : queue[t] = k}
  BY DEF TypeOK, QueuesPartition
<1>2. CASE q[k] = << >>
  BY <1>2 DEF Enter, First, SavedNextLive
<1>3. CASE q[k] # << >>
  <2>1. cur' \in InQueue(q[k]) /\ cur' # 0
    BY <1>1, <1>3, FirstLemma, ThreadNumbers DEF Enter
  <2>2. next' # 0 => next' \in InQueue(q[k]) /\ next' # cur'
    BY <1>1, <1>3, FollowerLemma DEF Enter
  <2> QED BY <1>1, <2>1, <2>2 DEF SavedNextLive
<1> QED BY <1>2, <1>3

\* The current thread may go anywhere: the saved pointer is not its.
LEMMA PassGoesOn ==
    ASSUME TypeOK, TypeOK', QueueInv, QueuesPartition', NEW k \in Queues, SweptQueue = k,
           cur # 0, Advance(k), UNCHANGED threadtab, NEW n, queue' = [queue EXCEPT ![cur] = n]
    PROVE  SavedNextLive'
<1>1. next # 0 => next \in threadtab' /\ queue'[next] = k
  <2>1. next # 0 => next # cur /\ next \in threadtab /\ queue[next] = k
    BY DEF QueueInv, SavedNextLive, Queues
  <2>2. threadtab \subseteq Threads /\ queue \in [Threads -> Queues \cup {"none"}]
    BY DEF TypeOK
  <2> QED BY <2>1, <2>2
<1> QED BY <1>1, AdvanceLive

\* The queues are right when the system starts or restarts.
LEMMA QueueInit == Init => QueueInv
<1> SUFFICES ASSUME Init PROVE QueueInv
  OBVIOUS
<1>1. PICK n \in Threads :
        /\ threadtab = 1..n /\ numActive = n /\ nextNumber = n + 1
        /\ q = [k \in Queues |-> IF k = "run" THEN [i \in 1..n |-> n + 1 - i] ELSE << >>]
        /\ queue = [t \in Threads |-> IF t <= n THEN "run" ELSE "none"]
  BY DEF Init
<1>2. n \in Nat /\ n >= 1 /\ n <= MaxThreads /\ MaxThreads \in Nat
  BY ThreadsAssumption DEF Threads
<1> DEFINE s == [i \in 1..n |-> n + 1 - i]
<1>3. NoRepeats(s) /\ InQueue(s) = 1..n
  <2>1. Len(s) = n
    BY <1>2
  <2>2. NoRepeats(s)
    BY <1>2, <2>1 DEF NoRepeats
  <2>3. \A t \in 1..n : n + 1 - t \in 1..n /\ s[n + 1 - t] = t
    BY <1>2
  <2>4. 1..n \subseteq InQueue(s)
    BY <2>1, <2>3 DEF InQueue
  <2>5. InQueue(s) \subseteq 1..n
    BY <1>2, <2>1 DEF InQueue
  <2> QED BY <2>2, <2>4, <2>5
<1>4. NoRepeats(<< >>) /\ InQueue(<< >>) = {}
  BY DEF NoRepeats, InQueue
<1>5. Cardinality(1..n) = n
  BY <1>2, FS_Interval
<1>6. \A k \in Queues : NoRepeats(q[k]) /\ InQueue(q[k]) = {t \in threadtab : queue[t] = k}
  <2> HIDE DEF s
  <2>1. \A t \in 1..n : t \in Threads /\ queue[t] = "run"
    BY <1>1, <1>2 DEF Threads
  <2>2. q["run"] = s /\ \A k \in Queues : k # "run" => q[k] = << >>
    BY <1>1 DEF s, Queues
  <2> QED BY <1>1, <1>3, <1>4, <2>1, <2>2
<1>7. \A t \in Threads : queue[t] = "none" <=> t \notin threadtab
  BY <1>1, <1>2 DEF Threads
<1>8. SavedNextLive
  BY DEF Init, SavedNextLive, SweptQueue
<1>9. \A t \in Threads : queue[t] \notin {"block", "sleep"}
  BY <1>1
<1>10. QueuesPartition
  BY <1>1, <1>5, <1>6, <1>7 DEF QueuesPartition
<1>11. threadtab \subseteq 1..(nextNumber - 1)
  BY <1>1, <1>2
<1> QED BY <1>8, <1>9, <1>10, <1>11 DEF QueueInv

\* What leaves the registry, the queues and the accumulators alone.
LEMMA QueueFrame ==
    ASSUME QueueInv, UNCHANGED <<registry, q, queue, acc>>
    PROVE  /\ QueuesRight'
           /\ UNCHANGED sweep => QueueInv'
           /\ SweptQueue' = "none" => QueueInv'
<1>1. QueuesRight'
  BY DEF QueueInv, QueuesRight, QueuesPartition, registry
<1>2. UNCHANGED sweep => SavedNextLive'
  BY DEF QueueInv, SavedNextLive, SweptQueue, sweep, registry
<1>3. SweptQueue' = "none" => SavedNextLive'
  BY DEF SavedNextLive
<1> QED BY <1>1, <1>2, <1>3, QueueInvParts

\* The current thread of a pass is a registered one.
LEMMA CurrentLive ==
    ASSUME TypeOK, QueueInv, phase \in {"sleepers", "blocked", "run"}, cur # 0
    PROVE  cur \in threadtab /\ cur \in Threads
BY DEF QueueInv, SavedNextLive, SweptQueue, TypeOK

\* The end of a thread unlinks and frees it; the pass has read past it.
LEMMA ReapQueues ==
    ASSUME TypeOK, TypeOK', QueueInv, Reap
    PROVE  QueueInv'
<1>1. /\ cur \in threadtab /\ cur \in Threads /\ threadtab \subseteq Threads
      /\ q \in [Queues -> Seq(Threads)] /\ queue \in [Threads -> Queues \cup {"none"}]
  BY CurrentLive DEF Reap, TypeOK
<1>2. queue[cur] \in Queues /\ "none" \notin Queues
  BY <1>1 DEF QueueInv, QueuesPartition, Queues
<1>3. /\ threadtab' = threadtab \ {cur} /\ numActive' = numActive - 1
      /\ queue' = [queue EXCEPT ![cur] = "none"] /\ nextNumber' = nextNumber
  BY DEF Reap
<1>4. ASSUME NEW n \in Queues
      PROVE  NoRepeats(q'[n]) /\ InQueue(q'[n]) = {u \in threadtab' : queue'[u] = n}
  <2>1. q[n] \in Seq(Threads) /\ NoRepeats(q[n])
        /\ InQueue(q[n]) = {u \in threadtab : queue[u] = n}
    BY <1>1 DEF QueueInv, QueuesPartition
  <2>2. NoRepeats(q'[n]) /\ InQueue(q'[n]) = InQueue(q[n]) \ {cur}
    <3>1. CASE n = queue[cur]
      BY <1>1, <2>1, <3>1, WithoutLemma DEF Reap
    <3>2. CASE n # queue[cur]
      BY <1>1, <2>1, <3>2 DEF Reap
    <3> QED BY <3>1, <3>2
  <2> QED BY <1>1, <1>3, <2>1, <2>2
<1>5. numActive' = Cardinality(threadtab')
  BY <1>1, <1>3, ThreadNumbers, FS_Subset, FS_RemoveElement DEF QueueInv, QueuesPartition
<1>6. \A u \in Threads : queue'[u] = "none" <=> u \notin threadtab'
  BY <1>1, <1>3 DEF QueueInv, QueuesPartition
<1>7. QueuesPartition'
  BY <1>4, <1>5, <1>6 DEF QueuesPartition
<1>8. SavedNextLive'
  <2>1. SweptQueue = "run" /\ Advance("run") /\ "run" \in Queues
    BY DEF Reap, SweptQueue, Queues
  <2>2. next # 0 => next # cur /\ next \in threadtab /\ queue[next] = "run"
    BY <2>1 DEF QueueInv, SavedNextLive
  <2>3. next # 0 => next \in threadtab' /\ queue'[next] = "run"
    BY <1>1, <1>3, <2>2
  <2> QED BY <1>7, <2>1, <2>3, AdvanceLive
<1>9. \A u \in Threads : queue'[u] \in {"block", "sleep"} => acc'[u] = "yield"
  <2>1. acc' = [acc EXCEPT ![cur] = "value"] /\ acc \in [Threads -> {"value", "yield"}]
    BY DEF Reap, TypeOK
  <2> QED BY <1>1, <1>3, <2>1 DEF QueueInv
<1>10. threadtab' \subseteq 1..(nextNumber' - 1)
  BY <1>3 DEF QueueInv
<1> QED BY <1>7, <1>8, <1>9, <1>10 DEF QueueInv

\* Every step of the loop outside an instruction keeps the queues right.
LEMMA LoopQueues ==
    ASSUME TypeOK, TypeOK', QueueInv, Loop
    PROVE  QueueInv'
<1>0. QueuesPartition /\ QueuesRight /\ SavedNextLive
  BY QueueInvParts DEF QueuesRight
<1>1. CASE StartRound
  <2>1. QueuesRight'
    BY <1>1, QueueFrame DEF StartRound, queues, vm
  <2>2. SavedNextLive'
    <3>1. CASE numActive > 0
      <4>1. Enter("sleep", "sleepers") /\ UNCHANGED <<threadtab, queue>>
        BY <1>1, <3>1 DEF StartRound, queues, registry
      <4> QED BY <1>0, <4>1, EnterLive DEF Enter, SweptQueue, Queues
    <3>2. CASE ~(numActive > 0)
      BY <1>1, <3>2 DEF StartRound, SavedNextLive, SweptQueue
    <3> QED BY <3>1, <3>2
  <2> QED BY <2>1, <2>2, QueueInvParts
<1>2. CASE ResumeSleeper
  <2>1. /\ cur \in threadtab /\ cur \in Threads /\ SweptQueue = "sleep" /\ cur # 0
        /\ Advance("sleep") /\ UNCHANGED registry /\ "sleep" \in Queues
    BY <1>2, CurrentLive DEF ResumeSleeper, SweptQueue, Queues
  <2>2. QueuesRight' /\ \E n : queue' = [queue EXCEPT ![cur] = n]
    <3>1. CASE cur \in due
      BY <1>0, <1>2, <2>1, <3>1, UnblockRight DEF ResumeSleeper
    <3>2. CASE cur \notin due
      <4>1. UNCHANGED <<registry, q, queue, acc>>
        BY <1>2, <2>1, <3>2 DEF ResumeSleeper, queues
      <4>2. queue' = [queue EXCEPT ![cur] = queue[cur]]
        BY <4>1 DEF TypeOK
      <4> QED BY <4>1, <4>2, QueueFrame
    <3> QED BY <3>1, <3>2
  <2>3. SavedNextLive'
    BY <2>1, <2>2, PassGoesOn DEF QueuesRight, registry
  <2> QED BY <2>2, <2>3, QueueInvParts
<1>3. CASE SleepersDone
  <2>1. QueuesRight'
    BY <1>3, QueueFrame DEF SleepersDone, queues, vm
  <2>2. Enter("block", "blocked") /\ UNCHANGED <<threadtab, queue>>
    BY <1>3 DEF SleepersDone, queues, registry
  <2>3. SavedNextLive'
    BY <1>0, <2>2, EnterLive DEF Enter, SweptQueue, Queues
  <2> QED BY <2>1, <2>3, QueueInvParts
<1>4. CASE RetryIo
  <2>1. /\ cur \in threadtab /\ SweptQueue = "block" /\ cur # 0
        /\ Advance("block") /\ UNCHANGED registry /\ "block" \in Queues
    BY <1>4, CurrentLive DEF RetryIo, SweptQueue, Queues
  <2>2. QueuesRight' /\ \E n : queue' = [queue EXCEPT ![cur] = n]
    BY <1>0, <1>4, <2>1, TryIoRight DEF RetryIo
  <2>3. SavedNextLive'
    BY <2>1, <2>2, PassGoesOn DEF QueuesRight, registry
  <2> QED BY <2>2, <2>3, QueueInvParts
<1>5. CASE RetryLock
  <2>1. /\ cur \in threadtab /\ cur \in Threads /\ SweptQueue = "block" /\ cur # 0
        /\ Advance("block") /\ UNCHANGED registry /\ UNCHANGED acc /\ "block" \in Queues
    BY <1>5, CurrentLive DEF RetryLock, SweptQueue, Queues, vm
  <2>2. QueuesRight' /\ \E n : queue' = [queue EXCEPT ![cur] = n]
    <3>1. CASE Enqueued(cur, "run")
      <4>1. acc' = [acc EXCEPT ![cur] = acc[cur]]
        BY <2>1 DEF TypeOK
      <4> QED BY <1>0, <2>1, <3>1, <4>1, EnqueuedRight DEF Queues
    <3>2. CASE UNCHANGED <<q, queue>>
      <4>1. queue' = [queue EXCEPT ![cur] = queue[cur]]
        BY <3>2 DEF TypeOK
      <4> QED BY <2>1, <3>2, <4>1, QueueFrame
    <3> QED BY <1>5, <3>1, <3>2 DEF RetryLock
  <2>3. SavedNextLive'
    BY <2>1, <2>2, PassGoesOn DEF QueuesRight, registry
  <2> QED BY <2>2, <2>3, QueueInvParts
<1>6. CASE BlockedDone
  <2>1. QueuesRight'
    BY <1>6, QueueFrame DEF BlockedDone, queues, vm
  <2>2. SavedNextLive'
    <3>1. CASE q["run"] # << >>
      <4>1. Enter("run", "run") /\ UNCHANGED <<threadtab, queue>>
        BY <1>6, <3>1 DEF BlockedDone, queues, registry
      <4> QED BY <1>0, <4>1, EnterLive DEF Enter, SweptQueue, Queues
    <3>2. CASE q["run"] = << >>
      BY <1>6, <3>2 DEF BlockedDone, SavedNextLive, SweptQueue
    <3> QED BY <3>1, <3>2
  <2> QED BY <2>1, <2>2, QueueInvParts
<1>7. CASE RunDone
  BY <1>7, QueueFrame DEF RunDone, queues, vm, SweptQueue
<1>8. CASE WakeFromSelect
  BY <1>8, QueueFrame DEF WakeFromSelect, queues, vm, SweptQueue
<1>9. CASE SliceOver
  <2>1. QueuesRight'
    BY <1>9, QueueFrame DEF SliceOver, queues, vm
  <2>2. /\ SweptQueue = "run" /\ Advance("run") /\ "run" \in Queues /\ cur # 0
        /\ UNCHANGED <<threadtab, queue>>
    BY <1>9 DEF SliceOver, queues, SweptQueue, Queues, registry
  <2>3. queue' = [queue EXCEPT ![cur] = queue[cur]]
    BY <2>2 DEF TypeOK
  <2>4. SavedNextLive'
    BY <2>1, <2>2, <2>3, PassGoesOn DEF QueuesRight
  <2> QED BY <2>1, <2>4, QueueInvParts
<1>10. CASE Reap
  BY <1>10, ReapQueues
<1> QED BY <1>1, <1>2, <1>3, <1>4, <1>5, <1>6, <1>7, <1>8, <1>9, <1>10 DEF Loop

\* While a thread executes, the saved pointer stays right whichever thread
\* moves: the thread that runs is registered, the next one is in run_q.
LEMMA RunPassStays ==
    ASSUME TypeOK, QueueInv, phase = "run", cur # 0, UNCHANGED sweep,
           NEW t \in threadtab, NEW k \in Queues, threadtab \subseteq threadtab',
           queue' = [queue EXCEPT ![t] = k], t = cur \/ k = "run"
    PROVE  SavedNextLive'
<1>1. cur \in threadtab /\ SweptQueue = "run" /\ SweptQueue' = "run"
  BY CurrentLive DEF SweptQueue, sweep
<1>2. next # 0 => next # cur /\ next \in threadtab /\ queue[next] = "run"
  BY <1>1 DEF QueueInv, SavedNextLive
<1>3. next # 0 => queue'[next] = "run"
  BY <1>2 DEF TypeOK
<1> QED BY <1>1, <1>2, <1>3 DEF SavedNextLive, sweep

\* fork registers and links the new thread in one step.
LEMMA ForkQueues ==
    ASSUME TypeOK, QueueInv, NEW s, Fork(s)
    PROVE  QueueInv'
<1> DEFINE t == nextNumber
<1>1. /\ t \in Threads /\ t \notin threadtab /\ queue[t] = "none"
      /\ threadtab \subseteq Threads /\ t \in Nat
      /\ q \in [Queues -> Seq(Threads)] /\ queue \in [Threads -> Queues \cup {"none"}]
  BY SMTT(30) DEF Fork, QueueInv, QueuesPartition, TypeOK
<1>2. /\ threadtab' = threadtab \cup {t} /\ numActive' = numActive + 1
      /\ queue' = [queue EXCEPT ![t] = "run"] /\ nextNumber' = t + 1
      /\ q' = [q EXCEPT !["run"] = PushFront(@, t)] /\ UNCHANGED <<acc, sweep>>
  BY DEF Fork, Instr
<1> HIDE DEF t
<1>3. ASSUME NEW n \in Queues
      PROVE  NoRepeats(q'[n]) /\ InQueue(q'[n]) = {u \in threadtab' : queue'[u] = n}
  <2>1. q[n] \in Seq(Threads) /\ NoRepeats(q[n])
        /\ InQueue(q[n]) = {u \in threadtab : queue[u] = n}
    BY <1>1 DEF QueueInv, QueuesPartition
  <2>2. CASE n = "run"
    <3>1. NoRepeats(q'[n]) /\ InQueue(q'[n]) = InQueue(q[n]) \cup {t}
      BY <1>1, <1>2, <2>1, <2>2, PushFrontLemma
    <3> QED BY <1>1, <1>2, <2>1, <2>2, <3>1
  <2>3. CASE n # "run"
    BY <1>1, <1>2, <2>1, <2>3
  <2> QED BY <2>2, <2>3
<1>4. numActive' = Cardinality(threadtab')
  BY <1>1, <1>2, ThreadNumbers, FS_Subset, FS_AddElement DEF QueueInv, QueuesPartition
<1>5. \A u \in Threads : queue'[u] = "none" <=> u \notin threadtab'
  BY <1>1, <1>2 DEF QueueInv, QueuesPartition
<1>6. threadtab' \subseteq 1..(nextNumber' - 1)
  <2>1. threadtab \subseteq 1..(t - 1) /\ t >= 1
    BY DEF QueueInv, TypeOK, t
  <2> QED BY <1>1, <1>2, <2>1
<1>7. SavedNextLive'
  <2>1. phase = "run" /\ cur # 0 /\ SweptQueue' = SweptQueue
    BY DEF Fork, Instr, Running, SweptQueue, sweep
  <2>2. next # 0 => queue'[next] = queue[next] /\ next \in threadtab'
    BY <1>1, <1>2, <2>1 DEF QueueInv, SavedNextLive, SweptQueue
  <2>3. cur \in threadtab'
    BY <1>2, <2>1, CurrentLive
  <2> QED BY <1>2, <2>1, <2>2, <2>3 DEF QueueInv, SavedNextLive, SweptQueue, sweep
<1>8. \A u \in Threads : queue'[u] \in {"block", "sleep"} => acc'[u] = "yield"
  BY <1>1, <1>2 DEF QueueInv
<1> QED BY <1>3, <1>4, <1>5, <1>6, <1>7, <1>8 DEF QueueInv, QueuesPartition

\* The queues when a thread, possibly another than the current one, is woken.
LEMMA WakeVictimQueues ==
    ASSUME TypeOK, QueueInv, NEW t \in threadtab, WakeVictim(t), Running,
           UNCHANGED registry, UNCHANGED sweep
    PROVE  QueueInv'
<1>1. CASE queue[t] # "run"
  <2>1. QueuesRight' /\ queue' = [queue EXCEPT ![t] = "run"]
    BY <1>1, UnblockRight, QueueInvParts DEF WakeVictim
  <2>2. SavedNextLive'
    BY <2>1, RunPassStays DEF Running, registry, Queues
  <2> QED BY <2>1, <2>2, QueueInvParts
<1>2. CASE queue[t] = "run"
  BY <1>2, QueueFrame DEF WakeVictim, queues
<1> QED BY <1>1, <1>2

\* Every instruction of the running thread keeps the queues right.
LEMMA InstructionQueues ==
    ASSUME TypeOK, QueueInv, Instruction
    PROVE  QueueInv'
<1>0. QueuesRight
  BY QueueInvParts
<1>1. CASE Compute
  BY <1>1, QueueFrame DEF Compute, Instr, queues, vm
<1>2. CASE QuotaExpires
  BY <1>2, QueueFrame DEF QuotaExpires, queues
<1>3. CASE Raise
  BY <1>3, QueueFrame DEF Raise, Instr, queues
<1>4. CASE Return
  BY <1>4, QueueFrame DEF Return, Instr, queues
<1>5. ASSUME NEW b \in BOOLEAN, SetHandler(b) PROVE QueueInv'
  BY <1>5, QueueFrame DEF SetHandler, Instr, queues
<1>6. ASSUME NEW o \in Objects, LockRefused(o) PROVE QueueInv'
  BY <1>6, QueueFrame DEF LockRefused, Instr, queues
<1>7. ASSUME NEW o \in Objects, LockObj(o) PROVE QueueInv'
  <2>1. phase = "run" /\ cur # 0 /\ cur \in threadtab /\ UNCHANGED sweep /\ UNCHANGED registry
    BY <1>7, CurrentLive DEF LockObj, Instr, Running
  <2>2. CASE Lockable(mutex[o], cur)
    BY <1>7, <2>1, <2>2, QueueFrame DEF LockObj, queues
  <2>3. CASE ~Lockable(mutex[o], cur)
    <3>1. QueuesRight' /\ queue' = [queue EXCEPT ![cur] = "block"]
      BY <1>0, <1>7, <2>1, <2>3, BlockRight DEF LockObj
    <3>2. SavedNextLive'
      BY <2>1, <3>1, RunPassStays DEF registry, Queues
    <3> QED BY <3>1, <3>2, QueueInvParts
  <2> QED BY <2>2, <2>3
<1>8. ASSUME NEW o \in Objects, UnlockObj(o) PROVE QueueInv'
  BY <1>8, QueueFrame DEF UnlockObj, Instr, queues, vm
<1>9. ASSUME NEW s \in Quotas \cup {"dying"}, Fork(s) PROVE QueueInv'
  BY <1>9, ForkQueues
<1>10. ASSUME NEW t \in threadtab, Kill(t) \/ ForceKill(t) PROVE QueueInv'
  BY <1>10, WakeVictimQueues DEF Kill, ForceKill, Instr
<1>11. ASSUME NEW t \in threadtab, NEW s \in Quotas \cup {"dying"}, SetThreadQuota(t, s)
       PROVE  QueueInv'
  BY <1>11, QueueFrame DEF SetThreadQuota, Instr, queues
<1>12. CASE SetQuotaOfGoneThread
  BY <1>12, QueueFrame DEF SetQuotaOfGoneThread, queues, vm, SweptQueue
<1>13. CASE Sleep
  <2>1. phase = "run" /\ cur # 0 /\ cur \in threadtab /\ UNCHANGED sweep /\ UNCHANGED registry
    BY <1>13, CurrentLive DEF Sleep, Instr, Running
  <2>2. QueuesRight' /\ queue' = [queue EXCEPT ![cur] = "sleep"]
    BY <1>0, <1>13, <2>1, SleepRight DEF Sleep
  <2>3. SavedNextLive'
    BY <2>1, <2>2, RunPassStays DEF registry, Queues
  <2> QED BY <2>2, <2>3, QueueInvParts
<1>14. ASSUME NEW kind, NEW c, TryIo(cur, kind, c), Instr, UNCHANGED registry PROVE QueueInv'
  <2>1. phase = "run" /\ cur # 0 /\ cur \in threadtab /\ UNCHANGED sweep
    BY <1>14, CurrentLive DEF Instr, Running
  <2>2. QueuesRight' /\ \E k \in Queues : queue' = [queue EXCEPT ![cur] = k]
    BY <1>0, <1>14, <2>1, TryIoRight
  <2>3. SavedNextLive'
    BY <1>14, <2>1, <2>2, RunPassStays DEF registry
  <2> QED BY <2>2, <2>3, QueueInvParts
<1>15. ASSUME NEW c \in Conns, ReadFrom(c) \/ AcceptConnection(c) PROVE QueueInv'
  BY <1>14, <1>15 DEF ReadFrom, AcceptConnection
<1>16. ASSUME NEW c \in Conns, CloseConnection(c) PROVE QueueInv'
  BY <1>16, QueueFrame DEF CloseConnection, Instr, queues, vm
<1>17. CASE Shutdown
  BY <1>17, QueueFrame DEF Shutdown, queues, vm, SweptQueue
<1> QED
  BY <1>1, <1>2, <1>3, <1>4, <1>5, <1>6, <1>7, <1>8, <1>9, <1>10, <1>11, <1>12, <1>13,
     <1>15, <1>16, <1>17, ThreadsAssumption DEF Instruction

\* The invariant of the queues is inductive, given the types.
LEMMA QueueStep ==
    ASSUME TypeOK, TypeOK', QueueInv, [Next]_vars
    PROVE  QueueInv'
<1>1. CASE Process
  BY <1>1, LoopQueues, InstructionQueues DEF Process
<1>2. CASE Environment
  BY <1>2, QueueFrame DEF Environment, Alarm, InputArrives, queues, vm
<1>3. CASE UNCHANGED vars
  BY <1>3, QueueFrame DEF vars, queues, vm
<1> QED BY <1>1, <1>2, <1>3 DEF Next, Done

\* Queue bookkeeping of thread.c, in one invariant: the queues partition the
\* thread table, saved pointers stay good, and whoever is not in run_q has yielded.
THEOREM QueuesCorrect == Spec => []QueueInv
<1>1. Init => TypeOK /\ QueueInv
  BY TypeInit, QueueInit
<1>2. TypeOK /\ QueueInv /\ [Next]_vars => (TypeOK /\ QueueInv)'
  BY TypeStep, QueueStep
<1> QED BY <1>1, <1>2, PTL DEF Spec

\* However the steps of a pass fork, kill, wake, block and end threads, every
\* registered thread is linked into one queue, once, and counted once.
THEOREM QueuesPartitioned == Spec => []QueuesPartition
<1>1. QueueInv => QueuesPartition
  BY DEF QueueInv
<1> QED BY <1>1, QueuesCorrect, PTL

\* No pass over a queue ever follows its saved `next' pointer to a thread that
\* has been freed or linked into another queue since the pointer was read.
THEOREM PassesSafe == Spec => []SavedNextLive
<1>1. QueueInv => SavedNextLive
  BY DEF QueueInv
<1> QED BY <1>1, QueuesCorrect, PTL

-----------------------------------------------------------------------------
(* The object locks: LockInv.                                              *)

\* Owner names the holder of a lock: 0 for nobody.
LEMMA LockFacts ==
    ASSUME TypeOK, LockInv, NEW o \in Objects, NEW t \in Threads
    PROVE  /\ mutex[o] \in Mutexes /\ o # Null /\ t # NoThread
           /\ lockedCount[t] \in Nat
           /\ mutex[o].counter = 0 => mutex[o].owner = NoThread
           /\ mutex[o].owner = t =>
                /\ mutex[o].counter > 0 /\ t \in threadtab /\ locked[t] = o
                /\ mutex[o].counter <= lockedCount[t]
<1>1. mutex[o] \in Mutexes /\ lockedCount[t] \in 0..MaxDepth /\ o # Null
  BY ThreadsAssumption DEF TypeOK, Mutexes
<1>2. mutex[o].counter = 0 => mutex[o].owner = NoThread
  BY DEF LockInv, NamedOwnersLive
<1>3. t # NoThread
  BY ThreadNumbers DEF NoThread
<1>4. mutex[o].owner = t =>
        t \in threadtab /\ locked[t] = o /\ mutex[o].counter \in 1..lockedCount[t]
  BY <1>3 DEF LockInv, NamedOwnersLive
<1> QED BY <1>1, <1>2, <1>3, <1>4 DEF Mutexes

\* Steps that leave the locks alone and make no thread wait for one.
LEMMA LockFrame ==
    ASSUME LockInv, UNCHANGED locks, threadtab \subseteq threadtab',
           \A t \in threadtab' : WaitsForLock(t)' => t \in threadtab,
           \A t \in Threads : WaitsForLock(t)' => WaitsForLock(t) /\ ctx'[t] = ctx[t],
           threadtab' \subseteq Threads
    PROVE  LockInv'
<1>1. NamedOwnersLive'
  BY DEF LockInv, NamedOwnersLive, locks
<1>2. WaitersHoldNothing'
  BY DEF LockInv, WaitersHoldNothing, locks
<1>3. \A t \in Threads : WaitsForLock(t)' =>
        ctx'[t].on \in Objects /\ locked'[t] = ctx'[t].on /\ lockedCount'[t] > 0
  BY DEF LockInv, locks
<1> QED BY <1>1, <1>2, <1>3 DEF LockInv

\* No lock is held and nobody waits when the system starts.
LEMMA LockInit == Init => LockInv
<1> SUFFICES ASSUME Init PROVE LockInv
  OBVIOUS
<1>1. /\ mutex = [o \in Objects |-> Unheld] /\ ctx = [t \in Threads |-> NoContext]
  BY DEF Init
<1>2. \A t \in Threads : ~WaitsForLock(t)
  BY <1>1 DEF WaitsForLock, NoContext
<1>3. Init => threadtab \subseteq Threads
  BY TypeInit DEF TypeOK
<1> QED
  BY <1>1, <1>2, <1>3, ThreadNumbers
     DEF LockInv, NamedOwnersLive, WaitersHoldNothing, Unheld, NoThread

\* The thread that executes waits for nothing.
LEMMA RunnerWaitsNot ==
    ASSUME TypeOK, QueueInv, Running
    PROVE  cur \in Threads /\ cur \in threadtab /\ ~WaitsForLock(cur)
<1>1. cur \in Threads /\ acc[cur] = "value"
  BY RunningThread
<1>2. cur \in threadtab
  BY CurrentLive DEF Running
<1> QED BY <1>1, <1>2 DEF QueueInv, WaitsForLock

\* Blocking for input or sleeping is not waiting for a lock.
LEMMA MovedWaitsNot ==
    ASSUME TypeOK, NEW t \in Threads,
           \/ UnblockThread(t) \/ SleepThread(t)
           \/ \E kind \in IoKinds : \E x : BlockThread(t, kind, x)
    PROVE  \A u \in Threads : WaitsForLock(u)' => WaitsForLock(u) /\ ctx'[u] = ctx[u]
<1>1. queue \in [Threads -> Queues \cup {"none"}] /\ ctx \in [Threads -> Contexts]
  BY DEF TypeOK
<1>2. CASE UnblockThread(t)
  BY <1>1, <1>2 DEF UnblockThread, Enqueued, WaitsForLock
<1>3. CASE SleepThread(t)
  BY <1>1, <1>3 DEF SleepThread, Enqueued, WaitsForLock
<1>4. ASSUME NEW kind \in IoKinds, NEW x, BlockThread(t, kind, x)
      PROVE  \A u \in Threads : WaitsForLock(u)' => WaitsForLock(u) /\ ctx'[u] = ctx[u]
  BY <1>1, <1>4 DEF BlockThread, Enqueued, WaitsForLock, IoKinds
<1> QED BY <1>2, <1>3, <1>4

\* A blocked thread gets the lock it waits for only if it is free: it does not
\* hold it, and it has counted it already.
LEMMA RetryLockLocks ==
    ASSUME TypeOK, QueueInv, LockInv, RetryLock
    PROVE  LockInv'
<1> DEFINE o == ctx[cur].on
<1>1. /\ cur \in threadtab /\ cur \in Threads /\ threadtab \subseteq Threads
      /\ threadtab' = threadtab /\ locked' = locked /\ lockedCount' = lockedCount
      /\ ctx' = ctx /\ queue \in [Threads -> Queues \cup {"none"}]
  BY CurrentLive DEF RetryLock, TypeOK, registry
<1>2. WaitsForLock(cur)
  BY DEF RetryLock, QueueInv, SavedNextLive, SweptQueue, WaitsForLock
<1>3. o \in Objects /\ locked[cur] = o /\ lockedCount[cur] > 0 /\ mutex[o].owner # cur
  BY <1>1, <1>2 DEF LockInv, WaitersHoldNothing
<1>4. CASE Lockable(mutex[o], cur)
  <2>1. mutex[o].counter = 0
    BY <1>3, <1>4 DEF Lockable
  <2>2. mutex' = [mutex EXCEPT ![o] = Locked(@, cur)] /\ queue' = [queue EXCEPT ![cur] = "run"]
    BY <1>4 DEF RetryLock, Enqueued
  <2>3. mutex'[o] = [counter |-> 1, owner |-> cur] /\ \A p \in Objects : p # o => mutex'[p] = mutex[p]
    BY <1>3, <2>1, <2>2 DEF TypeOK, Locked
  <2>4. \A t \in Threads : WaitsForLock(t)' => WaitsForLock(t) /\ t # cur
    BY <1>1, <2>2 DEF WaitsForLock
  <2> HIDE DEF o
  <2>5. NamedOwnersLive'
    <3> SUFFICES ASSUME NEW p \in Objects, mutex'[p].owner # NoThread
                 PROVE  LET t == mutex'[p].owner IN
                          t \in threadtab /\ locked[t] = p /\ mutex'[p].counter \in 1..lockedCount[t]
      BY <1>1 DEF NamedOwnersLive
    <3>1. CASE p = o
      BY <1>1, <1>3, <2>3, <3>1 DEF TypeOK
    <3>2. CASE p # o
      BY <2>3, <3>2 DEF LockInv, NamedOwnersLive
    <3> QED BY <3>1, <3>2
  <2>6. WaitersHoldNothing'
    BY <1>1, <2>3, <2>4 DEF LockInv, WaitersHoldNothing
  <2>7. \A t \in Threads : WaitsForLock(t)' =>
          ctx'[t].on \in Objects /\ locked'[t] = ctx'[t].on /\ lockedCount'[t] > 0
    BY <1>1, <2>4 DEF LockInv
  <2> QED BY <2>5, <2>6, <2>7 DEF LockInv
<1>5. CASE ~Lockable(mutex[o], cur)
  <2>1. UNCHANGED <<locks, threadtab, queue, ctx>>
    BY <1>1, <1>5 DEF RetryLock, locks
  <2> QED BY <1>1, <2>1, LockFrame DEF WaitsForLock
<1> QED BY <1>4, <1>5

\* Locking: what the thread owned before, if anything, was this very object.
LEMMA LockObjLocks ==
    ASSUME TypeOK, QueueInv, LockInv, NEW o \in Objects, LockObj(o)
    PROVE  LockInv'
<1>1. /\ cur \in Threads /\ cur \in threadtab /\ ~WaitsForLock(cur)
      /\ threadtab \subseteq Threads /\ threadtab' = threadtab
      /\ locked \in [Threads -> Objects \cup {Null}] /\ mutex \in [Objects -> Mutexes]
      /\ lockedCount \in [Threads -> 0..MaxDepth] /\ MaxDepth \in Nat
      /\ queue \in [Threads -> Queues \cup {"none"}] /\ ctx \in [Threads -> Contexts]
  BY RunnerWaitsNot, ThreadsAssumption DEF LockObj, Instr, TypeOK, registry, Mutexes
<1>2. /\ locked' = [locked EXCEPT ![cur] = o]
      /\ lockedCount' = [lockedCount EXCEPT ![cur] = @ + 1]
      /\ ~HoldsAnother(o)
  BY DEF LockObj
<1>3. \A p \in Objects : mutex[p].owner = cur => p = o
  BY <1>1, <1>2, LockFacts DEF HoldsAnother, Mutexes
<1>4. \A t \in Threads : t # cur =>
        locked'[t] = locked[t] /\ lockedCount'[t] = lockedCount[t]
  BY <1>1, <1>2
<1>5. locked'[cur] = o /\ lockedCount'[cur] = lockedCount[cur] + 1 /\ lockedCount[cur] \in Nat
  BY <1>1, <1>2
<1>6. CASE Lockable(mutex[o], cur)
  <2>1. mutex' = [mutex EXCEPT ![o] = Locked(@, cur)] /\ UNCHANGED <<queue, ctx>>
    BY <1>6 DEF LockObj, queues
  <2>2. /\ mutex'[o] = [counter |-> mutex[o].counter + 1, owner |-> cur]
        /\ \A p \in Objects : p # o => mutex'[p] = mutex[p]
    BY <1>1, <2>1 DEF Locked
  <2>3. mutex[o].counter \in Nat /\ mutex[o].counter <= lockedCount[cur]
    BY <1>1, <1>6, LockFacts DEF Lockable, Mutexes
  <2>4. NamedOwnersLive'
    <3> SUFFICES ASSUME NEW p \in Objects, mutex'[p].owner # NoThread
                 PROVE  LET t == mutex'[p].owner IN
                          t \in threadtab /\ locked'[t] = p /\ mutex'[p].counter \in 1..lockedCount'[t]
      BY <1>1 DEF NamedOwnersLive
    <3>1. CASE p = o
      BY <1>1, <1>5, <2>2, <2>3, <3>1
    <3>2. CASE p # o
      BY <1>1, <1>3, <1>4, <2>2, <3>2 DEF LockInv, NamedOwnersLive
    <3> QED BY <3>1, <3>2
  <2>5. \A t \in Threads : WaitsForLock(t)' => WaitsForLock(t) /\ t # cur /\ ctx'[t] = ctx[t]
    BY <1>1, <2>1 DEF WaitsForLock
  <2>6. WaitersHoldNothing'
    BY <1>1, <2>2, <2>5 DEF LockInv, WaitersHoldNothing
  <2>7. \A t \in Threads : WaitsForLock(t)' =>
          ctx'[t].on \in Objects /\ locked'[t] = ctx'[t].on /\ lockedCount'[t] > 0
    BY <1>4, <2>5 DEF LockInv
  <2> QED BY <2>4, <2>6, <2>7 DEF LockInv
<1>7. CASE ~Lockable(mutex[o], cur)
  <2>1. BlockThread(cur, "locking", o) /\ mutex' = mutex
    BY <1>7 DEF LockObj
  <2>2. \A p \in Objects : mutex[p].owner # cur
    BY <1>3, <1>7 DEF Lockable
  <2>3. NamedOwnersLive'
    BY <1>1, <1>4, <2>1, <2>2 DEF LockInv, NamedOwnersLive
  <2>4. ctx' = [ctx EXCEPT ![cur] = [kind |-> "locking", on |-> o]]
        /\ queue' = [queue EXCEPT ![cur] = "block"]
    BY <2>1 DEF BlockThread, Enqueued
  <2>5. \A t \in Threads : WaitsForLock(t)' /\ t # cur => WaitsForLock(t) /\ ctx'[t] = ctx[t]
    BY <1>1, <2>4 DEF WaitsForLock
  <2>6. WaitersHoldNothing'
    BY <1>1, <2>1, <2>2, <2>5 DEF LockInv, WaitersHoldNothing
  <2>7. ASSUME NEW t \in Threads, WaitsForLock(t)'
        PROVE  ctx'[t].on \in Objects /\ locked'[t] = ctx'[t].on /\ lockedCount'[t] > 0
    <3>1. CASE t = cur
      BY <1>1, <1>5, <2>4, <3>1
    <3>2. CASE t # cur
      BY <1>4, <2>5, <2>7, <3>2 DEF LockInv
    <3> QED BY <3>1, <3>2
  <2> QED BY <2>1, <2>3, <2>6, <2>7 DEF LockInv
<1> QED BY <1>6, <1>7

\* Mutexes are only ever counted down, towards nobody owning them.
LEMMA ReleaseFacts ==
    ASSUME NEW m \in Mutexes, m.counter = 0 => m.owner = NoThread, NEW n \in Nat
    PROVE  \A r \in {Unlocked(m), UnlockedTimes(m, n)} :
             /\ r \in Mutexes
             /\ r.counter = 0 => r.owner = NoThread
             /\ r.counter > 0 => r.owner = m.owner /\ m.counter > 0
             /\ r.counter <= m.counter
             /\ r.owner \in {m.owner, NoThread}
BY DEF Mutexes, Unlocked, UnlockedTimes, Unheld, NoThread

\* Unlocking: whoever owns the lock, it is released once, and it can be more
\* than its owner counted only if its owner is the thread that unlocks.
LEMMA UnlockObjLocks ==
    ASSUME TypeOK, QueueInv, LockInv, NEW o \in Objects, UnlockObj(o)
    PROVE  LockInv'
<1>1. /\ cur \in Threads /\ cur \in threadtab /\ ~WaitsForLock(cur)
      /\ threadtab \subseteq Threads /\ threadtab' = threadtab
      /\ queue' = queue /\ ctx' = ctx
      /\ locked \in [Threads -> Objects \cup {Null}] /\ mutex \in [Objects -> Mutexes]
      /\ lockedCount \in [Threads -> 0..MaxDepth] /\ MaxDepth \in Nat
  BY RunnerWaitsNot, ThreadsAssumption
     DEF UnlockObj, Instr, TypeOK, registry, queues, Mutexes
<1>2. \A t \in Threads : t # cur =>
        locked'[t] = locked[t] /\ lockedCount'[t] = lockedCount[t]
  BY <1>1 DEF UnlockObj
<1>3. locked[cur] = o /\ \A p \in Objects : p # o => mutex'[p] = mutex[p]
  BY <1>1 DEF UnlockObj
<1>4. mutex'[o] = Unlocked(mutex[o]) /\ mutex[o] \in Mutexes
  BY <1>1 DEF UnlockObj
<1>5. mutex[o].counter = 0 => mutex[o].owner = NoThread
  BY DEF LockInv, NamedOwnersLive
<1>6. /\ mutex'[o].counter = 0 => mutex'[o].owner = NoThread
      /\ mutex'[o].counter > 0 => mutex'[o].owner = mutex[o].owner /\ mutex[o].counter > 0
      /\ mutex'[o].counter <= mutex[o].counter /\ mutex'[o].counter \in Nat
      /\ mutex'[o].owner \in {mutex[o].owner, NoThread}
  BY <1>4, <1>5, ReleaseFacts DEF Mutexes
<1>7. NamedOwnersLive'
  <2> SUFFICES ASSUME NEW p \in Objects, mutex'[p].owner # NoThread
               PROVE  LET t == mutex'[p].owner IN
                        t \in threadtab /\ locked'[t] = p /\ mutex'[p].counter \in 1..lockedCount'[t]
    BY <1>1 DEF NamedOwnersLive
  <2> DEFINE t == mutex'[p].owner
  <2>1. mutex[p].owner = t
    BY <1>3, <1>6
  <2>2. t \in threadtab /\ locked[t] = p /\ mutex[p].counter \in 1..lockedCount[t]
    BY <2>1 DEF LockInv, NamedOwnersLive
  <2>3. CASE t # cur
    <3>1. mutex'[p].counter <= mutex[p].counter
          /\ mutex'[p].counter \in Nat \ {0} /\ mutex[p].counter \in Nat
      <4>1. CASE p = o
        BY <1>4, <1>6, <4>1 DEF Mutexes
      <4>2. CASE p # o
        BY <1>1, <1>3, <2>2, <4>2 DEF Mutexes
      <4> QED BY <4>1, <4>2
    <3> HIDE DEF t
    <3> QED BY <1>1, <1>2, <2>2, <2>3, <3>1 DEF t
  <2>4. CASE t = cur
    <3>1. p = o /\ mutex[o].counter <= lockedCount[cur]
      BY <1>3, <2>2, <2>4
    <3>2. mutex'[o].counter = mutex[o].counter - 1 /\ mutex[o].counter > 1
      BY <1>4, <3>1 DEF Unlocked, Unheld, Mutexes
    <3>3. lockedCount[cur] > 1 /\ lockedCount[cur] \in Nat /\ mutex[o].counter \in Nat
      BY <1>1, <1>4, <3>1, <3>2 DEF Mutexes
    <3>4. locked'[cur] = o /\ lockedCount'[cur] = lockedCount[cur] - 1
      BY <1>1, <1>3, <3>3 DEF UnlockObj
    <3> QED BY <2>2, <2>4, <3>1, <3>2, <3>3, <3>4
  <2> QED BY <2>3, <2>4
<1>8. WaitersHoldNothing'
  <2>1. \A p \in Objects : mutex'[p].owner \in {mutex[p].owner, NoThread}
    BY <1>3, <1>6
  <2> QED BY <1>1, <2>1, ThreadNumbers DEF LockInv, WaitersHoldNothing, WaitsForLock, NoThread
<1>9. \A t \in Threads : WaitsForLock(t)' =>
        ctx'[t].on \in Objects /\ locked'[t] = ctx'[t].on /\ lockedCount'[t] > 0
  BY <1>1, <1>2 DEF LockInv, WaitsForLock
<1> QED BY <1>7, <1>8, <1>9 DEF LockInv

\* The end of a thread: it has counted its lock at least as often as it holds it.
LEMMA ReapLocks ==
    ASSUME TypeOK, QueueInv, LockInv, Reap
    PROVE  LockInv'
<1>1. /\ cur \in Threads /\ threadtab \subseteq Threads
      /\ threadtab' = threadtab \ {cur}
      /\ queue' = [queue EXCEPT ![cur] = "none"] /\ ctx' = [ctx EXCEPT ![cur] = NoContext]
      /\ queue \in [Threads -> Queues \cup {"none"}] /\ ctx \in [Threads -> Contexts]
      /\ locked \in [Threads -> Objects \cup {Null}] /\ mutex \in [Objects -> Mutexes]
      /\ lockedCount \in [Threads -> 0..MaxDepth] /\ lockedCount[cur] \in Nat
  BY CurrentLive, ThreadsAssumption DEF Reap, TypeOK, Mutexes
<1>2. \A t \in Threads : t # cur =>
        locked'[t] = locked[t] /\ lockedCount'[t] = lockedCount[t]
  BY <1>1 DEF Reap
<1>3. \A t \in Threads : WaitsForLock(t)' => t # cur /\ WaitsForLock(t) /\ ctx'[t] = ctx[t]
  BY <1>1 DEF WaitsForLock
<1>4. ASSUME NEW p \in Objects
      PROVE  /\ mutex'[p].counter = 0 => mutex'[p].owner = NoThread
             /\ mutex'[p].owner \in {mutex[p].owner, NoThread}
             /\ mutex'[p].counter > 0 =>
                  /\ mutex'[p].owner = mutex[p].owner /\ mutex[p].counter > 0
                  /\ mutex'[p].owner # cur
             /\ mutex[p].counter \in Nat /\ mutex'[p].counter \in Nat
             /\ mutex'[p].counter <= mutex[p].counter
  <2>1. /\ mutex[p] \in Mutexes /\ cur # NoThread
        /\ mutex[p].counter = 0 => mutex[p].owner = NoThread
        /\ mutex[p].owner = cur => locked[cur] = p /\ mutex[p].counter <= lockedCount[cur]
    BY <1>1, LockFacts
  <2>2. CASE locked[cur] = p
    <3>1. mutex'[p] = UnlockedTimes(mutex[p], lockedCount[cur]) /\ p # Null
      BY <1>1, <2>2, ThreadsAssumption DEF Reap, LocksGivenUp
    <3>2. mutex'[p].counter > 0 => mutex[p].owner # cur
      BY <1>1, <2>1, <3>1 DEF UnlockedTimes, Unheld, Mutexes
    <3>3. LET r == mutex'[p] IN
            /\ r \in Mutexes
            /\ r.counter = 0 => r.owner = NoThread
            /\ r.counter > 0 => r.owner = mutex[p].owner /\ mutex[p].counter > 0
            /\ r.counter <= mutex[p].counter
            /\ r.owner \in {mutex[p].owner, NoThread}
      BY <1>1, <2>1, <3>1, ReleaseFacts
    <3> QED BY <2>1, <3>2, <3>3 DEF Mutexes
  <2>3. CASE locked[cur] # p
    <3>1. mutex'[p] = mutex[p]
      BY <1>1, <2>3 DEF Reap, LocksGivenUp
    <3> QED BY <2>1, <2>3, <3>1 DEF Mutexes
  <2> QED BY <2>2, <2>3
<1>5. NamedOwnersLive'
  <2> SUFFICES ASSUME NEW p \in Objects, mutex'[p].owner # NoThread
               PROVE  LET t == mutex'[p].owner IN
                        t \in threadtab' /\ locked'[t] = p /\ mutex'[p].counter \in 1..lockedCount'[t]
    BY DEF NamedOwnersLive
  <2> DEFINE t == mutex'[p].owner
  <2>1. t = mutex[p].owner /\ mutex[p].counter > 0 /\ t # cur
        /\ mutex[p].counter \in Nat /\ mutex'[p].counter \in Nat \ {0}
        /\ mutex'[p].counter <= mutex[p].counter
    BY <1>4
  <2>2. t \in threadtab /\ locked[t] = p /\ mutex[p].counter \in 1..lockedCount[t]
    BY <2>1 DEF LockInv, NamedOwnersLive
  <2>3. lockedCount[t] \in Nat
    BY <1>1, <2>2, ThreadsAssumption
  <2> HIDE DEF t
  <2> QED BY <1>1, <1>2, <2>1, <2>2, <2>3 DEF t
<1>6. WaitersHoldNothing'
  BY <1>1, <1>3, <1>4, ThreadNumbers DEF LockInv, WaitersHoldNothing, NoThread
<1>7. \A t \in Threads : WaitsForLock(t)' =>
        ctx'[t].on \in Objects /\ locked'[t] = ctx'[t].on /\ lockedCount'[t] > 0
  BY <1>2, <1>3 DEF LockInv
<1> QED BY <1>4, <1>5, <1>6, <1>7 DEF LockInv

\* Steps that leave locks and thread table alone and at most wake one thread,
\* or put the current one to sleep or to wait for input.
LEMMA MoveLocks ==
    ASSUME TypeOK, LockInv, UNCHANGED <<locks, threadtab>>,
           \/ UNCHANGED <<queue, ctx>>
           \/ \E t \in Threads :
                \/ UnblockThread(t) \/ SleepThread(t)
                \/ \E kind \in IoKinds : \E x : BlockThread(t, kind, x)
    PROVE  LockInv'
<1>1. threadtab \subseteq Threads
  BY DEF TypeOK
<1>2. \A u \in Threads : WaitsForLock(u)' => WaitsForLock(u) /\ ctx'[u] = ctx[u]
  BY MovedWaitsNot DEF WaitsForLock
<1> QED BY <1>1, <1>2, LockFrame

\* A tried I/O operation either blocks the thread on it or unblocks it.
LEMMA TryIoMoves ==
    ASSUME NEW t, NEW kind \in IoKinds, NEW c, TryIo(t, kind, c)
    PROVE  UnblockThread(t) \/ \E k \in IoKinds : \E x : BlockThread(t, k, x)
BY DEF TryIo

\* Every step of the loop outside an instruction keeps the locks owned.
LEMMA LoopLocks ==
    ASSUME TypeOK, QueueInv, LockInv, Loop
    PROVE  LockInv'
<1>1. CASE StartRound \/ SleepersDone \/ BlockedDone \/ RunDone \/ WakeFromSelect
  BY <1>1, MoveLocks DEF StartRound, SleepersDone, BlockedDone, RunDone, WakeFromSelect,
     queues, registry
<1>2. CASE SliceOver
  BY <1>2, MoveLocks DEF SliceOver, queues, registry
<1>3. CASE ResumeSleeper
  <2>1. cur \in Threads
    BY <1>3, CurrentLive DEF ResumeSleeper
  <2> QED BY <1>3, <2>1, MoveLocks DEF ResumeSleeper, queues, registry
<1>4. CASE RetryIo
  <2>1. cur \in Threads /\ ctx[cur].kind \in IoKinds
    BY <1>4, CurrentLive DEF RetryIo
  <2>2. UnblockThread(cur) \/ \E k \in IoKinds : \E x : BlockThread(cur, k, x)
    BY <1>4, <2>1, TryIoMoves DEF RetryIo
  <2>3. UNCHANGED <<locks, threadtab>>
    BY <1>4 DEF RetryIo, registry
  <2> QED BY <2>1, <2>2, <2>3, MoveLocks
<1>5. CASE RetryLock
  BY <1>5, RetryLockLocks
<1>6. CASE Reap
  BY <1>6, ReapLocks
<1> QED BY <1>1, <1>2, <1>3, <1>4, <1>5, <1>6 DEF Loop

\* Every instruction of the running thread keeps the locks owned.
LEMMA InstructionLocks ==
    ASSUME TypeOK, QueueInv, LockInv, Instruction
    PROVE  LockInv'
<1>1. CASE Compute \/ QuotaExpires \/ Raise \/ Return \/ Shutdown \/ SetQuotaOfGoneThread
  BY <1>1, MoveLocks DEF Compute, QuotaExpires, Raise, Return, Shutdown,
     SetQuotaOfGoneThread, queues, registry
<1>2. CASE Sleep
  BY <1>2, RunnerWaitsNot, MoveLocks DEF Sleep, Instr, registry
<1>3. ASSUME NEW b \in BOOLEAN, SetHandler(b) PROVE LockInv'
  BY <1>3, MoveLocks DEF SetHandler, queues, registry
<1>4. ASSUME NEW o \in Objects, LockRefused(o) PROVE LockInv'
  BY <1>4, MoveLocks DEF LockRefused, queues, registry
<1>5. ASSUME NEW o \in Objects, LockObj(o) \/ UnlockObj(o) PROVE LockInv'
  BY <1>5, LockObjLocks, UnlockObjLocks
<1>6. ASSUME NEW s \in Quotas \cup {"dying"}, Fork(s) PROVE LockInv'
  <2>1. /\ nextNumber \in Threads /\ threadtab \subseteq Threads
        /\ threadtab' = threadtab \cup {nextNumber} /\ UNCHANGED locks
        /\ queue' = [queue EXCEPT ![nextNumber] = "run"] /\ ctx' = ctx
        /\ queue \in [Threads -> Queues \cup {"none"}]
    BY <1>6 DEF Fork, TypeOK
  <2>2. \A t \in Threads : WaitsForLock(t)' => t # nextNumber /\ WaitsForLock(t)
    BY <2>1 DEF WaitsForLock
  <2>3. \A t \in threadtab' : WaitsForLock(t)' => t \in threadtab
    BY <2>1, <2>2
  <2> QED BY <2>1, <2>2, <2>3, LockFrame
<1>7. ASSUME NEW t \in threadtab, Kill(t) \/ ForceKill(t) PROVE LockInv'
  BY <1>7, MoveLocks DEF Kill, ForceKill, WakeVictim, queues, registry, TypeOK
<1>8. ASSUME NEW t \in threadtab, NEW s \in Quotas \cup {"dying"}, SetThreadQuota(t, s)
      PROVE  LockInv'
  BY <1>8, MoveLocks DEF SetThreadQuota, queues, registry
<1>9. ASSUME NEW c \in Conns, ReadFrom(c) \/ AcceptConnection(c) PROVE LockInv'
  <2>1. cur \in Threads
    BY <1>9, RunningThread DEF ReadFrom, AcceptConnection, Instr
  <2>2. UnblockThread(cur) \/ \E k \in IoKinds : \E x : BlockThread(cur, k, x)
    BY <1>9, TryIoMoves DEF ReadFrom, AcceptConnection, IoKinds
  <2>3. UNCHANGED <<locks, threadtab>>
    BY <1>9 DEF ReadFrom, AcceptConnection, registry
  <2> QED BY <2>1, <2>2, <2>3, MoveLocks
<1>10. ASSUME NEW c \in Conns, CloseConnection(c) PROVE LockInv'
  BY <1>10, MoveLocks DEF CloseConnection, queues, registry
<1> QED
  BY <1>1, <1>2, <1>3, <1>4, <1>5, <1>6, <1>7, <1>8, <1>9, <1>10, ThreadsAssumption
     DEF Instruction

\* The invariant of the locks is inductive, given types and queues.
LEMMA LockStep ==
    ASSUME TypeOK, QueueInv, LockInv, [Next]_vars
    PROVE  LockInv'
<1>1. CASE Process
  BY <1>1, LoopLocks, InstructionLocks DEF Process
<1>2. CASE Environment
  BY <1>2, MoveLocks DEF Environment, Alarm, InputArrives, queues, registry
<1>3. CASE UNCHANGED vars
  BY <1>3, MoveLocks DEF vars, queues, registry
<1> QED BY <1>1, <1>2, <1>3 DEF Next, Done

\* Every way to take a lock names an owner, as long as only running threads and
\* the retries of the main loop take locks.
LEMMA OwnedStep ==
    ASSUME TypeOK, QueueInv, HeldLocksOwned, [Next]_vars
    PROVE  HeldLocksOwned'
<1>1. CASE UNCHANGED mutex
  BY <1>1 DEF HeldLocksOwned
<1>2. CASE RetryLock
  <2>1. cur # NoThread /\ mutex \in [Objects -> Mutexes]
    BY <1>2, CurrentLive, ThreadNumbers DEF RetryLock, NoThread, TypeOK, Mutexes
  <2> QED BY <1>1, <1>2, <2>1 DEF RetryLock, Locked, HeldLocksOwned
<1>3. ASSUME NEW o \in Objects, LockObj(o) PROVE HeldLocksOwned'
  <2>1. cur # NoThread /\ mutex \in [Objects -> Mutexes]
    BY <1>3 DEF LockObj, Instr, Running, NoThread, TypeOK, Mutexes
  <2> QED BY <1>1, <1>3, <2>1 DEF LockObj, Locked, HeldLocksOwned
<1>4. ASSUME NEW o \in Objects, UnlockObj(o) PROVE HeldLocksOwned'
  BY <1>4 DEF UnlockObj, Unlocked, Unheld, HeldLocksOwned, TypeOK
<1>5. CASE Reap
  <2>1. cur \in Threads /\ lockedCount[cur] \in Nat /\ mutex \in [Objects -> Mutexes]
    BY <1>5, CurrentLive, ThreadsAssumption DEF Reap, TypeOK, Mutexes
  <2>2. mutex' = LocksGivenUp(cur)
    BY <1>5 DEF Reap
  <2>3. ASSUME NEW o \in Objects, mutex'[o].counter > 0 PROVE mutex'[o].owner # NoThread
    <3>1. CASE locked[cur] = o
      <4>1. mutex'[o] = UnlockedTimes(mutex[o], lockedCount[cur])
        BY <2>1, <2>2, <3>1, ThreadsAssumption DEF LocksGivenUp
      <4> QED BY <2>1, <2>3, <4>1 DEF UnlockedTimes, Unheld, HeldLocksOwned, Mutexes
    <3>2. CASE locked[cur] # o
      BY <2>1, <2>2, <2>3, <3>2 DEF LocksGivenUp, HeldLocksOwned
    <3> QED BY <3>1, <3>2
  <2> QED BY <2>3 DEF HeldLocksOwned
<1>6. CASE Loop /\ ~RetryLock /\ ~Reap
  BY <1>1, <1>6 DEF Loop, StartRound, ResumeSleeper, SleepersDone, RetryIo, BlockedDone, RunDone,
     WakeFromSelect, SliceOver, locks
<1>7. CASE Instruction /\ \A o \in Objects : ~LockObj(o) /\ ~UnlockObj(o)
  BY <1>1, <1>7 DEF Instruction, Compute, QuotaExpires, Raise, Return, Sleep, Shutdown,
     SetQuotaOfGoneThread, SetHandler, LockRefused, Fork, Kill, ForceKill, SetThreadQuota,
     ReadFrom, AcceptConnection, CloseConnection, locks
<1>8. CASE Environment \/ UNCHANGED vars
  BY <1>1, <1>8 DEF Environment, Alarm, InputArrives, vars, locks
<1> QED BY <1>2, <1>3, <1>4, <1>5, <1>6, <1>7, <1>8 DEF Next, Process, Done

\* The server starts with types, queues and locks in order.
LEMMA IndInit == Init => IndInv
<1>1. Init => HeldLocksOwned
  BY DEF Init, HeldLocksOwned, Unheld
<1> QED BY <1>1, TypeInit, QueueInit, LockInit DEF IndInv

\* And every step leaves them so.
LEMMA IndStep == IndInv /\ [Next]_vars => IndInv'
BY TypeStep, QueueStep, LockStep, OwnedStep DEF IndInv

\* The inductive invariant: types, queues and locks together.
THEOREM Invariance == Spec => []IndInv
BY IndInit, IndStep, PTL DEF Spec

\* No object lock outlives the thread that holds it: its owner is registered,
\* names the object in vm_locked and has counted it at least as often as the
\* mutex, so the unlock loop of run_run_queue releases it completely.
THEOREM LocksHaveOwners == Spec => []NoOrphanLock
<1>1. IndInv => NoOrphanLock
  <2> SUFFICES ASSUME IndInv, NEW o \in Objects, mutex[o].counter > 0
               PROVE  LET t == mutex[o].owner IN
                        t \in threadtab /\ locked[t] = o /\ mutex[o].counter <= lockedCount[t]
    BY DEF NoOrphanLock
  <2> QED BY DEF IndInv, HeldLocksOwned, LockInv, NamedOwnersLive
<1> QED BY <1>1, Invariance, PTL

\* No thread waits for a lock while it holds one, so lock waits cannot form a
\* cycle; this is what `multiple-locks-disallowed' is for.
THEOREM NoHoldAndWait == Spec => []WaitersHoldNothing
<1>1. IndInv => WaitersHoldNothing
  BY DEF IndInv, LockInv
<1> QED BY <1>1, Invariance, PTL

-----------------------------------------------------------------------------
(* The steps that leave the locks and those who wait for them alone.       *)

SameWaiters ==
    \A t \in Threads : /\ WaitsForLock(t)' <=> WaitsForLock(t)
                       /\ WaitsForLock(t) => ctx'[t] = ctx[t]

\* The step ends outside an instruction, or its thread waits for no lock.
RunnerFree == phase' # "run" \/ cur' = 0 \/ ~WaitsForLock(cur)'

SameRunner == UNCHANGED <<sweep, vmState>>

Quiet == UNCHANGED <<locks, threadtab>> /\ SameWaiters /\ (RunnerFree \/ SameRunner)

\* Moving a thread that waits for no lock, other than to wait for one.
LEMMA MovedOthers ==
    ASSUME TypeOK, NEW t \in Threads, ~WaitsForLock(t),
           \/ UnblockThread(t) \/ SleepThread(t)
           \/ \E kind \in IoKinds : \E x : BlockThread(t, kind, x)
    PROVE  SameWaiters
<1>1. queue \in [Threads -> Queues \cup {"none"}] /\ ctx \in [Threads -> Contexts]
  BY DEF TypeOK
<1>2. \A u \in Threads : WaitsForLock(u)' => WaitsForLock(u) /\ ctx'[u] = ctx[u]
  BY MovedWaitsNot
<1>3. \A u \in Threads : u # t => queue'[u] = queue[u] /\ ctx'[u] = ctx[u]
  BY <1>1 DEF UnblockThread, SleepThread, BlockThread, Enqueued
<1> QED BY <1>2, <1>3 DEF SameWaiters, WaitsForLock

\* Steps that move no thread.
LEMMA NobodyMoved ==
    ASSUME UNCHANGED <<queue, ctx>>
    PROVE  SameWaiters
BY DEF SameWaiters, WaitsForLock

\* A pass over run_q steps to a thread of run_q.
LEMMA NextRunnerFree ==
    ASSUME TypeOK, QueueInv, phase = "run", cur # 0, Advance("run"),
           \A t \in Threads : t # cur => queue'[t] = queue[t]
    PROVE  RunnerFree
<1>1. SweptQueue = "run" /\ cur' = next
  BY DEF SweptQueue, Advance
<1>2. next # 0 => next # cur /\ next \in Threads /\ queue[next] = "run"
  BY <1>1 DEF QueueInv, SavedNextLive, TypeOK
<1> QED BY <1>1, <1>2 DEF RunnerFree, WaitsForLock

\* The steps of the loop that take or give no lock.
LEMMA QuietLoop ==
    ASSUME TypeOK, QueueInv, Loop, ~RetryLock, ~Reap
    PROVE  Quiet
<1>1. CASE StartRound \/ SleepersDone \/ RunDone \/ WakeFromSelect
  BY <1>1, NobodyMoved
     DEF StartRound, SleepersDone, RunDone, WakeFromSelect, Enter, queues, registry, Quiet,
         RunnerFree
<1>2. CASE BlockedDone
  <2>1. UNCHANGED <<locks, threadtab, queue, ctx>>
    BY <1>2 DEF BlockedDone, queues, registry
  <2>2. CASE q["run"] # << >>
    <3>1. cur' \in InQueue(q["run"])
      BY <1>2, <2>2, FirstLemma, ThreadNumbers DEF BlockedDone, Enter, TypeOK, Queues
    <3>2. queue[cur'] = "run"
      BY <3>1 DEF QueueInv, QueuesPartition, Queues
    <3> QED BY <2>1, <3>2, NobodyMoved DEF Quiet, RunnerFree, WaitsForLock
  <2>3. CASE q["run"] = << >>
    BY <1>2, <2>1, <2>3, NobodyMoved DEF BlockedDone, Quiet, RunnerFree
  <2> QED BY <2>2, <2>3
<1>3. CASE SliceOver
  <2>1. UNCHANGED <<locks, threadtab, queue, ctx>> /\ phase = "run" /\ cur # 0 /\ Advance("run")
    BY <1>3 DEF SliceOver, queues, registry
  <2> QED BY <2>1, NobodyMoved, NextRunnerFree DEF Quiet
<1>4. CASE ResumeSleeper
  <2>1. cur \in Threads /\ UNCHANGED <<locks, threadtab>> /\ phase' # "run"
    BY <1>4, CurrentLive DEF ResumeSleeper, registry, Advance
  <2>2. ~WaitsForLock(cur)
    BY <1>4 DEF ResumeSleeper, QueueInv, SavedNextLive, SweptQueue, WaitsForLock
  <2>3. SameWaiters
    BY <1>4, <2>1, <2>2, MovedOthers, NobodyMoved DEF ResumeSleeper, queues
  <2> QED BY <2>1, <2>3 DEF Quiet, RunnerFree
<1>5. CASE RetryIo
  <2>1. cur \in Threads /\ UNCHANGED <<locks, threadtab>> /\ phase' # "run" /\ ctx[cur].kind \in IoKinds
    BY <1>5, CurrentLive DEF RetryIo, registry, Advance
  <2>2. ~WaitsForLock(cur)
    BY <2>1 DEF WaitsForLock, IoKinds
  <2>3. UnblockThread(cur) \/ \E k \in IoKinds : \E x : BlockThread(cur, k, x)
    BY <1>5, <2>1, TryIoMoves DEF RetryIo
  <2>4. SameWaiters
    BY <2>1, <2>2, <2>3, MovedOthers
  <2> QED BY <2>1, <2>4 DEF Quiet, RunnerFree
<1> QED BY <1>1, <1>2, <1>3, <1>4, <1>5 DEF Loop

\* The instructions that take or give no lock and start no thread.
LEMMA QuietInstruction ==
    ASSUME UndisturbedWaiters, TypeOK, QueueInv, Instruction,
           ~\E o \in Objects : LockObj(o) \/ UnlockObj(o),
           ~\E s \in Quotas \cup {"dying"} : Fork(s)
    PROVE  Quiet
<1>0. Running /\ cur' = cur
  BY DEF Instruction, Compute, QuotaExpires, Raise, Return, Sleep, Shutdown,
         SetQuotaOfGoneThread, SetHandler, LockRefused, LockObj, UnlockObj, Fork, Kill,
         ForceKill, SetThreadQuota, ReadFrom, AcceptConnection, CloseConnection, Instr, sweep
<1>1. cur \in Threads /\ ~WaitsForLock(cur)
  BY <1>0, RunnerWaitsNot
<1>2. SameWaiters => RunnerFree
  BY <1>0, <1>1 DEF SameWaiters, RunnerFree
<1>3. CASE Compute \/ QuotaExpires \/ Raise \/ Return \/ Shutdown \/ SetQuotaOfGoneThread
  <2>1. UNCHANGED <<locks, threadtab, queue, ctx>>
    BY <1>3 DEF Compute, QuotaExpires, Raise, Return, Shutdown, SetQuotaOfGoneThread,
       queues, registry
  <2> QED BY <1>2, <2>1, NobodyMoved DEF Quiet
<1>4. CASE \/ \E b \in BOOLEAN : SetHandler(b)
           \/ \E o \in Objects : LockRefused(o)
           \/ \E t \in threadtab, s \in Quotas \cup {"dying"} : SetThreadQuota(t, s)
           \/ \E c \in Conns : CloseConnection(c)
  <2>1. UNCHANGED <<locks, threadtab, queue, ctx>>
    BY <1>4 DEF SetHandler, LockRefused, SetThreadQuota, CloseConnection, queues, registry
  <2> QED BY <1>2, <2>1, NobodyMoved DEF Quiet
<1>5. CASE Sleep
  <2>1. UNCHANGED <<locks, threadtab>> /\ SleepThread(cur)
    BY <1>5 DEF Sleep, registry
  <2> QED BY <1>1, <1>2, <2>1, MovedOthers DEF Quiet
<1>6. ASSUME NEW t \in threadtab, Kill(t) \/ ForceKill(t) PROVE Quiet
  <2>1. UNCHANGED <<locks, threadtab>> /\ ~WaitsForLock(t) /\ WakeVictim(t) /\ t \in Threads
    BY <1>6 DEF Kill, ForceKill, MayDisturb, registry, TypeOK
  <2>2. SameWaiters
    BY <2>1, MovedOthers, NobodyMoved DEF WakeVictim, queues
  <2> QED BY <1>2, <2>1, <2>2 DEF Quiet
<1>7. ASSUME NEW c \in Conns, ReadFrom(c) \/ AcceptConnection(c) PROVE Quiet
  <2>1. UNCHANGED <<locks, threadtab>>
    BY <1>7 DEF ReadFrom, AcceptConnection, registry
  <2>2. UnblockThread(cur) \/ \E k \in IoKinds : \E x : BlockThread(cur, k, x)
    BY <1>7, TryIoMoves DEF ReadFrom, AcceptConnection, IoKinds
  <2>3. SameWaiters
    BY <1>1, <2>2, MovedOthers
  <2> QED BY <1>2, <2>1, <2>3 DEF Quiet
<1> QED
  BY <1>3, <1>4, <1>5, <1>6, <1>7, ThreadsAssumption DEF Instruction

\* So every step is of one of six kinds.
LEMMA StepKinds ==
    ASSUME UndisturbedWaiters, TypeOK, QueueInv, [Next]_vars
    PROVE  \/ Quiet \/ RetryLock \/ Reap
           \/ \E o \in Objects : LockObj(o) \/ UnlockObj(o)
           \/ \E s \in Quotas \cup {"dying"} : Fork(s)
<1>1. CASE Process
  BY <1>1, QuietLoop, QuietInstruction DEF Process
<1>2. CASE Environment
  <2>1. UNCHANGED <<locks, threadtab, queue, ctx, sweep, vmState>>
    BY <1>2 DEF Environment, Alarm, InputArrives, queues, vm, registry
  <2> QED BY <2>1, NobodyMoved DEF Quiet, SameRunner
<1>3. CASE UNCHANGED vars
  <2>1. UNCHANGED <<locks, threadtab, queue, ctx, sweep, vmState>>
    BY <1>3 DEF vars, queues, vm, registry
  <2> QED BY <2>1, NobodyMoved DEF Quiet, SameRunner
<1> QED BY <1>1, <1>2, <1>3 DEF Next, Done

-----------------------------------------------------------------------------
(* The counts of threads and mutexes agree: MonitorInv.                    *)

\* MonitorInv without what it says of the thread that runs.
Counted ==
    /\ \A t \in Threads : /\ lockedCount[t] > 0 <=> locked[t] # Null
                          /\ t \notin threadtab => lockedCount[t] = 0
                          /\ WaitsForLock(t) => lockedCount[t] = 1
    /\ LockedMeansHeld

\* A step that ends outside an instruction has only the counts to keep.
LEMMA MonitorParts ==
    /\ MonitorInv => Counted
    /\ Counted' /\ RunnerFree => MonitorInv'
BY DEF MonitorInv, Counted, RunnerFree

\* Nothing has been counted when the system starts.
LEMMA MonitorInit == Init => MonitorInv
<1> SUFFICES ASSUME Init PROVE MonitorInv
  OBVIOUS
<1>1. /\ locked = [t \in Threads |-> Null] /\ lockedCount = [t \in Threads |-> 0]
      /\ ctx = [t \in Threads |-> NoContext] /\ phase = "loop" /\ threadtab \subseteq Threads
  BY TypeInit DEF Init, TypeOK
<1>2. \A t \in Threads : ~WaitsForLock(t)
  BY <1>1 DEF WaitsForLock, NoContext
<1> QED BY <1>1, <1>2 DEF MonitorInv, LockedMeansHeld

\* Steps that touch neither locks nor waiters, be it that they start a thread.
LEMMA CountedFrame ==
    ASSUME TypeOK, Counted, UNCHANGED locks, SameWaiters,
           threadtab \subseteq threadtab', threadtab' \subseteq Threads
    PROVE  Counted'
<1>1. ASSUME NEW t \in threadtab', lockedCount'[t] > 0, ~WaitsForLock(t)'
      PROVE  mutex'[locked'[t]] = [counter |-> lockedCount'[t], owner |-> t]
  <2>1. lockedCount[t] > 0 /\ ~WaitsForLock(t) /\ t \in Threads
    BY <1>1 DEF SameWaiters, locks
  <2>2. t \in threadtab
    BY <2>1 DEF Counted
  <2> QED BY <2>1, <2>2 DEF Counted, LockedMeansHeld, locks
<1>2. \A t \in Threads : /\ lockedCount'[t] > 0 <=> locked'[t] # Null
                         /\ t \notin threadtab' => lockedCount'[t] = 0
                         /\ WaitsForLock(t)' => lockedCount'[t] = 1
  BY DEF Counted, SameWaiters, locks
<1> QED BY <1>1, <1>2 DEF Counted, LockedMeansHeld

\* What a waiter finds when its turn comes: it is registered, holds nothing, and
\* has counted the lock once.
LEMMA WaiterFacts ==
    ASSUME TypeOK, QueueInv, LockInv, MonitorInv, RetryLock
    PROVE  /\ cur \in threadtab /\ cur \in Threads /\ WaitsForLock(cur)
           /\ ctx[cur].on \in Objects /\ locked[cur] = ctx[cur].on /\ lockedCount[cur] = 1
           /\ \A o \in Objects : mutex[o].owner # cur
<1>1. cur \in threadtab /\ cur \in Threads
  BY CurrentLive DEF RetryLock
<1>2. WaitsForLock(cur)
  BY DEF RetryLock, QueueInv, SavedNextLive, SweptQueue, WaitsForLock
<1> QED BY <1>1, <1>2 DEF LockInv, WaitersHoldNothing, MonitorInv

\* A granted waiter holds its lock as often as it has counted it, once.
LEMMA GrantSteps ==
    ASSUME TypeOK, QueueInv, LockInv, MonitorInv, RetryLock,
           Lockable(mutex[ctx[cur].on], cur)
    PROVE  /\ mutex[ctx[cur].on].counter = 0
           /\ mutex' = [mutex EXCEPT ![ctx[cur].on] = [counter |-> 1, owner |-> cur]]
           /\ \A t \in Threads : WaitsForLock(t)' <=> WaitsForLock(t) /\ t # cur
<1>1. /\ cur \in Threads /\ WaitsForLock(cur) /\ ctx[cur].on \in Objects
      /\ mutex[ctx[cur].on].owner # cur
  BY WaiterFacts
<1>2. mutex[ctx[cur].on].counter = 0
  BY <1>1 DEF Lockable
<1>3. /\ mutex' = [mutex EXCEPT ![ctx[cur].on] = [counter |-> 1, owner |-> cur]]
      /\ queue' = [queue EXCEPT ![cur] = "run"] /\ ctx' = ctx
      /\ queue \in [Threads -> Queues \cup {"none"}]
  BY <1>2 DEF RetryLock, Enqueued, Locked, TypeOK
<1> QED BY <1>1, <1>2, <1>3 DEF WaitsForLock

\* A waiter tried again, granted its lock or not, keeps the counts.
LEMMA RetryLockMonitor ==
    ASSUME TypeOK, QueueInv, LockInv, MonitorInv, RetryLock
    PROVE  MonitorInv'
<1> DEFINE o == ctx[cur].on
<1>0. Counted /\ UNCHANGED <<threadtab, locked, lockedCount, ctx>> /\ threadtab \subseteq Threads
      /\ phase' # "run"
  BY MonitorParts DEF RetryLock, Advance, registry, TypeOK
<1>1. CASE Lockable(mutex[o], cur)
  <2>1. /\ cur \in threadtab /\ cur \in Threads /\ o \in Objects /\ locked[cur] = o
        /\ lockedCount[cur] = 1 /\ mutex[o].counter = 0
        /\ mutex' = [mutex EXCEPT ![o] = [counter |-> 1, owner |-> cur]]
        /\ \A t \in Threads : WaitsForLock(t)' <=> WaitsForLock(t) /\ t # cur
    BY <1>1, WaiterFacts, GrantSteps
  <2> HIDE DEF o
  <2>2. mutex'[o] = [counter |-> 1, owner |-> cur] /\ \A p \in Objects : p # o => mutex'[p] = mutex[p]
    BY <2>1 DEF TypeOK
  <2>3. ASSUME NEW t \in threadtab, lockedCount[t] > 0, ~WaitsForLock(t)'
        PROVE  mutex'[locked[t]] = [counter |-> lockedCount[t], owner |-> t]
    <3>1. CASE t = cur
      BY <2>1, <2>2, <3>1
    <3>2. CASE t # cur
      <4>1. mutex[locked[t]] = [counter |-> lockedCount[t], owner |-> t]
            /\ t \in Threads /\ locked[t] # Null
        BY <1>0, <2>1, <2>3, <3>2 DEF Counted, LockedMeansHeld
      <4>2. locked[t] # o
        BY <2>1, <2>3, <4>1
      <4>3. locked[t] \in Objects
        BY <4>1 DEF TypeOK
      <4> QED BY <2>2, <4>1, <4>2, <4>3
    <3> QED BY <3>1, <3>2
  <2>4. LockedMeansHeld'
    BY <1>0, <2>3 DEF LockedMeansHeld
  <2>5. Counted'
    BY <1>0, <2>1, <2>4 DEF Counted
  <2> QED BY <1>0, <2>5, MonitorParts DEF RunnerFree
<1>2. CASE ~Lockable(mutex[o], cur)
  <2>1. UNCHANGED <<locks, queue, ctx>>
    BY <1>0, <1>2 DEF RetryLock, locks
  <2>2. Counted'
    BY <1>0, <2>1, NobodyMoved, CountedFrame
  <2> QED BY <1>0, <2>2, MonitorParts DEF RunnerFree
<1> QED BY <1>1, <1>2

\* What the running thread has locked is what it holds, as often.
LEMMA HolderFacts ==
    ASSUME TypeOK, QueueInv, LockInv, MonitorInv, cur \in threadtab, ~WaitsForLock(cur)
    PROVE  /\ cur \in Threads /\ lockedCount[cur] \in Nat
           /\ lockedCount[cur] > 0 => /\ locked[cur] \in Objects
                                     /\ mutex[locked[cur]] = [counter |-> lockedCount[cur], owner |-> cur]
           /\ lockedCount[cur] = 0 => locked[cur] = Null
           /\ \A o \in Objects : mutex[o].owner = cur <=> lockedCount[cur] > 0 /\ locked[cur] = o
<1>1. /\ cur \in Threads /\ lockedCount[cur] \in Nat /\ locked[cur] \in Objects \cup {Null}
  BY ThreadsAssumption DEF TypeOK
<1>2. lockedCount[cur] > 0 =>
        /\ locked[cur] \in Objects
        /\ mutex[locked[cur]] = [counter |-> lockedCount[cur], owner |-> cur]
  BY <1>1 DEF MonitorInv, LockedMeansHeld
<1>3. lockedCount[cur] = 0 => locked[cur] = Null
  BY <1>1 DEF MonitorInv
<1>4. \A o \in Objects : mutex[o].owner = cur => lockedCount[cur] > 0 /\ locked[cur] = o
  <2> SUFFICES ASSUME NEW o \in Objects, mutex[o].owner = cur
               PROVE  lockedCount[cur] > 0 /\ locked[cur] = o
    OBVIOUS
  <2>1. mutex[o].counter > 0 /\ locked[cur] = o /\ mutex[o].counter <= lockedCount[cur]
        /\ mutex[o].counter \in Nat
    BY <1>1, LockFacts DEF Mutexes
  <2> QED BY <1>1, <2>1
<1> QED BY <1>1, <1>2, <1>3, <1>4

\* Who asks for a lock holds it as often as counted, or nothing at all.
LEMMA AskFacts ==
    ASSUME TypeOK, QueueInv, LockInv, MonitorInv, NEW o \in Objects, LockObj(o)
    PROVE  /\ Lockable(mutex[o], cur) => mutex[o].counter = lockedCount[cur]
           /\ ~Lockable(mutex[o], cur) => /\ lockedCount[cur] = 0
                                         /\ \A p \in Objects : mutex[p].owner # cur
<1>1. cur \in threadtab /\ ~WaitsForLock(cur)
  BY RunnerWaitsNot DEF LockObj, Instr
<1>2. /\ cur \in Threads /\ lockedCount[cur] \in Nat
      /\ lockedCount[cur] > 0 => mutex[locked[cur]] = [counter |-> lockedCount[cur], owner |-> cur]
      /\ \A p \in Objects : mutex[p].owner = cur => lockedCount[cur] > 0
  BY <1>1, HolderFacts
<1>3. lockedCount[cur] > 0 => locked[cur] = o
  BY DEF LockObj, HoldsAnother
<1>4. lockedCount[cur] > 0 =>
        Lockable(mutex[o], cur) /\ mutex[o].counter = lockedCount[cur]
  BY <1>2, <1>3 DEF Lockable
<1>5. lockedCount[cur] = 0 => (Lockable(mutex[o], cur) => mutex[o].counter = 0)
  BY <1>2 DEF Lockable
<1> QED BY <1>2, <1>4, <1>5

\* Locking, granted or not, keeps the counts; under UndisturbedWaiters no
\* thread that is dying goes to wait.
LEMMA LockObjMonitor ==
    ASSUME UndisturbedWaiters, TypeOK, QueueInv, LockInv, MonitorInv,
           NEW o \in Objects, LockObj(o)
    PROVE  MonitorInv'
<1>0. /\ Counted /\ threadtab \subseteq Threads /\ UNCHANGED <<threadtab, vmState, sweep>>
      /\ cur \in Threads /\ cur \in threadtab /\ ~WaitsForLock(cur) /\ o # Null
      /\ locked \in [Threads -> Objects \cup {Null}]
      /\ lockedCount \in [Threads -> 0..MaxDepth] /\ lockedCount[cur] \in Nat
      /\ queue \in [Threads -> Queues \cup {"none"}] /\ ctx \in [Threads -> Contexts]
  BY MonitorParts, RunnerWaitsNot, ThreadsAssumption DEF LockObj, Instr, TypeOK, registry
<1>1. /\ locked' = [locked EXCEPT ![cur] = o]
      /\ lockedCount' = [lockedCount EXCEPT ![cur] = @ + 1]
  BY DEF LockObj
<1>2. \A t \in Threads : t # cur =>
        locked'[t] = locked[t] /\ lockedCount'[t] = lockedCount[t]
  BY <1>0, <1>1
<1>3. locked'[cur] = o /\ lockedCount'[cur] = lockedCount[cur] + 1
  BY <1>0, <1>1
<1>4. CASE Lockable(mutex[o], cur)
  <2>1. /\ mutex' = [mutex EXCEPT ![o] = Locked(@, cur)] /\ UNCHANGED <<queue, ctx>>
        /\ mutex[o].counter = lockedCount[cur]
    BY <1>4, AskFacts DEF LockObj, queues
  <2>2. /\ mutex'[o] = [counter |-> lockedCount[cur] + 1, owner |-> cur]
        /\ \A p \in Objects : p # o => mutex'[p] = mutex[p]
    BY <2>1 DEF TypeOK, Locked
  <2>3. \A t \in Threads : WaitsForLock(t)' <=> WaitsForLock(t)
    BY <2>1 DEF WaitsForLock
  <2>4. ASSUME NEW t \in threadtab, lockedCount'[t] > 0, ~WaitsForLock(t)'
        PROVE  mutex'[locked'[t]] = [counter |-> lockedCount'[t], owner |-> t]
    <3>1. CASE t = cur
      BY <1>3, <2>2, <3>1
    <3>2. CASE t # cur
      <4>1. mutex[locked[t]] = [counter |-> lockedCount[t], owner |-> t] /\ locked[t] \in Objects
            /\ lockedCount[t] > 0
        BY <1>0, <1>2, <2>3, <2>4, <3>2 DEF Counted, LockedMeansHeld
      <4>2. locked[t] # o
        BY <1>0, <1>4, <2>1, <3>2, <4>1 DEF Lockable
      <4> QED BY <1>0, <1>2, <2>2, <3>2, <4>1, <4>2
    <3> QED BY <3>1, <3>2
  <2>5. LockedMeansHeld'
    BY <1>0, <2>4 DEF LockedMeansHeld
  <2>6. Counted'
    BY <1>0, <1>2, <1>3, <2>3, <2>5 DEF Counted
  <2>7. RunnerFree
    BY <1>0, <2>3 DEF RunnerFree, sweep, WaitsForLock
  <2> QED BY <2>6, <2>7, MonitorParts
<1>5. CASE ~Lockable(mutex[o], cur)
  <2>1. /\ mutex' = mutex /\ BlockThread(cur, "locking", o) /\ lockedCount[cur] = 0
        /\ vmState[cur] # "dying"
    BY <1>5, AskFacts DEF LockObj
  <2>2. /\ queue' = [queue EXCEPT ![cur] = "block"]
        /\ ctx' = [ctx EXCEPT ![cur] = [kind |-> "locking", on |-> o]]
    BY <2>1 DEF BlockThread, Enqueued
  <2>3. \A t \in Threads : WaitsForLock(t)' <=> WaitsForLock(t) \/ t = cur
    BY <1>0, <2>2 DEF WaitsForLock
  <2>4. LockedMeansHeld'
    BY <1>0, <1>2, <2>1, <2>3 DEF Counted, LockedMeansHeld
  <2>5. Counted'
    BY <1>0, <1>2, <1>3, <2>1, <2>3, <2>4 DEF Counted
  <2> QED BY <1>0, <2>1, <2>5 DEF MonitorInv, Counted, sweep
<1> QED BY <1>4, <1>5

\* The end of a thread that waits for no lock leaves the waiters alone.
LEMMA NobodyElse ==
    ASSUME TypeOK, cur \in Threads, ~WaitsForLock(cur), Reap
    PROVE  SameWaiters
<1>1. /\ queue' = [queue EXCEPT ![cur] = "none"] /\ ctx' = [ctx EXCEPT ![cur] = NoContext]
      /\ queue \in [Threads -> Queues \cup {"none"}] /\ ctx \in [Threads -> Contexts]
  BY DEF Reap, TypeOK
<1> QED BY <1>1 DEF SameWaiters, WaitsForLock

\* What the running thread unlocks it holds, and the mutex counts with it.
LEMMA ReleaseSteps ==
    ASSUME TypeOK, QueueInv, LockInv, MonitorInv, NEW o \in Objects, UnlockObj(o)
    PROVE  /\ cur \in threadtab /\ cur \in Threads /\ ~WaitsForLock(cur)
           /\ lockedCount[cur] \in Nat /\ lockedCount[cur] > 0 /\ locked[cur] = o
           /\ mutex[o] = [counter |-> lockedCount[cur], owner |-> cur]
           /\ mutex' = [mutex EXCEPT ![o] = IF lockedCount[cur] = 1 THEN Unheld
                          ELSE [counter |-> lockedCount[cur] - 1, owner |-> cur]]
<1>1. cur \in threadtab /\ ~WaitsForLock(cur) /\ locked[cur] = o /\ o # Null
      /\ mutex' = [mutex EXCEPT ![o] = Unlocked(mutex[o])]
  BY RunnerWaitsNot, ThreadsAssumption DEF UnlockObj, Instr
<1>2. /\ cur \in Threads /\ lockedCount[cur] \in Nat /\ lockedCount[cur] > 0
      /\ mutex[o] = [counter |-> lockedCount[cur], owner |-> cur]
  BY <1>1, HolderFacts
<1> DEFINE n == lockedCount[cur]
<1>3. Unlocked([counter |-> n, owner |-> cur]) =
        IF n = 1 THEN Unheld ELSE [counter |-> n - 1, owner |-> cur]
  <2> HIDE DEF n
  <2>1. n \in Nat /\ n > 0
    BY <1>2 DEF n
  <2>2. n - 1 <= 0 <=> n = 1
    BY <2>1
  <2> QED BY <2>2 DEF Unlocked
<1> QED BY <1>1, <1>2, <1>3

\* Unlocking keeps the counts of the thread and of the mutex equal.
LEMMA UnlockObjMonitor ==
    ASSUME TypeOK, QueueInv, LockInv, MonitorInv, NEW o \in Objects, UnlockObj(o)
    PROVE  MonitorInv'
<1>0. /\ Counted /\ threadtab \subseteq Threads /\ UNCHANGED <<threadtab, queue, ctx>> /\ cur' = cur
      /\ o # Null /\ locked \in [Threads -> Objects \cup {Null}]
      /\ lockedCount \in [Threads -> 0..MaxDepth]
  BY MonitorParts, ThreadsAssumption DEF UnlockObj, Instr, TypeOK, registry, queues, sweep
<1>1. /\ cur \in Threads /\ ~WaitsForLock(cur) /\ lockedCount[cur] \in Nat
      /\ lockedCount[cur] > 0 /\ locked[cur] = o
      /\ mutex[o] = [counter |-> lockedCount[cur], owner |-> cur]
      /\ mutex' = [mutex EXCEPT ![o] = IF lockedCount[cur] = 1 THEN Unheld
                     ELSE [counter |-> lockedCount[cur] - 1, owner |-> cur]]
  BY ReleaseSteps
<1>2. \A t \in Threads : t # cur =>
        locked'[t] = locked[t] /\ lockedCount'[t] = lockedCount[t]
  BY <1>0 DEF UnlockObj
<1>3. /\ lockedCount'[cur] = lockedCount[cur] - 1
      /\ locked'[cur] = IF lockedCount[cur] = 1 THEN Null ELSE o
  BY <1>0, <1>1 DEF UnlockObj
<1>4. \A t \in Threads : WaitsForLock(t)' <=> WaitsForLock(t)
  BY <1>0 DEF WaitsForLock
<1>5. /\ lockedCount[cur] # 1 => mutex'[o] = [counter |-> lockedCount[cur] - 1, owner |-> cur]
      /\ \A p \in Objects : p # o => mutex'[p] = mutex[p]
  BY <1>1 DEF TypeOK
<1>6. ASSUME NEW t \in threadtab, lockedCount'[t] > 0, ~WaitsForLock(t)'
      PROVE  mutex'[locked'[t]] = [counter |-> lockedCount'[t], owner |-> t]
  <2>1. CASE t = cur
    <3>1. lockedCount[cur] # 1
      BY <1>3, <1>6, <2>1
    <3> QED BY <1>3, <1>5, <2>1, <3>1
  <2>2. CASE t # cur
    <3>1. mutex[locked[t]] = [counter |-> lockedCount[t], owner |-> t] /\ locked[t] \in Objects
      BY <1>0, <1>2, <1>4, <1>6, <2>2 DEF Counted, LockedMeansHeld
    <3>2. locked[t] # o
      BY <1>1, <2>2, <3>1
    <3> QED BY <1>0, <1>2, <1>5, <2>2, <3>1, <3>2
  <2> QED BY <2>1, <2>2
<1>7. LockedMeansHeld'
  BY <1>0, <1>6 DEF LockedMeansHeld
<1>8. Counted'
  BY <1>0, <1>1, <1>2, <1>3, <1>4, <1>7 DEF Counted
<1>9. RunnerFree
  BY <1>0, <1>1, <1>4 DEF RunnerFree, WaitsForLock
<1> QED BY <1>8, <1>9, MonitorParts

\* A new thread has counted nothing.
LEMMA ForkMonitor ==
    ASSUME TypeOK, QueueInv, MonitorInv, NEW s, Fork(s)
    PROVE  MonitorInv' /\ SameWaiters
<1>1. /\ nextNumber \in Threads /\ threadtab' = threadtab \cup {nextNumber}
      /\ threadtab \subseteq Threads /\ UNCHANGED <<locks, ctx>> /\ cur' = cur
      /\ queue' = [queue EXCEPT ![nextNumber] = "run"]
      /\ queue \in [Threads -> Queues \cup {"none"}]
  BY DEF Fork, TypeOK, Instr, sweep
<1>2. queue[nextNumber] = "none"
  <2>1. nextNumber \notin threadtab
    BY DEF QueueInv, TypeOK
  <2> QED BY <1>1, <2>1 DEF QueueInv, QueuesPartition
<1>3. SameWaiters
  BY <1>1, <1>2 DEF SameWaiters, WaitsForLock
<1>4. Counted'
  BY <1>1, <1>3, MonitorParts, CountedFrame
<1>5. RunnerFree
  BY <1>1, <1>3, RunnerWaitsNot DEF Fork, Instr, RunnerFree, SameWaiters
<1> QED BY <1>3, <1>4, <1>5, MonitorParts

\* A thread that ends waits for nothing; its locks are free afterwards, and no
\* other lock has changed.
LEMMA EndSteps ==
    ASSUME TypeOK, QueueInv, LockInv, MonitorInv, Reap
    PROVE  /\ cur \in threadtab /\ cur \in Threads /\ ~WaitsForLock(cur)
           /\ mutex' = [o \in Objects |-> IF mutex[o].owner = cur THEN Unheld ELSE mutex[o]]
           /\ SameWaiters
<1>1. cur \in threadtab /\ cur \in Threads /\ phase = "run" /\ cur # 0
  BY CurrentLive DEF Reap
<1>2. ~WaitsForLock(cur)
  BY <1>1 DEF MonitorInv, Reap, Ended
<1>3. /\ lockedCount[cur] \in Nat
      /\ lockedCount[cur] > 0 => mutex[locked[cur]] = [counter |-> lockedCount[cur], owner |-> cur]
      /\ lockedCount[cur] = 0 => locked[cur] = Null
      /\ \A o \in Objects : mutex[o].owner = cur <=> lockedCount[cur] > 0 /\ locked[cur] = o
  BY <1>1, <1>2, HolderFacts
<1>4. /\ mutex \in [Objects -> Mutexes] /\ mutex' = LocksGivenUp(cur)
      /\ locked[cur] \in Objects \cup {Null} /\ Null \notin Objects
  BY <1>1, ThreadsAssumption DEF Reap, TypeOK, Mutexes
<1>5. CASE lockedCount[cur] = 0
  <2>1. \A o \in Objects : mutex[o].owner # cur
    BY <1>3, <1>5
  <2>2. mutex' = mutex
    BY <1>3, <1>4, <1>5 DEF LocksGivenUp
  <2>3. mutex = [o \in Objects |-> IF mutex[o].owner = cur THEN Unheld ELSE mutex[o]]
    BY <1>4, <2>1
  <2> QED BY <1>1, <1>2, <1>4, <2>2, <2>3, NobodyElse
<1>6. CASE lockedCount[cur] > 0
  <2>1. locked[cur] # Null /\ locked[cur] \in Objects
    BY <1>1, <1>4, <1>6 DEF MonitorInv
  <2>2. UnlockedTimes(mutex[locked[cur]], lockedCount[cur]) = Unheld
    BY <1>3, <1>6 DEF UnlockedTimes
  <2>3. mutex' = [mutex EXCEPT ![locked[cur]] = Unheld]
    BY <1>4, <2>1, <2>2 DEF LocksGivenUp
  <2>4. [mutex EXCEPT ![locked[cur]] = Unheld] =
          [o \in Objects |-> IF mutex[o].owner = cur THEN Unheld ELSE mutex[o]]
    BY <1>3, <1>4, <1>6, <2>1
  <2> QED BY <1>1, <1>2, <2>3, <2>4, NobodyElse
<1> QED BY <1>3, <1>5, <1>6

\* The end of a thread takes its count along.
LEMMA ReapMonitor ==
    ASSUME TypeOK, QueueInv, LockInv, MonitorInv, Reap
    PROVE  MonitorInv'
<1>1. /\ Counted /\ threadtab \subseteq Threads /\ threadtab' = threadtab \ {cur}
      /\ locked' = [locked EXCEPT ![cur] = Null]
      /\ lockedCount' = [lockedCount EXCEPT ![cur] = 0]
      /\ queue' = [queue EXCEPT ![cur] = "none"]
      /\ phase = "run" /\ cur # 0 /\ Advance("run")
      /\ locked \in [Threads -> Objects \cup {Null}]
      /\ lockedCount \in [Threads -> 0..MaxDepth]
      /\ queue \in [Threads -> Queues \cup {"none"}]
  BY MonitorParts DEF Reap, TypeOK
<1>2. /\ cur \in threadtab /\ cur \in Threads /\ SameWaiters
      /\ mutex' = [o \in Objects |-> IF mutex[o].owner = cur THEN Unheld ELSE mutex[o]]
  BY EndSteps
<1>3. ASSUME NEW t \in threadtab', lockedCount'[t] > 0, ~WaitsForLock(t)'
      PROVE  mutex'[locked'[t]] = [counter |-> lockedCount'[t], owner |-> t]
  <2>1. t \in threadtab /\ t # cur /\ t \in Threads
    BY <1>1, <1>3
  <2>2. locked'[t] = locked[t] /\ lockedCount'[t] = lockedCount[t] /\ ~WaitsForLock(t)
    BY <1>1, <1>2, <1>3, <2>1 DEF SameWaiters
  <2>3. mutex[locked[t]] = [counter |-> lockedCount[t], owner |-> t] /\ locked[t] # Null
    BY <1>1, <1>3, <2>1, <2>2 DEF Counted, LockedMeansHeld
  <2>4. locked[t] \in Objects
    BY <1>1, <2>1, <2>3
  <2> QED BY <1>2, <2>1, <2>2, <2>3, <2>4
<1>4. LockedMeansHeld'
  BY <1>3 DEF LockedMeansHeld
<1>5. \A t \in Threads : /\ lockedCount'[t] > 0 <=> locked'[t] # Null
                         /\ t \notin threadtab' => lockedCount'[t] = 0
                         /\ WaitsForLock(t)' => lockedCount'[t] = 1
  <2>1. \A t \in Threads : WaitsForLock(t)' => t # cur
    BY <1>1, <1>2 DEF WaitsForLock
  <2>2. lockedCount'[cur] = 0 /\ locked'[cur] = Null
    BY <1>1, <1>2
  <2> QED BY <1>1, <1>2, <2>1, <2>2 DEF Counted, SameWaiters
<1>6. Counted'
  BY <1>4, <1>5 DEF Counted
<1>7. RunnerFree
  BY <1>1, <1>2, NextRunnerFree
<1> QED BY <1>6, <1>7, MonitorParts

\* The invariant of the counts is inductive, given types, queues and locks.
LEMMA MonitorStep ==
    ASSUME UndisturbedWaiters, TypeOK, QueueInv, LockInv, MonitorInv, [Next]_vars
    PROVE  MonitorInv'
<1>1. CASE Quiet
  <2>1. Counted'
    BY <1>1, MonitorParts, CountedFrame DEF Quiet, TypeOK
  <2>2. CASE RunnerFree
    BY <2>1, <2>2, MonitorParts
  <2>3. CASE SameRunner
    BY <1>1, <2>1, <2>3 DEF MonitorInv, Counted, Quiet, SameWaiters, SameRunner, sweep, TypeOK
  <2> QED BY <1>1, <2>2, <2>3 DEF Quiet
<1> QED
  BY <1>1, StepKinds, RetryLockMonitor, LockObjMonitor, UnlockObjMonitor, ForkMonitor, ReapMonitor

\* As long as no thread dies while it waits for a lock, thread and mutex agree
\* on every lock at every step, whoever wakes, kills or unblocks whom.
THEOREM CountsAgree == ASSUME UndisturbedWaiters PROVE Spec => []MonitorInv
<1>1. Init => IndInv /\ MonitorInv
  BY IndInit, MonitorInit
<1>2. IndInv /\ MonitorInv /\ [Next]_vars => (IndInv /\ MonitorInv)'
  BY IndStep, MonitorStep DEF IndInv
<1> QED BY <1>1, <1>2, PTL DEF Spec

\* What vm.h says of vm_locked: a thread that has counted a lock, and does not
\* wait for it, is the owner in the mutex, with the same count.
THEOREM LockedIsHeld == ASSUME UndisturbedWaiters PROVE Spec => []LockedMeansHeld
<1>1. MonitorInv => LockedMeansHeld
  BY DEF MonitorInv
<1> QED BY <1>1, CountsAgree, PTL

-----------------------------------------------------------------------------
(* The refinement: threads and mutexes implement LockMonitor.              *)

\* Unchanged mutexes and waiters are unchanged in the monitor.
LEMMA MappedFrame ==
    /\ UNCHANGED mutex => UNCHANGED <<Holders, Depths>>
    /\ SameWaiters => UNCHANGED WaitersOf
<1>1. UNCHANGED mutex => UNCHANGED <<Holders, Depths>>
  BY DEF Holders, Depths
<1>2. ASSUME SameWaiters PROVE UNCHANGED WaitersOf
  <2>1. ASSUME NEW o \in Objects
        PROVE  {t \in Threads : WaitsForLock(t)' /\ ctx'[t].on = o} =
               {t \in Threads : WaitsForLock(t) /\ ctx[t].on = o}
    BY <1>2 DEF SameWaiters
  <2> QED BY <2>1 DEF WaitersOf
<1> QED BY <1>1, <1>2

\* One mutex given to another owner, or to none.
LEMMA MappedMutex ==
    ASSUME TypeOK, NEW o \in Objects, NEW n, NEW t,
           mutex' = [mutex EXCEPT ![o] = [counter |-> n, owner |-> t]]
    PROVE  /\ Holders' = [Holders EXCEPT ![o] = t]
           /\ Depths' = [Depths EXCEPT ![o] = n]
<1>1. /\ mutex'[o] = [counter |-> n, owner |-> t]
      /\ \A p \in Objects : p # o => mutex'[p] = mutex[p]
  BY DEF TypeOK
<1>2. \A p \in Objects : /\ mutex'[p].owner = IF p = o THEN t ELSE mutex[p].owner
                         /\ mutex'[p].counter = IF p = o THEN n ELSE mutex[p].counter
  BY <1>1
<1>3. Holders' = [p \in Objects |-> IF p = o THEN t ELSE Holders[p]]
  BY <1>2 DEF Holders
<1>4. Depths' = [p \in Objects |-> IF p = o THEN n ELSE Depths[p]]
  BY <1>2 DEF Depths
<1>5. Holders = [p \in Objects |-> Holders[p]] /\ Depths = [p \in Objects |-> Depths[p]]
  BY DEF Holders, Depths
<1> HIDE DEF Holders, Depths
<1> QED BY <1>3, <1>4, <1>5

\* What a live thread does to a lock is a step of the monitor.
LEMMA MonitorSteps ==
    ASSUME NEW t \in threadtab, NEW o \in Objects
    PROVE  Monitor!Acquire(t, o) \/ Monitor!Wait(t, o) \/ Monitor!Release(t, o) => Monitor!Next
BY Zenon DEF Monitor!Next

\* The initial states have all locks free and nobody waiting.
LEMMA MapInit == Init => Monitor!Init
<1> SUFFICES ASSUME Init PROVE Monitor!Init
  OBVIOUS
<1>1. /\ mutex = [o \in Objects |-> Unheld] /\ ctx = [t \in Threads |-> NoContext]
      /\ threadtab \subseteq Threads
  BY TypeInit DEF Init, TypeOK
<1>2. \A t \in Threads : ~WaitsForLock(t)
  BY <1>1 DEF WaitsForLock, NoContext
<1>3. Holders = [o \in Objects |-> NoThread] /\ Depths = [o \in Objects |-> 0]
  BY <1>1 DEF Holders, Depths, Unheld
<1>4. WaitersOf = [o \in Objects |-> {}]
  <2>1. \A o \in Objects : {t \in Threads : WaitsForLock(t) /\ ctx[t].on = o} = {}
    BY <1>2
  <2> QED BY <2>1 DEF WaitersOf
<1> QED BY <1>1, <1>3, <1>4 DEF Monitor!Init

\* A waiter that is granted its lock acquires it; one that is not does nothing.
LEMMA MapRetryLock ==
    ASSUME TypeOK, QueueInv, LockInv, MonitorInv, RetryLock
    PROVE  [Monitor!Next]_Monitor!vars
<1> DEFINE o == ctx[cur].on
<1>0. UNCHANGED <<threadtab, ctx>>
  BY DEF RetryLock, registry
<1>1. CASE Lockable(mutex[o], cur)
  <2>1. /\ cur \in threadtab /\ cur \in Threads /\ o \in Objects /\ mutex[o].counter = 0
        /\ mutex' = [mutex EXCEPT ![o] = [counter |-> 1, owner |-> cur]]
        /\ \A t \in Threads : WaitsForLock(t)' <=> WaitsForLock(t) /\ t # cur
    BY <1>1, WaiterFacts, GrantSteps
  <2> HIDE DEF o
  <2>2. Holders' = [Holders EXCEPT ![o] = cur] /\ Depths' = [Depths EXCEPT ![o] = 1]
    BY <2>1, MappedMutex
  <2>3. Depths[o] = 0 /\ MaxDepth \in Nat /\ MaxDepth > 0
    BY <2>1, ThreadsAssumption DEF Depths
  <2>4. WaitersOf' = [WaitersOf EXCEPT ![o] = @ \ {cur}]
    <3>1. ASSUME NEW p \in Objects
          PROVE  {t \in Threads : WaitsForLock(t)' /\ ctx'[t].on = p} =
                 IF p = o THEN {t \in Threads : WaitsForLock(t) /\ ctx[t].on = p} \ {cur}
                 ELSE {t \in Threads : WaitsForLock(t) /\ ctx[t].on = p}
      BY <1>0, <2>1 DEF o
    <3> QED BY <3>1, ZenonT(60) DEF WaitersOf
  <2>5. Monitor!Acquire(cur, o)
    BY <1>0, <2>2, <2>3, <2>4 DEF Monitor!Acquire, Monitor!Free
  <2> QED BY <2>1, <2>5, MonitorSteps
<1>2. CASE ~Lockable(mutex[o], cur)
  <2>1. UNCHANGED <<mutex, queue>>
    BY <1>2 DEF RetryLock
  <2>2. UNCHANGED <<Holders, Depths, WaitersOf>>
    BY <1>0, <2>1, NobodyMoved, MappedFrame
  <2> QED BY <1>0, <2>2 DEF Monitor!vars
<1> QED BY <1>1, <1>2

\* lockObjFun acquires the lock or waits for it.
LEMMA MapLockObj ==
    ASSUME TypeOK, QueueInv, LockInv, MonitorInv, NEW o \in Objects, LockObj(o)
    PROVE  Monitor!Next
<1>1. /\ cur \in threadtab /\ cur \in Threads /\ ~WaitsForLock(cur) /\ threadtab' = threadtab
      /\ lockedCount[cur] < MaxDepth /\ mutex[o] \in Mutexes
  BY RunnerWaitsNot DEF LockObj, Instr, registry, TypeOK, Mutexes
<1>2. CASE Lockable(mutex[o], cur)
  <2>1. /\ mutex' = [mutex EXCEPT ![o] = [counter |-> mutex[o].counter + 1, owner |-> cur]]
        /\ UNCHANGED <<queue, ctx>> /\ mutex[o].counter = lockedCount[cur]
    BY <1>2, AskFacts DEF LockObj, queues, Locked
  <2>2. Holders' = [Holders EXCEPT ![o] = cur] /\ Depths' = [Depths EXCEPT ![o] = @ + 1]
    <3>1. Depths[o] = mutex[o].counter
      BY DEF Depths
    <3>2. Holders' = [Holders EXCEPT ![o] = cur] /\ Depths' = [Depths EXCEPT ![o] = mutex[o].counter + 1]
      BY <2>1, MappedMutex
    <3> QED BY <3>1, <3>2 DEF Depths
  <2>3. (Depths[o] = 0 \/ Holders[o] = cur) /\ Depths[o] < MaxDepth
    BY <1>1, <1>2, <2>1 DEF Lockable, Holders, Depths
  <2>4. WaitersOf' = [WaitersOf EXCEPT ![o] = @ \ {cur}]
    <3>1. WaitersOf' = WaitersOf
      BY <2>1, NobodyMoved, MappedFrame
    <3>2. WaitersOf[o] \ {cur} = WaitersOf[o]
      BY <1>1 DEF WaitersOf
    <3>3. [WaitersOf EXCEPT ![o] = WaitersOf[o]] = WaitersOf
      BY DEF WaitersOf
    <3> QED BY <3>1, <3>2, <3>3
  <2>5. Monitor!Acquire(cur, o)
    BY <1>1, <2>2, <2>3, <2>4 DEF Monitor!Acquire, Monitor!Free
  <2> QED BY <1>1, <2>5, MonitorSteps
<1>3. CASE ~Lockable(mutex[o], cur)
  <2>1. /\ mutex' = mutex /\ BlockThread(cur, "locking", o)
        /\ \A p \in Objects : mutex[p].owner # cur
    BY <1>3, AskFacts DEF LockObj
  <2>2. Depths[o] # 0 /\ \A p \in Objects : Holders[p] # cur /\ cur \notin WaitersOf[p]
    BY <1>1, <1>3, <2>1 DEF Depths, Holders, WaitersOf, Lockable
  <2>3. WaitersOf' = [WaitersOf EXCEPT ![o] = @ \cup {cur}]
    <3>1. /\ queue' = [queue EXCEPT ![cur] = "block"]
          /\ ctx' = [ctx EXCEPT ![cur] = [kind |-> "locking", on |-> o]]
          /\ queue \in [Threads -> Queues \cup {"none"}] /\ ctx \in [Threads -> Contexts]
      BY <2>1 DEF BlockThread, Enqueued, TypeOK
    <3>2. ASSUME NEW p \in Objects
          PROVE  {t \in Threads : WaitsForLock(t)' /\ ctx'[t].on = p} =
                 IF p = o THEN {t \in Threads : WaitsForLock(t) /\ ctx[t].on = p} \cup {cur}
                 ELSE {t \in Threads : WaitsForLock(t) /\ ctx[t].on = p}
      BY <1>1, <3>1 DEF WaitsForLock
    <3> QED BY <3>2, ZenonT(60) DEF WaitersOf
  <2>4. UNCHANGED <<Holders, Depths>>
    BY <2>1, MappedFrame
  <2>5. Monitor!Wait(cur, o)
    BY <1>1, <2>2, <2>3, <2>4 DEF Monitor!Wait, Monitor!Free
  <2> QED BY <1>1, <2>5, MonitorSteps
<1> QED BY <1>2, <1>3

\* unlockObjFun releases what the thread holds, once.
LEMMA MapUnlockObj ==
    ASSUME TypeOK, QueueInv, LockInv, MonitorInv, NEW o \in Objects, UnlockObj(o)
    PROVE  Monitor!Next
<1> DEFINE n == lockedCount[cur]
<1>1. /\ cur \in threadtab /\ n \in Nat /\ n > 0 /\ mutex[o] = [counter |-> n, owner |-> cur]
      /\ mutex' = [mutex EXCEPT ![o] = IF n = 1 THEN Unheld ELSE [counter |-> n - 1, owner |-> cur]]
  BY ReleaseSteps
<1>2. UNCHANGED <<threadtab, queue, ctx>>
  BY DEF UnlockObj, registry, queues
<1> HIDE DEF n
<1>3. mutex' = [mutex EXCEPT ![o] = [counter |-> n - 1, owner |-> IF n = 1 THEN NoThread ELSE cur]]
  <2>1. CASE n = 1
    BY <1>1, <2>1 DEF Unheld
  <2>2. CASE n # 1
    BY <1>1, <2>2
  <2> QED BY <2>1, <2>2
<1>4. /\ Holders' = [Holders EXCEPT ![o] = IF n = 1 THEN NoThread ELSE cur]
      /\ Depths' = [Depths EXCEPT ![o] = n - 1]
  BY <1>3, MappedMutex
<1>5. Depths[o] = n /\ Holders[o] = cur
  BY <1>1 DEF Depths, Holders
<1>6. WaitersOf' = WaitersOf
  BY <1>2, NobodyMoved, MappedFrame
<1>7. Monitor!Release(cur, o)
  BY <1>1, <1>2, <1>4, <1>5, <1>6 DEF Monitor!Release, Monitor!Free
<1> QED BY <1>1, <1>7, MonitorSteps

\* fork begins a thread.
LEMMA MapFork ==
    ASSUME TypeOK, QueueInv, MonitorInv, NEW s, Fork(s)
    PROVE  Monitor!Next
<1>1. /\ nextNumber \in Threads /\ nextNumber \notin threadtab
      /\ threadtab' = threadtab \cup {nextNumber} /\ mutex' = mutex
  BY DEF Fork, QueueInv, TypeOK, locks
<1>2. UNCHANGED <<Holders, Depths, WaitersOf>>
  BY <1>1, ForkMonitor, MappedFrame
<1>3. Monitor!Begin(nextNumber)
  BY <1>1, <1>2 DEF Monitor!Begin
<1> QED BY <1>1, <1>3 DEF Monitor!Next

\* A thread that is reaped ends, and gives up what it holds.
LEMMA MapReap ==
    ASSUME TypeOK, QueueInv, LockInv, MonitorInv, Reap
    PROVE  Monitor!Next
<1>1. /\ cur \in threadtab /\ cur \in Threads /\ ~WaitsForLock(cur) /\ SameWaiters
      /\ mutex' = [o \in Objects |-> IF mutex[o].owner = cur THEN Unheld ELSE mutex[o]]
      /\ threadtab' = threadtab \ {cur}
  BY EndSteps DEF Reap
<1>2. /\ Holders' = [o \in Objects |-> IF Holders[o] = cur THEN NoThread ELSE Holders[o]]
      /\ Depths' = [o \in Objects |-> IF Holders[o] = cur THEN 0 ELSE Depths[o]]
  BY <1>1 DEF Holders, Depths, Unheld
<1>3. WaitersOf' = WaitersOf /\ \A o \in Objects : cur \notin WaitersOf[o]
  BY <1>1, MappedFrame DEF WaitersOf
<1>4. Monitor!End(cur)
  BY <1>1, <1>2, <1>3 DEF Monitor!End
<1>5. \E t \in threadtab : Monitor!End(t)
  BY <1>1, <1>4
<1> QED BY <1>5, Zenon DEF Monitor!Next

\* Every step of the server is a step of the monitor or none.
LEMMA MapStep ==
    ASSUME UndisturbedWaiters, TypeOK, QueueInv, LockInv, MonitorInv, [Next]_vars
    PROVE  [Monitor!Next]_Monitor!vars
<1>1. CASE Quiet
  <2>1. UNCHANGED <<threadtab, Holders, Depths, WaitersOf>>
    BY <1>1, MappedFrame DEF Quiet, locks
  <2> QED BY <2>1 DEF Monitor!vars
<1> QED BY <1>1, StepKinds, MapRetryLock, MapLockObj, MapUnlockObj, MapFork, MapReap

\* The promise of lock and unlock (LockMonitor), kept by lockObjFun setting the
\* lock up before it is granted, by the retries of the main loop and by the
\* unlock loop of run_run_queue: one holder, who alone releases, as often as it
\* locked; nobody waits who holds; and the end of a thread frees its lock only.
THEOREM LocksAreMonitors == ASSUME UndisturbedWaiters PROVE Spec => ImplementsMonitor
<1>1. Init => Monitor!Init
  BY MapInit
<1>2. IndInv /\ MonitorInv /\ [Next]_vars => [Monitor!Next]_Monitor!vars
  BY MapStep DEF IndInv
<1>3. Spec => []IndInv
  BY Invariance
<1>4. Spec => []MonitorInv
  BY CountsAgree
<1> QED BY <1>1, <1>2, <1>3, <1>4, PTL DEF Spec, ImplementsMonitor, Monitor!Spec

-----------------------------------------------------------------------------
(* Going to sleep in select(): PassInv.                                    *)

\* In a queue without repetitions a thread has one place.
LEMMA IndexUnique ==
    ASSUME NEW s, NEW i \in 1..Len(s), NoRepeats(s)
    PROVE  IndexIn(s, s[i]) = i
<1>1. s[i] \in InQueue(s)
  BY DEF InQueue
<1> QED BY <1>1, IndexInFinds DEF NoRepeats

\* The threads in front of the follower of c are c and those in front of c.
LEMMA FollowerPasses ==
    ASSUME NEW S, NEW s \in Seq(S), 0 \notin S, NoRepeats(s),
           NEW c \in InQueue(s), NEW t \in InQueue(s),
           Follower(s, c) = 0 \/ IndexIn(s, t) < IndexIn(s, Follower(s, c))
    PROVE  t = c \/ IndexIn(s, t) < IndexIn(s, c)
<1> DEFINE i == IndexIn(s, c)
           j == IndexIn(s, t)
<1>1. i \in 1..Len(s) /\ j \in 1..Len(s) /\ s[i] = c /\ s[j] = t /\ Len(s) \in Nat
  BY IndexInFinds
<1>2. CASE i = Len(s)
  BY <1>1, <1>2
<1>3. CASE i < Len(s)
  <2>1. Follower(s, c) = s[i + 1] /\ i + 1 \in 1..Len(s)
    BY <1>1, <1>3 DEF Follower
  <2>2. IndexIn(s, s[i + 1]) = i + 1 /\ s[i + 1] # 0
    BY <2>1, IndexUnique
  <2> HIDE DEF i, j
  <2>3. j < i + 1
    BY <2>1, <2>2 DEF j
  <2>4. j < i \/ j = i
    BY <1>1, <2>3
  <2> QED BY <1>1, <2>4 DEF i, j
<1> QED BY <1>1, <1>2, <1>3

\* So they are when c has been linked to the head of its queue again: what
\* stood behind it stays where it is.
LEMMA RequeuePasses ==
    ASSUME NEW S, NEW s \in Seq(S), 0 \notin S, NoRepeats(s), NEW p,
           NEW c \in InQueue(s), NEW t \in InQueue(s), p = PushFront(Without(s, c), c),
           Follower(s, c) = 0 \/ IndexIn(p, t) < IndexIn(p, Follower(s, c))
    PROVE  t = c \/ IndexIn(s, t) < IndexIn(s, c)
<1> DEFINE i == IndexIn(s, c)
           j == IndexIn(s, t)
           w == Without(s, c)
<1>1. /\ i \in 1..Len(s) /\ j \in 1..Len(s) /\ s[i] = c /\ s[j] = t /\ Len(s) \in Nat
      /\ c \in S
  BY IndexInFinds
<1>2. /\ w \in Seq(S) /\ Len(w) = Len(s) - 1 /\ NoRepeats(w) /\ c \notin InQueue(w)
      /\ \A k \in 1..(Len(s) - 1) : w[k] = IF k < i THEN s[k] ELSE s[k + 1]
  BY WithoutElements, WithoutLemma
<1>3. /\ NoRepeats(p) /\ Len(p) = Len(s)
      /\ \A k \in 1..(Len(s) - 1) : p[k + 1] = w[k]
  <2>1. NoRepeats(p)
    BY <1>1, <1>2, PushFrontLemma
  <2>2. <<c>> \in Seq(S) /\ Len(<<c>>) = 1
    BY <1>1
  <2> HIDE DEF w
  <2>3. /\ Len(<<c>> \o w) = Len(w) + 1
        /\ \A k \in 1..Len(w) : (<<c>> \o w)[k + 1] = w[k]
    BY <1>1, <1>2, <2>2, ConcatProperties
  <2> QED BY <1>1, <1>2, <2>1, <2>3 DEF PushFront, w
<1> HIDE DEF i, j, w
<1>4. \A k \in 1..Len(s) : k > i => p[k] = s[k]
  <2> SUFFICES ASSUME NEW k \in 1..Len(s), k > i PROVE p[k] = s[k]
    OBVIOUS
  <2>1. k - 1 \in 1..(Len(s) - 1) /\ ~(k - 1 < i) /\ (k - 1) + 1 = k
    BY <1>1
  <2> QED BY <1>2, <1>3, <2>1
<1>5. \A k \in 1..Len(s) : k > i => IndexIn(p, s[k]) = k
  BY <1>3, <1>4, IndexUnique
<1>6. CASE j <= i
  <2>1. j < i \/ j = i
    BY <1>1, <1>6
  <2> QED BY <1>1, <2>1 DEF i, j
<1>7. CASE j > i
  <2>1. i < Len(s) /\ i + 1 \in 1..Len(s) /\ i + 1 > i
    BY <1>1, <1>7
  <2>2. Follower(s, c) = s[i + 1]
    BY <2>1 DEF Follower, i
  <2>3. s[i + 1] # 0
    BY <2>1
  <2>4. IndexIn(p, t) = j /\ IndexIn(p, s[i + 1]) = i + 1
    BY <1>1, <1>5, <1>7, <2>1
  <2> QED BY <1>1, <1>7, <2>2, <2>3, <2>4
<1> QED BY <1>1, <1>6, <1>7

\* A blocked thread waits for a lock or for input.
Known(t) == queue[t] = "block" => WaitsForLock(t) \/ (WaitsForIo(t) /\ ctx[t].on \in Conns)

\* The four ways in which steps move a thread t, if they do.
Moved(t) ==
    \/ UnblockThread(t) \/ SleepThread(t)
    \/ \E kind \in IoKinds, c \in Conns : BlockThread(t, kind, c)
    \/ \E o \in Objects : BlockThread(t, "locking", o)
    \/ Enqueued(t, "run") /\ UNCHANGED ctx

\* However a thread is moved, the blocked ones still wait for one or the other.
LEMMA MovedKnown ==
    ASSUME TypeOK, \A t \in Threads : Known(t),
           UNCHANGED <<queue, ctx>> \/ \E t \in Threads : Moved(t)
    PROVE  \A t \in Threads : Known(t)'
<1>1. CASE UNCHANGED <<queue, ctx>>
  BY <1>1 DEF Known, WaitsForLock, WaitsForIo
<1>2. ASSUME NEW t \in Threads, Moved(t) PROVE \A u \in Threads : Known(u)'
  <2>1. queue \in [Threads -> Queues \cup {"none"}] /\ ctx \in [Threads -> Contexts]
    BY DEF TypeOK
  <2>2. \A u \in Threads : u # t => queue'[u] = queue[u] /\ ctx'[u] = ctx[u]
    BY <1>2, <2>1 DEF Moved, UnblockThread, SleepThread, BlockThread, Enqueued
  <2>3. Known(t)'
    <3>1. CASE UnblockThread(t) \/ SleepThread(t) \/ Enqueued(t, "run")
      BY <2>1, <3>1 DEF UnblockThread, SleepThread, Enqueued, Known
    <3>2. CASE \/ \E kind \in IoKinds, c \in Conns : BlockThread(t, kind, c)
               \/ \E o \in Objects : BlockThread(t, "locking", o)
      <4>1. /\ queue'[t] = "block"
            /\ \/ ctx'[t].kind \in IoKinds /\ ctx'[t].on \in Conns
               \/ ctx'[t].kind = "locking"
        BY <2>1, <3>2 DEF BlockThread, Enqueued
      <4> QED BY <4>1 DEF Known, WaitsForLock, WaitsForIo
    <3> QED BY <1>2, <3>1, <3>2 DEF Moved
  <2> QED BY <2>2, <2>3 DEF Known, WaitsForLock, WaitsForIo
<1> QED BY <1>1, <1>2

\* A tried I/O operation moves its thread.
LEMMA TryIoKnown ==
    ASSUME NEW t, NEW kind \in IoKinds, NEW c \in Conns, TryIo(t, kind, c)
    PROVE  Moved(t)
BY DEF TryIo, Moved

\* No step blocks a thread on anything else.
LEMMA KnownStep ==
    ASSUME TypeOK, QueueInv, \A t \in Threads : Known(t), [Next]_vars
    PROVE  \A t \in Threads : Known(t)'
<1>1. CASE Loop
  <2>1. CASE StartRound \/ SleepersDone \/ BlockedDone \/ RunDone \/ WakeFromSelect \/ SliceOver
    BY <2>1, MovedKnown
       DEF StartRound, SleepersDone, BlockedDone, RunDone, WakeFromSelect, SliceOver, queues
  <2>2. CASE ResumeSleeper
    BY <2>2, CurrentLive, MovedKnown DEF ResumeSleeper, queues, Moved
  <2>3. CASE RetryIo
    <3>1. cur \in Threads /\ WaitsForIo(cur)
      BY <2>3, CurrentLive DEF RetryIo, QueueInv, SavedNextLive, SweptQueue, WaitsForIo
    <3>2. ctx[cur].kind \in IoKinds /\ ctx[cur].on \in Conns
      BY <3>1 DEF Known, WaitsForIo, WaitsForLock, IoKinds
    <3> QED BY <2>3, <3>1, <3>2, TryIoKnown, MovedKnown DEF RetryIo
  <2>4. CASE RetryLock
    BY <2>4, CurrentLive, MovedKnown DEF RetryLock, Moved
  <2>5. CASE Reap
    <3>1. /\ queue' = [queue EXCEPT ![cur] = "none"] /\ ctx' = [ctx EXCEPT ![cur] = NoContext]
          /\ queue \in [Threads -> Queues \cup {"none"}] /\ ctx \in [Threads -> Contexts]
      BY <2>5 DEF Reap, TypeOK
    <3> QED BY <3>1 DEF Known, WaitsForLock, WaitsForIo
  <2> QED BY <1>1, <2>1, <2>2, <2>3, <2>4, <2>5 DEF Loop
<1>2. CASE Instruction
  <2>1. CASE Compute \/ QuotaExpires \/ Raise \/ Return \/ Shutdown \/ SetQuotaOfGoneThread
    BY <2>1, MovedKnown
       DEF Compute, QuotaExpires, Raise, Return, Shutdown, SetQuotaOfGoneThread, queues
  <2>2. CASE \/ \E b \in BOOLEAN : SetHandler(b)
             \/ \E o \in Objects : LockRefused(o) \/ UnlockObj(o)
             \/ \E t \in threadtab, s \in Quotas \cup {"dying"} : SetThreadQuota(t, s)
             \/ \E c \in Conns : CloseConnection(c)
    BY <2>2, MovedKnown
       DEF SetHandler, LockRefused, UnlockObj, SetThreadQuota, CloseConnection, queues
  <2>3. CASE Sleep
    BY <2>3, RunningThread, MovedKnown DEF Sleep, Instr, Moved
  <2>4. ASSUME NEW o \in Objects, LockObj(o) PROVE \A t \in Threads : Known(t)'
    BY <2>4, RunningThread, MovedKnown DEF LockObj, Instr, Moved, queues
  <2>5. ASSUME NEW s \in Quotas \cup {"dying"}, Fork(s) PROVE \A t \in Threads : Known(t)'
    <3>1. /\ queue' = [queue EXCEPT ![nextNumber] = "run"] /\ ctx' = ctx
          /\ queue \in [Threads -> Queues \cup {"none"}]
      BY <2>5 DEF Fork, TypeOK
    <3> QED BY <3>1 DEF Known, WaitsForLock, WaitsForIo
  <2>6. ASSUME NEW t \in threadtab, Kill(t) \/ ForceKill(t) PROVE \A u \in Threads : Known(u)'
    BY <2>6, MovedKnown DEF Kill, ForceKill, WakeVictim, Moved, queues, TypeOK
  <2>7. ASSUME NEW c \in Conns, ReadFrom(c) \/ AcceptConnection(c)
        PROVE  \A t \in Threads : Known(t)'
    BY <2>7, RunningThread, TryIoKnown, MovedKnown DEF ReadFrom, AcceptConnection, Instr, IoKinds
  <2> QED BY <1>2, <2>1, <2>2, <2>3, <2>4, <2>5, <2>6, <2>7, ThreadsAssumption DEF Instruction
<1>3. CASE Environment
  BY <1>3, MovedKnown DEF Environment, Alarm, InputArrives, queues
<1>4. CASE UNCHANGED vars
  BY <1>4, MovedKnown DEF vars, queues
<1> QED BY <1>1, <1>2, <1>3, <1>4 DEF Next, Done, Process

-----------------------------------------------------------------------------
(* The pass over block_q.                                                  *)

\* What PassInv says of the phases.
Pass ==
    /\ phase \in {"sleepers", "blocked", "select"} => threadtab # {}
    /\ phase = "blocked" /\ cur # 0 => next = Follower(q["block"], cur)
    /\ phase = "blocked" /\ q["run"] = << >> =>
        \A t \in threadtab : queue[t] = "block" /\ Passed(t) => Stuck(t)
    /\ phase = "select" => q["run"] = << >> /\ \A t \in threadtab : Stuck(t)

\* PassInv has these two parts.
LEMMA PassParts ==
    /\ PassInv <=> Pass /\ \A t \in Threads : Known(t)
    /\ PassInv' <=> Pass' /\ \A t \in Threads : Known(t)'
BY DEF PassInv, Pass, Known

\* A thread is linked into the queue its queue field names.
LEMMA Linked ==
    ASSUME TypeOK, QueueInv, NEW k \in Queues
    PROVE  /\ q[k] \in Seq(Threads) /\ NoRepeats(q[k])
           /\ \A t \in Threads : t \in InQueue(q[k]) <=> t \in threadtab /\ queue[t] = k
           /\ InQueue(q[k]) \subseteq Threads
BY ZenonT(60) DEF TypeOK, QueueInv, QueuesPartition

\* The pass starts with nobody behind it.
LEMMA PassStarts ==
    ASSUME TypeOK, QueueInv, Pass, SleepersDone
    PROVE  Pass'
<1>1. /\ phase' = "blocked" /\ UNCHANGED <<threadtab, q, queue>> /\ phase = "sleepers"
      /\ cur' = First(q["block"])
      /\ next' = IF q["block"] = << >> THEN 0 ELSE Follower(q["block"], First(q["block"]))
  BY DEF SleepersDone, Enter, registry, queues
<1>2. /\ q["block"] \in Seq(Threads) /\ NoRepeats(q["block"])
      /\ \A t \in Threads : t \in InQueue(q["block"]) <=> t \in threadtab /\ queue[t] = "block"
      /\ threadtab \subseteq Threads
  BY Linked DEF Queues, TypeOK
<1>3. cur' # 0 => next' = Follower(q'["block"], cur')
  BY <1>1 DEF First
<1>4. ASSUME NEW t \in threadtab, queue[t] = "block", Passed(t)' PROVE FALSE
  <2>1. t \in InQueue(q["block"]) /\ q["block"] # << >>
    BY <1>2, <1>4 DEF InQueue
  <2>2. cur' = q["block"][1] /\ cur' # 0 /\ 1 \in 1..Len(q["block"])
    BY <1>1, <1>2, <2>1, ThreadNumbers DEF First
  <2>3. IndexIn(q["block"], cur') = 1 /\ IndexIn(q["block"], t) \in 1..Len(q["block"])
    BY <1>2, <2>1, <2>2, IndexUnique, IndexInFinds
  <2>4. IndexIn(q["block"], t) < IndexIn(q["block"], cur')
    BY <1>1, <1>4, <2>2 DEF Passed
  <2> QED BY <1>2, <2>3, <2>4
<1> QED BY <1>1, <1>3, <1>4 DEF Pass

\* The thread a pass over block_q is about to retry is in block_q.
LEMMA RetriedThread ==
    ASSUME TypeOK, QueueInv, phase = "blocked", cur # 0
    PROVE  /\ cur \in threadtab /\ cur \in Threads /\ queue[cur] = "block"
           /\ cur \in InQueue(q["block"])
<1>1. cur \in threadtab /\ cur \in Threads
  BY CurrentLive
<1>2. queue[cur] = "block"
  BY DEF QueueInv, SavedNextLive, SweptQueue
<1> QED BY <1>1, <1>2, Linked DEF Queues

\* A thread that is granted its lock or gets its input is linked into run_q.
LEMMA WokenSomebody ==
    ASSUME TypeOK, NEW t \in Threads, Enqueued(t, "run")
    PROVE  q'["run"] # << >>
<1> DEFINE rest == IF "run" = queue[t] THEN Without(q["run"], t) ELSE q["run"]
<1>1. q'["run"] = PushFront(rest, t)
  BY DEF Enqueued, MoveTo, Queues
<1>2. rest \in Seq(Threads)
  BY WithoutType DEF TypeOK, Queues
<1> HIDE DEF rest
<1>3. 1 \in 1..Len(PushFront(rest, t))
  <2>1. <<t>> \in Seq(Threads) /\ Len(<<t>>) = 1 /\ Len(rest) \in Nat
    BY <1>2
  <2>2. Len(<<t>> \o rest) = 1 + Len(rest)
    BY <1>2, <2>1, ConcatProperties
  <2> QED BY <2>1, <2>2 DEF PushFront
<1> QED BY <1>1, <1>3

\* A pass that has retried its thread in vain goes on with all threads so far
\* stuck; one that has woken it need not care.
LEMMA PassGoesStuck ==
    ASSUME TypeOK, TypeOK', QueueInv, Pass, phase = "blocked", cur # 0, Advance("block"),
           UNCHANGED threadtab,
           \/ q'["run"] # << >>
           \/ /\ q'["run"] = q["run"] /\ queue' = queue
              /\ \/ q'["block"] = q["block"]
                 \/ q'["block"] = PushFront(Without(q["block"], cur), cur)
              /\ Stuck(cur)
              /\ \A t \in Threads : t # cur /\ Stuck(t) => Stuck(t)'
              /\ \A t \in Threads : t = cur => Stuck(t)'
    PROVE  Pass'
<1>1. /\ phase' = "blocked" /\ cur' = next /\ threadtab' # {} /\ threadtab \subseteq Threads
      /\ next' = IF next = 0 THEN 0 ELSE Follower(q'["block"], next)
  BY DEF Advance, Pass, TypeOK
<1>2. CASE q'["run"] # << >>
  BY <1>1, <1>2 DEF Pass
<1>3. CASE /\ q'["run"] = q["run"] /\ queue' = queue
           /\ \/ q'["block"] = q["block"]
              \/ q'["block"] = PushFront(Without(q["block"], cur), cur)
           /\ \A t \in Threads : t # cur /\ Stuck(t) => Stuck(t)'
           /\ \A t \in Threads : t = cur => Stuck(t)'
  <2>1. ASSUME NEW t \in threadtab, q["run"] = << >>, queue[t] = "block", Passed(t)'
        PROVE  Stuck(t)'
    <3> DEFINE s == q["block"]
               p == q'["block"]
    <3>1. /\ s \in Seq(Threads) /\ NoRepeats(s) /\ t \in InQueue(s) /\ cur \in InQueue(s)
          /\ 0 \notin Threads /\ t \in Threads /\ next = Follower(s, cur)
      BY <1>1, <2>1, Linked, RetriedThread, ThreadNumbers DEF Queues, Pass
    <3>2. next = 0 \/ IndexIn(p, t) < IndexIn(p, next)
      BY <1>1, <2>1 DEF Passed
    <3> HIDE DEF s, p
    <3>3. t = cur \/ IndexIn(s, t) < IndexIn(s, cur)
      <4>1. CASE p = s
        BY <3>1, <3>2, <4>1, FollowerPasses
      <4>2. CASE p = PushFront(Without(s, cur), cur)
        BY <3>1, <3>2, <4>2, RequeuePasses
      <4> QED BY <1>3, <4>1, <4>2 DEF s, p
    <3>4. t # cur => Stuck(t)
      BY <2>1, <3>3 DEF Pass, Passed, s
    <3> QED BY <1>3, <3>1, <3>4
  <2> QED BY <1>1, <1>3, <2>1 DEF Pass
<1> QED BY <1>2, <1>3

\* Retrying a reader or an acceptor.
LEMMA PassRetriesIo ==
    ASSUME TypeOK, TypeOK', QueueInv, PassInv, RetryIo
    PROVE  Pass'
<1> DEFINE c == ctx[cur].on
<1>1. /\ phase = "blocked" /\ cur # 0 /\ Advance("block") /\ UNCHANGED <<threadtab, mutex>>
      /\ ctx[cur].kind \in IoKinds /\ Pass /\ \A t \in Threads : Known(t)
      /\ TryIo(cur, ctx[cur].kind, c)
  BY PassParts DEF RetryIo, registry, locks
<1>2. cur \in Threads /\ queue[cur] = "block"
  BY <1>1, RetriedThread
<1>3. WaitsForIo(cur) /\ ~WaitsForLock(cur) /\ c \in Conns
  BY <1>1, <1>2 DEF Known, WaitsForLock, WaitsForIo, IoKinds
<1>4. CASE UnblockThread(cur)
  BY <1>1, <1>2, <1>4, WokenSomebody, PassGoesStuck DEF UnblockThread
<1>5. CASE WouldBlock(c) /\ BlockThread(cur, ctx[cur].kind, c)
  <2>1. /\ queue' = [queue EXCEPT ![cur] = "block"] /\ Enqueued(cur, "block")
        /\ ctx' = [ctx EXCEPT ![cur] = [kind |-> ctx[cur].kind, on |-> c]]
        /\ queue \in [Threads -> Queues \cup {"none"}] /\ ctx \in [Threads -> Contexts]
    BY <1>5 DEF BlockThread, Enqueued, TypeOK
  <2>2. /\ q'["run"] = q["run"]
        /\ q'["block"] = PushFront(Without(q["block"], cur), cur)
    BY <1>2, <2>1 DEF Enqueued, MoveTo, Queues
  <2>3. queue' = queue
    BY <1>2, <2>1
  <2>4. /\ conn[c] # "closed" /\ conn'[c] # "closed"
        /\ \A d \in Conns : conn[d] # "closed" => conn'[d] # "closed"
    BY <1>3, <1>5, SMTT(60) DEF WouldBlock, TypeOK
  <2>5. ctx[cur] = [kind |-> ctx[cur].kind, on |-> c]
    BY <1>2, <2>1 DEF Contexts
  <2>6. ctx' = ctx
    BY <2>1, <2>5
  <2>7. Stuck(cur)
    BY <1>3, <2>4 DEF Stuck
  <2>8. \A t \in Threads : Stuck(t) => Stuck(t)'
    <3> SUFFICES ASSUME NEW t \in Threads, Stuck(t) PROVE Stuck(t)'
      OBVIOUS
    <3>1. WaitsForLock(t)' => ~Lockable(mutex'[ctx'[t].on], t)
      BY <1>1, <2>3, <2>6 DEF Stuck, WaitsForLock
    <3>2. WaitsForIo(t)' => WaitsForIo(t) /\ ~WaitsForLock(t)
      BY <2>3, <2>6 DEF WaitsForIo, WaitsForLock, IoKinds
    <3>3. WaitsForIo(t)' => ctx[t].on \in Conns
      BY <1>1, <3>2 DEF Known, WaitsForIo
    <3>4. WaitsForIo(t)' => conn'[ctx'[t].on] # "closed"
      BY <2>4, <2>6, <3>2, <3>3 DEF Stuck
    <3> QED BY <3>1, <3>4 DEF Stuck
  <2> QED BY <1>1, <1>2, <2>2, <2>3, <2>7, <2>8, PassGoesStuck
<1> QED BY <1>1, <1>4, <1>5 DEF TryIo

\* Retrying a thread that waits for a lock.
LEMMA PassRetriesLock ==
    ASSUME TypeOK, TypeOK', QueueInv, PassInv, RetryLock
    PROVE  Pass'
<1>1. /\ phase = "blocked" /\ cur # 0 /\ Advance("block") /\ UNCHANGED <<threadtab, ctx, conn>>
      /\ ctx[cur].kind = "locking" /\ Pass
  BY PassParts DEF RetryLock, registry
<1>2. cur \in Threads /\ queue[cur] = "block"
  BY <1>1, RetriedThread
<1>3. CASE Lockable(mutex[ctx[cur].on], cur)
  <2>1. Enqueued(cur, "run")
    BY <1>3 DEF RetryLock
  <2>2. q'["run"] # << >>
    BY <1>2, <2>1, WokenSomebody
  <2> QED BY <1>1, <2>2, PassGoesStuck
<1>4. CASE ~Lockable(mutex[ctx[cur].on], cur)
  <2>1. UNCHANGED <<mutex, q, queue>>
    BY <1>4 DEF RetryLock
  <2>2. Stuck(cur)
    BY <1>1, <1>4 DEF Stuck, WaitsForIo, IoKinds
  <2>3. \A t \in Threads : Stuck(t) => Stuck(t)'
    BY <1>1, <2>1 DEF Stuck, WaitsForLock, WaitsForIo
  <2> QED BY <1>1, <1>2, <2>1, <2>2, <2>3, PassGoesStuck
<1> QED BY <1>3, <1>4

\* The pass is over: if nobody has become runnable, everybody is stuck.
LEMMA PassEnds ==
    ASSUME TypeOK, QueueInv, Pass, BlockedDone
    PROVE  Pass'
<1>1. /\ phase = "blocked" /\ cur = 0 /\ threadtab # {} /\ threadtab \subseteq Threads
      /\ UNCHANGED <<threadtab, q, queue, ctx, mutex, conn>>
  BY DEF BlockedDone, Pass, registry, queues, locks, TypeOK
<1>2. CASE q["run"] # << >>
  BY <1>1, <1>2 DEF BlockedDone, Enter, Pass
<1>3. CASE q["run"] = << >>
  <2>1. \A t \in threadtab : Stuck(t)
    BY <1>1, <1>3 DEF Pass, Passed, Stuck, WaitsForLock, WaitsForIo
  <2>2. phase' \in {"select", "loop"} /\ \A t \in threadtab : Stuck(t)'
    BY <1>1, <1>3, <2>1 DEF BlockedDone, Stuck, WaitsForLock, WaitsForIo
  <2> QED BY <1>1, <1>3, <2>2 DEF Pass
<1> QED BY <1>2, <1>3

\* A round starts only if a thread is left.
LEMMA RoundStarts ==
    ASSUME TypeOK, QueueInv, StartRound
    PROVE  Pass'
<1>1. CASE numActive > 0
  <2>1. threadtab # {}
    BY <1>1, FS_EmptySet DEF QueueInv, QueuesPartition
  <2> QED BY <1>1, <2>1 DEF StartRound, Enter, registry, Pass
<1>2. CASE ~(numActive > 0)
  BY <1>2 DEF StartRound, Pass
<1> QED BY <1>1, <1>2

\* Alarms and input change nothing for a thread that is stuck.
LEMMA PassUndisturbed ==
    ASSUME TypeOK, PassInv,
           UNCHANGED <<threadtab, q, queue, ctx, mutex, sweep>>,
           \A c \in Conns : conn[c] # "closed" => conn'[c] # "closed"
    PROVE  Pass'
<1>1. Pass /\ \A t \in Threads : Known(t)
  BY PassParts
<1>2. threadtab \subseteq Threads
  BY DEF TypeOK
<1>3. ASSUME NEW t \in Threads, Stuck(t) PROVE Stuck(t)'
  <2>1. WaitsForIo(t) => ctx[t].on \in Conns
    BY <1>1 DEF Known, WaitsForIo, WaitsForLock, IoKinds
  <2> QED BY <1>3, <2>1 DEF Stuck, WaitsForLock, WaitsForIo
<1>4. \A t \in Threads : Passed(t)' <=> Passed(t)
  BY DEF Passed, sweep
<1> QED BY <1>1, <1>2, <1>3, <1>4 DEF Pass, sweep

\* The invariant of the passes is inductive, given types and queues.
LEMMA PassStep ==
    ASSUME TypeOK, TypeOK', QueueInv, PassInv, [Next]_vars
    PROVE  PassInv'
<1>0. Pass /\ \A t \in Threads : Known(t)'
  BY PassParts, KnownStep
<1>1. CASE Loop
  <2>1. ASSUME RunDone \/ WakeFromSelect \/ SliceOver \/ Reap PROVE Pass'
    <3>1. phase' \in {"loop", "run"}
      BY <2>1 DEF RunDone, WakeFromSelect, SliceOver, Reap, Advance
    <3> QED BY <3>1 DEF Pass
  <2>2. ASSUME ResumeSleeper PROVE Pass'
    <3>1. phase = "sleepers" /\ phase' = "sleepers" /\ threadtab' = threadtab
      BY <2>2 DEF ResumeSleeper, Advance, registry
    <3> QED BY <1>0, <3>1 DEF Pass
  <2>3. Pass'
    BY <1>0, <1>1, <2>1, <2>2, RoundStarts, PassStarts, PassRetriesIo, PassRetriesLock, PassEnds
       DEF Loop
  <2> QED BY <1>0, <2>3, PassParts
<1>2. CASE Instruction
  <2>1. phase' \in {"run", "exit", "crash"}
    BY <1>2 DEF Instruction, Compute, QuotaExpires, Raise, Return, Sleep, Shutdown,
       SetQuotaOfGoneThread, SetHandler, LockRefused, LockObj, UnlockObj, Fork, Kill,
       ForceKill, SetThreadQuota, ReadFrom, AcceptConnection, CloseConnection, Instr, Running, sweep
  <2>2. Pass'
    BY <2>1 DEF Pass
  <2> QED BY <1>0, <2>2, PassParts
<1>3. CASE Environment
  <2>1. /\ UNCHANGED <<threadtab, q, queue, ctx, mutex, sweep>>
        /\ \A c \in Conns : conn[c] # "closed" => conn'[c] # "closed"
    BY <1>3 DEF Environment, Alarm, InputArrives, queues, registry, locks, TypeOK
  <2> QED BY <1>0, <2>1, PassUndisturbed, PassParts
<1>4. CASE UNCHANGED vars
  <2>1. /\ UNCHANGED <<threadtab, q, queue, ctx, mutex, sweep>>
        /\ \A c \in Conns : conn[c] # "closed" => conn'[c] # "closed"
    BY <1>4 DEF vars, queues, registry, locks
  <2> QED BY <1>0, <2>1, PassUndisturbed, PassParts
<1> QED BY <1>1, <1>2, <1>3, <1>4 DEF Next, Done, Process

\* Nobody is blocked when the system starts.
LEMMA PassInit == Init => PassInv
<1> SUFFICES ASSUME Init PROVE PassInv
  OBVIOUS
<1>1. phase = "loop" /\ \A t \in Threads : queue[t] # "block"
  BY DEF Init
<1> QED BY <1>1 DEF PassInv

\* A pass over block_q that has woken nobody has left nothing undone behind it.
THEOREM PassesThorough == Spec => []PassInv
<1>1. Init => IndInv /\ PassInv
  BY IndInit, PassInit
<1>2. IndInv /\ PassInv /\ [Next]_vars => (IndInv /\ PassInv)'
  BY IndStep, PassStep DEF IndInv
<1> QED BY <1>1, <1>2, PTL DEF Spec

\* The server never sleeps in select() on work it could do: the lock that a
\* thread waits for is held by another one, and no connection that a thread
\* reads from has been closed, though the pass that found all this may have
\* relinked and retried the threads in another order than it began with.
THEOREM NothingMissed == Spec => []SelectMissesNothing
<1>1. PassInv => SelectMissesNothing
  BY DEF PassInv, SelectMissesNothing, Stuck
<1> QED BY <1>1, PassesThorough, PTL

\* Whoever holds a lock that somebody waits for waits for no lock itself; so
\* when everything is stuck, a sleeper or a reader is left to wake the server.
LEMMA SomebodyWakes ==
    ASSUME IndInv, PassInv
    PROVE  SelectCanWake
<1> SUFFICES ASSUME phase = "select"
             PROVE  \E t \in threadtab :
                      queue[t] = "sleep" \/ (WaitsForIo(t) /\ conn[ctx[t].on] # "closed")
  BY DEF SelectCanWake
<1>1. /\ q["run"] = << >> /\ threadtab # {} /\ \A t \in threadtab : Stuck(t)
      /\ \A t \in Threads : Known(t)
  BY PassParts DEF Pass
<1>2. TypeOK /\ QueueInv /\ LockInv /\ threadtab \subseteq Threads
  BY DEF IndInv, TypeOK
<1>3. ASSUME NEW t \in threadtab, ~WaitsForLock(t)
      PROVE  queue[t] = "sleep" \/ (WaitsForIo(t) /\ conn[ctx[t].on] # "closed")
  <2>1. queue[t] \in {"block", "sleep"}
    <3>1. t \notin InQueue(q["run"])
      BY <1>1 DEF InQueue
    <3>2. queue[t] # "run" /\ queue[t] # "none"
      BY <1>2, <3>1 DEF QueueInv, QueuesPartition, Queues
    <3> QED BY <1>2, <3>2 DEF TypeOK, Queues
  <2>2. queue[t] = "block" => WaitsForIo(t) /\ Stuck(t)
    BY <1>1, <1>2, <1>3 DEF Known
  <2> QED BY <2>1, <2>2 DEF Stuck
<1>4. PICK t \in threadtab : TRUE
  BY <1>1
<1>5. CASE ~WaitsForLock(t)
  BY <1>3, <1>5
<1>6. CASE WaitsForLock(t)
  <2> DEFINE o == ctx[t].on
             u == mutex[o].owner
  <2>1. o \in Objects /\ mutex[o].counter > 0
    <3>1. o \in Objects /\ ~Lockable(mutex[o], t)
      BY <1>1, <1>2, <1>6 DEF LockInv, Stuck
    <3>2. mutex[o].counter \in Nat
      BY <1>2, <3>1 DEF TypeOK
    <3> QED BY <3>1, <3>2 DEF Lockable
  <2>2. u \in threadtab
    BY <1>2, <2>1 DEF IndInv, HeldLocksOwned, LockInv, NamedOwnersLive
  <2>3. ~WaitsForLock(u)
    BY <1>2, <2>1, <2>2 DEF LockInv, WaitersHoldNothing
  <2> HIDE DEF u
  <2> QED BY <1>3, <2>2, <2>3
<1> QED BY <1>5, <1>6

\* The server never goes to sleep for good while threads are left, although
\* select() knows nothing of threads that wait for locks.
THEOREM SelectWakes == Spec => []SelectCanWake
<1>1. IndInv /\ PassInv => SelectCanWake
  BY SomebodyWakes
<1> QED BY <1>1, Invariance, PassesThorough, PTL
=============================================================================
